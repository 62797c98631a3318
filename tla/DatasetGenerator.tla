-------------------------- MODULE DatasetGenerator --------------------------
(***************************************************************************)
(* The synthetic dataset (data/generator/generate.py): requests with their *)
(* repeat visits, incidents, invoices, feedback and comments, drawn stage  *)
(* by stage, then checked (validate_dataset, validate.py group A) and      *)
(* loaded.  Time is counted in ticks from the window's start, in UTC; a    *)
(* minute is Minute ticks.  A probability is a choice where it is neither  *)
(* 0 nor 1.                                                                *)
(***************************************************************************)
EXTENDS Integers, FiniteSets, Sequences, FiniteSetsExt

CONSTANTS
  Minute, Day, Week,     \* in ticks
  Weeks,                 \* length of the window
  Snapshot,              \* ticks from the window's end to the snapshot
  Behind,                \* the sites' time zone: local midnight is this late in UTC
  Hours,                 \* scheduled times of a local day
  Lead, Lag, Took, Wait, \* booking lead, dispatch lag, work, no-show wait
  Sla,                   \* the SLA window
  ChildLo, ChildHi,      \* child_schedule_days
  OpenWeeks, ActiveWeeks, PendingWeeks,
  Report, Log, Resolve,  \* delays of an incident
  Labor, Rates, Credit,  \* charges; surcharges and credits in halves of the charge
  Filing, Dispute,       \* archive delay, dispute update
  Reply,                 \* response delay
  Stops,                 \* when the account may stop
  Varied,                \* the sets of streams whose draws are enumerated together
  Comments,              \* comments per corpus cell
  MaxRequests,           \* bound: no repeat visit beyond this many requests
  MaxIncidents           \* bound: incidents in all

VARIABLES
  stage,      \* the stage generate.py is in
  vary,       \* streams whose draws vary; those of the others are fixed
  stop,       \* the account's stop_at
  requests, incidents, archive, rows,
  todo        \* what the stage still has to draw: incident types, requests, incidents

vars == <<stage, vary, stop, requests, incidents, archive, rows, todo>>

Nothing == -1000

End == Week * Weeks
AsOf == End + Snapshot

Earlier(s, t) == IF s <= t THEN s ELSE t
Later(s, t) == IF s <= t THEN t ELSE s

ToMinute(t) == t - (t % Minute)

\* Every stage draws from a stream of its own; a stream that does not vary draws one value.
Draw(stream, S) == IF stream \in vary \/ S = {} THEN S ELSE {CHOOSE x \in S : TRUE}

\* A time after the snapshot is drawn again before it; the two ends stand for the points between.
BeforeAsOf(stream, start, t) == IF t <= AsOf THEN {t} ELSE Draw(stream, {start, AsOf})

LocalDay(t) == (t - Behind) \div Day

----------------------------------------------------------------------------
(* Requests *)

\* The account takes requests in a week that starts before its stop.
Live(w) == stop = Nothing \/ w * Week < stop

\* A slot of a local day, before the window's end.
Slots(day) == {t \in {day * Day + h + Behind : h \in Hours} : t < End}

IsMissed(r) == r.completed # Nothing /\ r.completed > r.dispatched + Sla

Booked(t, w, parent, created) ==
  [scheduled |-> t, week |-> w, parent |-> parent, created |-> created,
   status |-> "open", reason |-> "none", dispatched |-> Nothing, cancelled |-> Nothing, completed |-> Nothing]

Created(t, parent) ==
  IF parent = Nothing
  THEN {ToMinute(t - d) : d \in Draw("requests", Lead)}
  ELSE LET done == requests[parent].completed
           span == t - done
       IN  {ToMinute(c) : c \in Draw("requests", (done + span \div 10 + 1) .. (done + (span * 9) \div 10))}

NoShow(r, dispatched, wait) ==
  LET went == Earlier(dispatched, AsOf)
  IN  [r EXCEPT !.status = "cancelled", !.reason = "client_no_show",
                !.dispatched = went, !.cancelled = Earlier(went + wait, AsOf)]

CalledOff(r, t) ==
  [r EXCEPT !.status = "cancelled", !.reason = "other", !.cancelled = t]

\* In the final weeks some requests are still under way; later ones would end after the snapshot.
Statuses(r, dispatched, completed) ==
  LET end  == IF completed > AsOf THEN "in_progress" ELSE "completed"
      open == IF "requests" \in vary /\ Weeks - r.week <= OpenWeeks
              THEN {"open", "dispatched", "in_progress"} ELSE {}
  IN  {IF dispatched > AsOf THEN "open" ELSE s : s \in {end} \cup open}

Carried(r, status, dispatched, completed) ==
  [r EXCEPT !.status = status,
            !.dispatched = IF status = "open" THEN Nothing ELSE dispatched,
            !.completed = IF status = "completed" THEN completed ELSE Nothing]

Cancellations(r, dispatched) ==
  {NoShow(r, dispatched, w) : w \in Wait} \cup {CalledOff(r, t) : t \in r.created .. r.scheduled}

NewRequest(t, w, parent) ==
  UNION {LET r == Booked(t, w, parent, c)
         IN  UNION {LET sent == t + lag
                    IN  (IF "requests" \in vary THEN Cancellations(r, sent) ELSE {})
                          \cup UNION {{Carried(r, s, sent, sent + took) : s \in Statuses(r, sent, sent + took)} :
                                        took \in Draw("requests", Took)} :
                    lag \in Draw("requests", Lag)} :
         c \in Created(t, parent)}

BuildRequests ==
  /\ stage = "requests"
  /\ \E w \in {v \in 0 .. Weeks - 1 : Live(v)} :
       \E day \in (w * Week) \div Day .. ((w + 1) * Week) \div Day - 1 :
         \E t \in Slots(day) : \E r \in NewRequest(t, w, Nothing) : requests' = <<r>>
  /\ stage' = "incidents"
  /\ UNCHANGED <<vary, stop, incidents, archive, rows, todo>>

----------------------------------------------------------------------------
(* Incidents and repeat visits *)

IncidentTypes == {"missed_sla", "repeat_visit_required", "equipment_damage"}

Latest == Len(requests)

\* Mutated form: the day itself is left out of the margin.
RepeatFitsByDays(r) ==
  r.completed + ChildHi * Day <= (IF stop = Nothing THEN End ELSE Earlier(stop, End))

\* A child must fit before the window's end and the account's stop.
RepeatFits(r) ==
  r.completed + (ChildHi + 1) * Day <= (IF stop = Nothing THEN End ELSE Earlier(stop, End))

Excluded(r, types) ==
  {"missed_sla"}
    \cup (IF RepeatFits(r) /\ Latest < MaxRequests THEN {} ELSE {"repeat_visit_required"})
    \cup {t \in {"repeat_visit_required"} : \E i \in DOMAIN types : types[i] = t}

TypeLists(r) ==
  LET first == IF IsMissed(r) THEN {<<"missed_sla">>} ELSE {<<t>> : t \in IncidentTypes \ Excluded(r, <<>>)}
      two   == UNION {{Append(s, t) : t \in IncidentTypes \ Excluded(r, s)} : s \in first}
  IN  {s \in {<<>>} \cup first \cup two : Len(incidents) + Len(s) <= MaxIncidents}

BuildIncidents ==
  /\ stage = "incidents"
  /\ LET r == requests[Latest]
     IN  todo' \in (IF r.status # "completed" THEN {<<>>}
                    ELSE IF "types" \in vary THEN TypeLists(r)
                    ELSE {CHOOSE s \in TypeLists(r) : \A u \in TypeLists(r) : Len(u) <= Len(s)})
  /\ stage' = "incident"
  /\ UNCHANGED <<vary, stop, requests, incidents, archive, rows>>

NewIncidents(id, type) ==
  LET r == requests[id] IN
  UNION {UNION {
    LET created  == ToMinute(logged)
        finished == {ToMinute(e) : e \in UNION {BeforeAsOf("incidents", created, created + d) :
                                                  d \in Draw("incidents", Resolve)}}
        active   == IF (End - reported) \div Week < ActiveWeeks THEN {"open", "investigating"} ELSE {}
    IN  {[request |-> id, type |-> type, severity |-> v, reported |-> reported, created |-> created,
          status |-> end[1], resolved |-> end[2], credit |-> 0, notes |-> TRUE] :
            v \in Draw("incidents", {"high", "low"}),
            end \in ({"resolved"} \X finished)
                      \cup (IF "incidents" \in vary THEN active \X {Nothing} ELSE {})} :
    logged \in UNION {BeforeAsOf("incidents", reported, reported + d) : d \in Draw("incidents", Log)}} :
    reported \in {ToMinute(t) : t \in UNION {BeforeAsOf("incidents", r.completed, r.completed + d) :
                                               d \in Draw("incidents", Report)}}}

NewIncident ==
  /\ stage = "incident" /\ todo # <<>>
  /\ \E i \in NewIncidents(Latest, todo[1]) : incidents' = Append(incidents, i)
  /\ todo' = Tail(todo)
  /\ UNCHANGED <<stage, vary, stop, requests, archive, rows>>

IncidentsOf(id) == {i \in DOMAIN incidents : incidents[i].request = id}

\* A repeat visit is a request like any other, days after its parent; it has incidents too.
BuildChildren ==
  /\ stage = "incident" /\ todo = <<>>
  /\ IF \A i \in IncidentsOf(Latest) : incidents[i].type # "repeat_visit_required"
     THEN /\ stage' = "billing" /\ todo' = [i \in 1 .. Latest |-> i]
          /\ UNCHANGED requests
     ELSE \E d \in Draw("requests", ChildLo .. ChildHi) :
            LET day == LocalDay(requests[Latest].completed) + d
            IN  IF Slots(day) = {}
                THEN stage' = "failed" /\ UNCHANGED <<requests, todo>>
                ELSE \E t \in Slots(day) : \E r \in NewRequest(t, (day * Day) \div Week, Latest) :
                       requests' = Append(requests, r) /\ stage' = "incidents" /\ UNCHANGED todo
  /\ UNCHANGED <<vary, stop, incidents, archive, rows>>

----------------------------------------------------------------------------
(* Invoices, credits, notes *)

\* Rounded half up; a surcharge is in halves of the charge.
Total(a) == (a.labor * (2 + a.rate) + 1) \div 2

Payments(r) ==
  {"disputed", "paid"} \cup (IF AsOf - r.completed < PendingWeeks * Week THEN {"pending"} ELSE {})

Invoices(id) ==
  LET r == requests[id] IN
  UNION {UNION {LET filed == Later(ToMinute(t), r.completed)
                IN  {[labor |-> l, rate |-> s, status |-> pay, reference |-> pay # "pending",
                      archived |-> filed,
                      updated |-> IF pay = "disputed" THEN Later(ToMinute(u), filed) ELSE filed] :
                       l \in Draw("billing", Labor), s \in Draw("billing", Rates),
                       u \in UNION {BeforeAsOf("billing", filed, filed + d) : d \in Dispute}} :
                t \in UNION {BeforeAsOf("billing", r.completed, r.completed + d) : d \in Draw("billing", Filing)}} :
         pay \in Draw("billing", Payments(r))}

Bill ==
  /\ stage = "billing" /\ todo # <<>>
  /\ LET id == todo[1]
     IN  IF requests[id].status = "completed"
         THEN \E a \in Invoices(id) :
                archive' = [x \in DOMAIN archive \cup {id} |-> IF x = id THEN a ELSE archive[x]]
         ELSE UNCHANGED archive
  /\ todo' = Tail(todo)
  /\ UNCHANGED <<stage, vary, stop, requests, incidents, rows>>

BillsDone ==
  /\ stage = "billing" /\ todo = <<>>
  /\ stage' = "credits"
  /\ todo' = [i \in DOMAIN incidents |-> i]
  /\ UNCHANGED <<vary, stop, requests, incidents, archive, rows>>

Credits(id) == FoldSet(LAMBDA i, sum : sum + incidents[i].credit, 0, IncidentsOf(id))

\* Part of the invoice, rounded down, and never more than is left of it.
Issued(i, share) ==
  LET id   == incidents[i].request
      left == Total(archive[id]) - Credits(id)
  IN  Earlier((Total(archive[id]) * share) \div 2, left)

CreditIncident ==
  /\ stage = "credits" /\ todo # <<>>
  /\ \E share \in Draw("billing", Credit) :
       incidents' = [incidents EXCEPT ![todo[1]].credit = Issued(todo[1], share)]
  /\ todo' = Tail(todo)
  /\ UNCHANGED <<stage, vary, stop, requests, archive, rows>>

\* Only an open incident may have no notes yet.
BuildIncidentNotes ==
  /\ stage = "credits" /\ todo = <<>>
  /\ \E bare \in SUBSET {i \in DOMAIN incidents : incidents[i].status = "open"} :
       incidents' = [i \in DOMAIN incidents |-> [incidents[i] EXCEPT !.notes = i \notin bare]]
  /\ stage' = "feedback"
  /\ todo' = [i \in DOMAIN requests |-> i]
  /\ UNCHANGED <<vary, stop, requests, archive, rows>>

----------------------------------------------------------------------------
(* Feedback and comments *)

\* Most severe, then earliest reported, then lowest id.
Outranks(i, j) ==
  LET a == incidents[i]
      b == incidents[j]
  IN  \/ a.severity = "high" /\ b.severity = "low"
      \/ /\ a.severity = b.severity
         /\ (a.reported < b.reported \/ (a.reported = b.reported /\ i <= j))

Linked(id) ==
  IF IncidentsOf(id) = {} THEN Nothing
  ELSE CHOOSE i \in IncidentsOf(id) : \A j \in IncidentsOf(id) : Outranks(i, j)

\* A reply is never logged before its incident is.
Submitted(id, delay) ==
  LET sent == requests[id].completed + delay
      link == Linked(id)
  IN  IF link = Nothing THEN sent ELSE Later(sent, incidents[link].created)

FeedbackRow(id, delay) ==
  [request |-> id, link |-> Linked(id), submitted |-> ToMinute(Submitted(id, delay)),
   cell |-> <<>>, comment |-> Nothing]

Skip == UNCHANGED rows

BuildFeedback ==
  /\ stage = "feedback" /\ todo # <<>>
  /\ \/ \E delay \in Draw("feedback", Reply) :
          /\ requests[todo[1]].status = "completed" /\ Submitted(todo[1], delay) <= AsOf
          /\ rows' = Append(rows, FeedbackRow(todo[1], delay))
     \/ Skip
  /\ todo' = Tail(todo)
  /\ UNCHANGED <<stage, vary, stop, requests, incidents, archive>>

\* A positive comment about a visit with an incident comes from the cells without one.
Cell(sentiment, row) ==
  IF row.link = Nothing \/ sentiment = "positive" THEN <<sentiment, "none">>
  ELSE <<sentiment, IF incidents[row.link].severity = "low" THEN "minor" ELSE "serious",
         incidents[row.link].type>>

BuildSentiment ==
  /\ stage = "feedback" /\ todo = <<>>
  /\ \E mood \in [DOMAIN rows -> Draw("feedback", {"positive", "negative"})] :
       rows' = [i \in DOMAIN rows |-> [rows[i] EXCEPT !.cell = Cell(mood[i], rows[i])]]
  /\ stage' = "comments"
  /\ UNCHANGED <<vary, stop, requests, incidents, archive, todo>>

Before(n) == Cardinality({i \in 1 .. n - 1 : rows[i].cell = rows[n].cell})

\* Comments are drawn without replacement, each from its row's own cell.
AssignCorpus ==
  /\ stage = "comments"
  /\ IF \E n \in DOMAIN rows : Before(n) >= Comments
     THEN stage' = "exhausted" /\ UNCHANGED rows
     ELSE /\ stage' = "emitted"
          /\ rows' = [n \in DOMAIN rows |-> [rows[n] EXCEPT !.comment = Before(n) + 1]]
  /\ UNCHANGED <<vary, stop, requests, incidents, archive, todo>>

----------------------------------------------------------------------------
(* The checks before the load (validate_dataset) and after it (group A) *)

Completed == {id \in DOMAIN requests : requests[id].status = "completed"}

Updated(r) ==
  IF r.completed # Nothing THEN r.completed
  ELSE IF r.cancelled # Nothing THEN r.cancelled
  ELSE IF r.dispatched # Nothing THEN r.dispatched ELSE r.created

ValidateDataset ==
  /\ \A id \in DOMAIN requests :
       LET r == requests[id]
       IN  /\ (r.cancelled # Nothing) <=> (r.status = "cancelled")
           /\ r.reason # "none" => r.status = "cancelled"
           /\ r.parent # id
  /\ DOMAIN archive = Completed
  /\ \A id \in Completed : requests[id].completed >= requests[id].scheduled
  /\ \A id \in Completed : Credits(id) <= Total(archive[id])
  /\ \A i \in DOMAIN incidents : incidents[i].credit >= 0
  /\ \A m, n \in DOMAIN rows : m # n =>
       /\ <<rows[m].cell, rows[m].comment>> # <<rows[n].cell, rows[n].comment>>
       /\ rows[m].request # rows[n].request

OfType(id, type) == {i \in IncidentsOf(id) : incidents[i].type = type}

ChildrenOf(id) == {c \in DOMAIN requests : requests[c].parent = id}

Stamps ==
  UNION {{r.created, r.dispatched, r.cancelled, Updated(r)} : r \in {requests[id] : id \in DOMAIN requests}}
    \cup UNION {{archive[id].archived, archive[id].updated} : id \in DOMAIN archive}
    \cup UNION {{i.reported, i.created, i.resolved} : i \in {incidents[n] : n \in DOMAIN incidents}}
    \cup {rows[n].submitted : n \in DOMAIN rows}

Invariants ==
  /\ \A i \in DOMAIN incidents : incidents[i].request \in Completed
  /\ \A n \in DOMAIN rows : rows[n].request \in Completed /\ rows[n].link = Linked(rows[n].request)
  /\ \A id \in DOMAIN requests :
       LET missed == Cardinality(OfType(id, "missed_sla"))
       IN  /\ missed > 0 => IsMissed(requests[id])
           /\ IsMissed(requests[id]) /\ IncidentsOf(id) # {} => missed = 1
           /\ Cardinality(ChildrenOf(id)) = IF OfType(id, "repeat_visit_required") = {} THEN 0 ELSE 1
           /\ requests[id].status \notin {"completed", "cancelled"} =>
                requests[id].scheduled >= End - OpenWeeks * Week - Day
  /\ \A n \in DOMAIN incidents :
       LET i == incidents[n]
       IN  /\ i.status \in {"open", "investigating"} <=> i.resolved = Nothing
           /\ i.resolved = Nothing => i.reported > End - ActiveWeeks * Week
           /\ i.notes \/ i.status = "open"
  /\ \A id \in DOMAIN archive :
       /\ archive[id].status = "pending" => AsOf - requests[id].completed < PendingWeeks * Week
       /\ archive[id].reference <=> archive[id].status # "pending"
  /\ \A t \in Stamps : t <= AsOf

\* load.main: a dataset with a problem is not written.
Load ==
  /\ stage = "emitted"
  /\ stage' = IF ValidateDataset THEN "loaded" ELSE "refused"
  /\ UNCHANGED <<vary, stop, requests, incidents, archive, rows, todo>>

Init ==
  /\ stage = "requests"
  /\ vary \in Varied
  /\ stop \in Stops
  /\ requests = <<>> /\ incidents = <<>> /\ archive = <<>> /\ rows = <<>> /\ todo = <<>>

Next ==
  \/ BuildRequests \/ BuildIncidents \/ NewIncident \/ BuildChildren
  \/ Bill \/ BillsDone \/ CreditIncident \/ BuildIncidentNotes
  \/ BuildFeedback \/ BuildSentiment \/ AssignCorpus \/ Load

Spec == Init /\ [][Next]_vars

----------------------------------------------------------------------------
(* Properties *)

\* What generate.py emits passes every check of load.py and of validate.py's group A, whatever it
\* draws: a load is refused, or the quality gate fails, only if generator and checks disagree.
DatasetIsAccepted == stage \in {"emitted", "loaded", "refused"} => ValidateDataset /\ Invariants

\* The events of a request, its repeat visit, its incidents, its invoice and its feedback happen in
\* an order a history can have, which group A does not check; a repeat visit always finds a
\* slot, before its account stops.  Stamps cut to the minute may precede the second they follow.
HistoryIsPossible ==
  /\ stage # "failed"
  /\ \A id \in DOMAIN requests :
       LET r == requests[id]
       IN  /\ r.created <= r.scheduled
           /\ r.dispatched # Nothing => r.scheduled <= r.dispatched
           /\ r.completed # Nothing => r.dispatched <= r.completed
           /\ r.reason = "client_no_show" => r.dispatched <= r.cancelled
           /\ r.parent # Nothing =>
                /\ requests[r.parent].completed - r.created < Minute
                /\ stop # Nothing => r.scheduled < stop
  /\ \A n \in DOMAIN incidents :
       LET i == incidents[n]
       IN  /\ requests[i.request].completed - i.reported < Minute
           /\ i.reported <= i.created
           /\ i.resolved # Nothing => i.created <= i.resolved
  /\ \A id \in DOMAIN archive :
       requests[id].completed <= archive[id].archived /\ archive[id].archived <= archive[id].updated
  /\ \A n \in DOMAIN rows :
       /\ requests[rows[n].request].completed - rows[n].submitted < Minute
       /\ rows[n].link # Nothing => incidents[rows[n].link].created <= rows[n].submitted

\* Both: what is emitted is accepted by every check, and is a history that can have happened.
DatasetHolds == DatasetIsAccepted /\ HistoryIsPossible
=============================================================================

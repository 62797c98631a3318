----------------------------- MODULE Migrations -----------------------------
(***************************************************************************)
(* The database migrations (data/migrations/versions) and what they grant: *)
(* which role may read or write what at each revision, checked against the *)
(* access matrix (db_models/access_matrix.py) and against the queries of   *)
(* the services and scripts.  Databases share one Postgres server, and so  *)
(* its roles.  A migration runs in a transaction: it happens or it fails   *)
(* and changes nothing.                                                    *)
(*                                                                         *)
(* A privilege is <<role, table, what>>: "SELECT" on the whole table, one  *)
(* of its columns, "INSERT" or "ALL".  Postgres itself is external: REVOKE *)
(* on a table takes its column grants too, and a role that holds anything  *)
(* in another database cannot be dropped.                                  *)
(***************************************************************************)
EXTENDS Naturals, Sequences

CONSTANT Database

VARIABLES
  revision,  \* revision[d]: the number of migrations applied
  granted,   \* granted[d]: the privileges in d
  loaded,    \* loaded[d]: a dataset has been loaded (load.py)
  roles      \* roles of the server

migrations == <<revision, granted, loaded, roles>>

Runtime == {"app_reporting", "app_sentiment", "app_forecast", "app_qa", "app_generator"}
Offline == {"app_eval", "app_train"}
Pii == {"contacts", "internal_users"}
ReferenceTables == {"accounts", "locations", "technicians", "technician_skills"}
RequestTables == {"service_requests", "archived_requests"}
Operational == ReferenceTables \cup RequestTables \cup {"incidents"}
Gold == {"sentiment_labels", "generation_parameters"}
FirstTables == Operational \cup Gold \cup Pii \cup {"service_feedback"}

Select(role, tables) == {role} \X tables \X {"SELECT"}
Columns(role, table, columns) == {role} \X {table} \X columns
All(role, tables) == {role} \X tables \X {"ALL"}
Connect(who) == who \X {"database"} \X {"CONNECT"} \cup who \X {"schema"} \X {"USAGE"}

\* REVOKE SELECT ON TABLE takes the column grants with it.
RevokedSelect(g, role, tables) ==
  {p \in g : ~(p[1] = role /\ p[2] \in tables /\ p[3] \notin {"INSERT", "ALL"})}

NonText == {"feedback_id", "request_id", "incident_id", "submitted_by_contact_id",
            "submitted_at", "rating", "response_channel", "created_at"}
SentimentColumns == {"feedback_id", "request_id", "submitted_at", "feedback_text"}
ForecastColumns == {"request_id", "scheduled_datetime", "service_type"}
ForecastTables == {"accounts", "archived_requests", "locations", "service_requests"}

-----------------------------------------------------------------------------
(* The migrations that change privileges: upgrade and downgrade.           *)

RolesUp(g) ==
  (g \ Connect({"PUBLIC"})) \cup Connect(Runtime)
    \cup Select("app_reporting", Operational)
    \cup Columns("app_reporting", "service_feedback", NonText)
    \cup Select("app_sentiment", {"service_feedback"})
    \cup Select("app_forecast", ForecastTables)
    \cup Select("app_qa", Operational \cup Gold \cup {"service_feedback"})
    \cup All("app_generator", FirstTables)

DropRoles(g, dropped) == {p \in g : p[1] \notin dropped}

RolesDown(g) == DropRoles(g, Runtime) \cup Connect({"PUBLIC"})

SentimentUp(g) ==
  RevokedSelect(g, "app_sentiment", {"service_feedback"})
    \cup Columns("app_sentiment", "service_feedback", SentimentColumns)

SentimentDown(g) ==
  RevokedSelect(g, "app_sentiment", {"service_feedback"})
    \cup Select("app_sentiment", {"service_feedback"})

ForecastUp(g) ==
  RevokedSelect(g, "app_forecast", ForecastTables)
    \cup Columns("app_forecast", "service_requests", ForecastColumns)

\* Mutated form: the column grant is not cleared first.
ForecastDownKeeping(g) == g \cup Select("app_forecast", ForecastTables)

ForecastDown(g) ==
  RevokedSelect(g, "app_forecast", {"service_requests"})
    \cup Select("app_forecast", ForecastTables)

OfflineUp(g) ==
  RevokedSelect(g \ Connect({"PUBLIC"}), "app_qa", Gold) \cup Connect(Offline)
    \cup Select("app_eval", Operational \cup Gold \cup {"service_feedback"})
    \cup Select("app_train", {"sentiment_labels"})
    \cup Columns("app_train", "service_feedback", SentimentColumns)
    \cup Columns("app_train", "service_requests", ForecastColumns)

OfflineDown(g) == DropRoles(g \cup Select("app_qa", Gold), Offline)

RegionAccess ==
  Columns("app_sentiment", "service_requests", {"request_id", "location_id"})
    \cup Columns("app_sentiment", "locations", {"location_id", "region"})

PredictionsUp(g) ==
  g \cup (UNION {Select(r, {"sentiment_predictions"}) : r \in {"app_sentiment", "app_qa", "app_eval"}})
    \cup {<<"app_sentiment", "sentiment_predictions", "INSERT">>}
    \cup All("app_generator", {"sentiment_predictions"})
    \cup RegionAccess

\* Dropping the table drops the privileges on it.
PredictionsDown(g) == {p \in g \ RegionAccess : p[2] # "sentiment_predictions"}

\* The revisions in order; the others change tables and columns only.
Revisions == <<"schema", "roles", "sentiment", "forecast", "hard_case", "param_group",
               "region", "offline", "predictions">>
Latest == Len(Revisions)

Upgraded(name, g) ==
  CASE name = "roles"       -> RolesUp(g)
    [] name = "sentiment"   -> SentimentUp(g)
    [] name = "forecast"    -> ForecastUp(g)
    [] name = "offline"     -> OfflineUp(g)
    [] name = "predictions" -> PredictionsUp(g)
    [] OTHER                -> g

Downgraded(name, g) ==
  CASE name = "roles"       -> RolesDown(g)
    [] name = "sentiment"   -> SentimentDown(g)
    [] name = "forecast"    -> ForecastDown(g)
    [] name = "offline"     -> OfflineDown(g)
    [] name = "predictions" -> PredictionsDown(g)
    [] OTHER                -> g

Creates(name) ==
  CASE name = "roles" -> Runtime [] name = "offline" -> Offline [] OTHER -> {}

-----------------------------------------------------------------------------
NewDatabase == Connect({"PUBLIC"})

MigrationInit ==
  /\ revision = [d \in Database |-> 0]
  /\ granted = [d \in Database |-> NewDatabase]
  /\ loaded = [d \in Database |-> FALSE]
  /\ roles = {}

\* A role that exists converges; corpus_id is added NOT NULL without a default.
Upgrade(d) ==
  /\ revision[d] < Latest
  /\ LET name == Revisions[revision[d] + 1] IN
     /\ ~(name = "hard_case" /\ loaded[d])
     /\ granted' = [granted EXCEPT ![d] = Upgraded(name, @)]
     /\ roles' = roles \cup Creates(name)
  /\ revision' = [revision EXCEPT ![d] = @ + 1]
  /\ UNCHANGED loaded

HeldElsewhere(d, some) == \E e \in Database \ {d} : \E p \in granted[e] : p[1] \in some

\* DROP ROLE fails while another database has grants to the role; the older
\* CHECK fails on a loaded parameter of group "world" or "feedback".
Downgrade(d) ==
  /\ revision[d] > 0
  /\ LET name == Revisions[revision[d]] IN
     /\ ~HeldElsewhere(d, Creates(name))
     /\ ~(name = "param_group" /\ loaded[d])
     /\ granted' = [granted EXCEPT ![d] = Downgraded(name, @)]
     /\ roles' = roles \ Creates(name)
     /\ loaded' = [loaded EXCEPT ![d] = @ /\ name # "schema"]
  /\ revision' = [revision EXCEPT ![d] = @ - 1]

\* load.py needs the tables and columns of the head revision.
Load(d) ==
  /\ revision[d] = Latest
  /\ loaded' = [loaded EXCEPT ![d] = TRUE]
  /\ UNCHANGED <<revision, granted, roles>>

\* The database is dropped and created anew: roles outlive it.
Rebuild(d) ==
  /\ revision' = [revision EXCEPT ![d] = 0]
  /\ granted' = [granted EXCEPT ![d] = NewDatabase]
  /\ loaded' = [loaded EXCEPT ![d] = FALSE]
  /\ UNCHANGED roles

MigrationNext == \E d \in Database : Upgrade(d) \/ Downgrade(d) \/ Load(d) \/ Rebuild(d)

MigrationSpec == MigrationInit /\ [][MigrationNext]_migrations

-----------------------------------------------------------------------------
(* access_matrix.py, and the columns the SQL of each role names.           *)

Matrix ==
  Connect(Runtime \cup Offline)
    \cup Select("app_reporting", Operational)
    \cup Columns("app_reporting", "service_feedback", NonText)
    \cup Select("app_sentiment", {"sentiment_predictions"})
    \cup {<<"app_sentiment", "sentiment_predictions", "INSERT">>}
    \cup Columns("app_sentiment", "service_feedback", SentimentColumns)
    \cup Columns("app_sentiment", "service_requests", {"request_id", "location_id"})
    \cup Columns("app_sentiment", "locations", {"location_id", "region"})
    \cup Columns("app_forecast", "service_requests", ForecastColumns)
    \cup Select("app_qa", Operational \cup {"service_feedback", "sentiment_predictions"})
    \cup All("app_generator", FirstTables \cup {"sentiment_predictions"})
    \cup Select("app_eval", Operational \cup Gold \cup {"service_feedback", "sentiment_predictions"})
    \cup Select("app_train", {"sentiment_labels"})
    \cup Columns("app_train", "service_feedback", SentimentColumns)
    \cup Columns("app_train", "service_requests", ForecastColumns)

SentimentReads ==
  {"service_feedback"} \X {"feedback_id", "request_id", "submitted_at", "feedback_text"}
    \cup {"service_requests"} \X {"request_id", "location_id"}
    \cup {"locations"} \X {"location_id", "region"}
    \cup {"sentiment_predictions"} \X {"model_version", "predicted_label"}

ForecastReads == {"service_requests"} \X {"scheduled_datetime", "service_type"}

ReportingReads ==
  (Operational \ {"technician_skills"}) \X {"any"}

QAReads ==
  (Operational \ {"technician_skills"}) \X {"any"}
    \cup {"service_feedback"} \X {"feedback_text", "rating", "submitted_at"}
    \cup {"sentiment_predictions"} \X {"predicted_label"}

TrainReads ==
  {"service_feedback"} \X {"feedback_id", "feedback_text"} \cup ForecastReads
    \cup {"sentiment_labels"} \X {"true_sentiment", "hard_case_type", "corpus_id"}

\* validate.py reads the weekly series as app_forecast and the rest as app_eval.
EvalReads == (Gold \cup {"accounts", "locations", "service_requests", "archived_requests",
                         "incidents", "service_feedback"}) \X {"any"}

\* load.py empties the predictions and fills the other tables.
LoadTables == FirstTables \cup {"sentiment_predictions"}

Reads(role) ==
  CASE role = "app_sentiment" -> SentimentReads
    [] role = "app_forecast"  -> ForecastReads
    [] role = "app_reporting" -> ReportingReads
    [] role = "app_qa"        -> QAReads
    [] role = "app_train"     -> TrainReads
    [] role = "app_eval"      -> EvalReads
    [] OTHER                  -> {}

MayRead(g, role, table, column) ==
  \E what \in {"SELECT", "ALL", column} : <<role, table, what>> \in g

\* The privileges a database has when it was only upgraded.
FreshRoles == RolesUp(NewDatabase)
FreshSentiment == SentimentUp(FreshRoles)
FreshForecast == ForecastUp(FreshSentiment)
FreshOffline == OfflineUp(FreshForecast)
FreshPredictions == PredictionsUp(FreshOffline)

\* ... by revision: the migrations between "forecast" and "offline" grant nothing.
Fresh(n) ==
  CASE n \in {0, 1}       -> NewDatabase
    [] n = 2             -> FreshRoles
    [] n = 3             -> FreshSentiment
    [] n \in {4, 5, 6, 7} -> FreshForecast
    [] n = 8             -> FreshOffline
    [] n = 9             -> FreshPredictions

\* Whatever upgrades, downgrades, rebuilds and refusals, in whichever of the
\* databases that share the roles, led to a revision: its privileges are those
\* of a fresh upgrade, with no leftover column grant, and their roles exist;
\* those of the head are the access matrix (test_access_matrix_grants.py),
\* which lets every deployed query read the columns it names and keeps text,
\* ratings, labels and personal data from the roles access_matrix.py lists.
GrantsFollowRevision ==
  \A d \in Database :
    LET g == granted[d] IN
    /\ g = Fresh(revision[d])
    /\ \A p \in g : p[1] \in roles \cup {"PUBLIC"}
    /\ revision[d] = Latest =>
         /\ g = Matrix
         /\ \A r \in Runtime \cup Offline : \A c \in Reads(r) : MayRead(g, r, c[1], c[2])
         /\ \A t \in LoadTables : <<"app_generator", t, "ALL">> \in g
         /\ \A r \in Runtime \cup Offline, t \in Pii :
              r # "app_generator" => ~\E p \in g : p[1] = r /\ p[2] = t
         /\ \A r \in {"app_sentiment", "app_train"} : ~MayRead(g, r, "service_feedback", "rating")
         /\ ~MayRead(g, "app_reporting", "service_feedback", "feedback_text")
         /\ \A r \in Runtime \ {"app_generator"}, t \in Gold : ~MayRead(g, r, t, "any")
=============================================================================

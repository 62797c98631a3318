------------------------- MODULE OfflineJobsProofs -------------------------
(***************************************************************************)
(* What holds of three of the jobs that are run by hand, for every value   *)
(* of their constants.                                                     *)
(*                                                                         *)
(* The database migrations: GrantsFollowRevision from MigrationInv.  The   *)
(* privileges of every revision are spelled out, one by one; every         *)
(* downgrade undoes its upgrade, and the head is the access matrix.        *)
(*                                                                         *)
(* The thinking-level experiment: CapsHoldOverRestarts from CapsInv, which *)
(* says what the ledger has in reserve for the run that is going on, and   *)
(* DecisionIsEarned from DecisionInv, which says what every step of a      *)
(* selection already knows of the levels behind it.                        *)
(*                                                                         *)
(* The session driver: SentIsCounted from DriverInv.  The ledger file      *)
(* counts what was sent and what is due, weighed by its cost, and a        *)
(* driver's questions are sent, taken or left.                             *)
(***************************************************************************)
EXTENDS Migrations, EvalLedger, SessionDriver, FiniteSetTheorems, WellFoundedInduction,
        NaturalsInduction, TLAPS

-----------------------------------------------------------------------------
(* THE MIGRATIONS.                                                         *)

\* Sets of privileges are compared privilege by privilege.
Privileges(g) == \A p \in g : p = <<p[1], p[2], p[3]>>

Connection == {<<"database", "CONNECT">>, <<"schema", "USAGE">>}

LEMMA SamePrivileges ==
  ASSUME NEW g, NEW h, Privileges(g), Privileges(h),
         \A r, t, w : <<r, t, w>> \in g <=> <<r, t, w>> \in h
  PROVE  g = h
<1>1. ASSUME NEW p \in g PROVE p \in h
  <2>1. p = <<p[1], p[2], p[3]>>
    BY <1>1, Zenon DEF Privileges
  <2>2. <<p[1], p[2], p[3]>> \in g
    BY <1>1, <2>1, Zenon
  <2>3. <<p[1], p[2], p[3]>> \in h
    BY <2>2, Zenon
  <2> QED
    BY <2>1, <2>3, Zenon
<1>2. ASSUME NEW p \in h PROVE p \in g
  <2>1. p = <<p[1], p[2], p[3]>>
    BY <1>2, Zenon DEF Privileges
  <2>2. <<p[1], p[2], p[3]>> \in h
    BY <1>2, <2>1, Zenon
  <2>3. <<p[1], p[2], p[3]>> \in g
    BY <2>2, Zenon
  <2> QED
    BY <2>1, <2>3, Zenon
<1> QED
  BY <1>1, <1>2

LEMMA Connected ==
  ASSUME NEW who
  PROVE  /\ Privileges(Connect(who))
         /\ \A r, t, w : <<r, t, w>> \in Connect(who) <=> r \in who /\ <<t, w>> \in Connection
BY DEF Privileges, Connect, Connection

-----------------------------------------------------------------------------
(* What a fresh upgrade grants, revision by revision.                      *)

LEMMA NewHeld ==
  /\ Privileges(NewDatabase)
  /\ \A r, t, w : <<r, t, w>> \in NewDatabase <=> r = "PUBLIC" /\ <<t, w>> \in Connection
BY Connected DEF NewDatabase

\* The privileges of each revision, one by one.
RolesGive(r, t, w) ==
  \/ r \in Runtime /\ <<t, w>> \in Connection
  \/ r = "app_reporting" /\ t \in Operational /\ w = "SELECT"
  \/ r = "app_reporting" /\ t = "service_feedback" /\ w \in NonText
  \/ r = "app_sentiment" /\ t = "service_feedback" /\ w = "SELECT"
  \/ r = "app_forecast" /\ t \in ForecastTables /\ w = "SELECT"
  \/ r = "app_qa" /\ t \in Operational \cup Gold \cup {"service_feedback"} /\ w = "SELECT"
  \/ r = "app_generator" /\ t \in FirstTables /\ w = "ALL"

SentimentGive(r, t, w) ==
  \/ RolesGive(r, t, w) /\ ~(r = "app_sentiment" /\ t = "service_feedback")
  \/ r = "app_sentiment" /\ t = "service_feedback" /\ w \in SentimentColumns

ForecastGive(r, t, w) ==
  \/ SentimentGive(r, t, w) /\ ~(r = "app_forecast" /\ t \in ForecastTables)
  \/ r = "app_forecast" /\ t = "service_requests" /\ w \in ForecastColumns

OfflineGive(r, t, w) ==
  \/ ForecastGive(r, t, w) /\ ~(r = "app_qa" /\ t \in Gold)
  \/ r \in Offline /\ <<t, w>> \in Connection
  \/ r = "app_eval" /\ t \in Operational \cup Gold \cup {"service_feedback"} /\ w = "SELECT"
  \/ r = "app_train" /\ t = "sentiment_labels" /\ w = "SELECT"
  \/ r = "app_train" /\ t = "service_feedback" /\ w \in SentimentColumns
  \/ r = "app_train" /\ t = "service_requests" /\ w \in ForecastColumns

RegionGive(r, t, w) ==
  /\ r = "app_sentiment"
  /\ \/ t = "service_requests" /\ w \in {"request_id", "location_id"}
     \/ t = "locations" /\ w \in {"location_id", "region"}

PredictionsGive(r, t, w) ==
  \/ OfflineGive(r, t, w) \/ RegionGive(r, t, w)
  \/ /\ t = "sentiment_predictions"
     /\ \/ r \in {"app_sentiment", "app_qa", "app_eval"} /\ w = "SELECT"
        \/ r = "app_sentiment" /\ w = "INSERT"
        \/ r = "app_generator" /\ w = "ALL"

LEMMA RolesHeld ==
  /\ Privileges(FreshRoles)
  /\ \A r, t, w : <<r, t, w>> \in FreshRoles <=> RolesGive(r, t, w)
<1>1. ASSUME NEW p \in FreshRoles PROVE p = <<p[1], p[2], p[3]>>
  BY <1>1 DEF FreshRoles, RolesUp, NewDatabase, Connect, Select, Columns, All
<1>2. ASSUME NEW r, NEW t, NEW w
      PROVE  <<r, t, w>> \in FreshRoles <=> RolesGive(r, t, w)
  BY DEF FreshRoles, RolesUp, NewDatabase, Connect, Connection, Select, Columns, All, RolesGive
<1> QED
  BY <1>1, <1>2 DEF Privileges

LEMMA SentimentHeld ==
  /\ Privileges(FreshSentiment)
  /\ \A r, t, w : <<r, t, w>> \in FreshSentiment <=> SentimentGive(r, t, w)
<1>1. ASSUME NEW p \in FreshSentiment PROVE p = <<p[1], p[2], p[3]>>
  BY <1>1, RolesHeld DEF FreshSentiment, SentimentUp, RevokedSelect, Columns, Privileges
<1>2. ASSUME NEW r, NEW t, NEW w
      PROVE  <<r, t, w>> \in FreshSentiment <=> SentimentGive(r, t, w)
  BY RolesHeld DEF FreshSentiment, SentimentUp, RevokedSelect, Columns, SentimentGive, RolesGive,
     Connection
<1> QED
  BY <1>1, <1>2 DEF Privileges

LEMMA ForecastHeld ==
  /\ Privileges(FreshForecast)
  /\ \A r, t, w : <<r, t, w>> \in FreshForecast <=> ForecastGive(r, t, w)
<1>1. ASSUME NEW p \in FreshForecast PROVE p = <<p[1], p[2], p[3]>>
  BY <1>1, SentimentHeld DEF FreshForecast, ForecastUp, RevokedSelect, Columns, Privileges
<1>2. ASSUME NEW r, NEW t, NEW w
      PROVE  <<r, t, w>> \in FreshForecast <=> ForecastGive(r, t, w)
  BY SentimentHeld DEF FreshForecast, ForecastUp, RevokedSelect, Columns, ForecastGive,
     SentimentGive, RolesGive, Connection, ForecastTables
<1> QED
  BY <1>1, <1>2 DEF Privileges

LEMMA OfflineHeld ==
  /\ Privileges(FreshOffline)
  /\ \A r, t, w : <<r, t, w>> \in FreshOffline <=> OfflineGive(r, t, w)
<1>1. ASSUME NEW p \in FreshOffline PROVE p = <<p[1], p[2], p[3]>>
  BY <1>1, ForecastHeld DEF FreshOffline, OfflineUp, RevokedSelect, Connect, Select, Columns, Privileges
<1>2. ASSUME NEW r, NEW t, NEW w
      PROVE  <<r, t, w>> \in FreshOffline <=> OfflineGive(r, t, w)
  BY ForecastHeld DEF FreshOffline, OfflineUp, RevokedSelect, Connect, Connection, Select, Columns,
     OfflineGive, ForecastGive, SentimentGive, RolesGive, Runtime, Gold
<1> QED
  BY <1>1, <1>2 DEF Privileges

LEMMA PredictionsHeld ==
  /\ Privileges(FreshPredictions)
  /\ \A r, t, w : <<r, t, w>> \in FreshPredictions <=> PredictionsGive(r, t, w)
<1> DEFINE Readers == {"app_sentiment", "app_qa", "app_eval"}
           Reading == UNION {Select(r, {"sentiment_predictions"}) : r \in Readers}
<1>1. \A p : p \in Reading <=> \E r \in Readers : p \in Select(r, {"sentiment_predictions"})
  OBVIOUS
<1>2. \A p : p \in Reading <=> \E r \in Readers : p = <<r, "sentiment_predictions", "SELECT">>
  BY <1>1 DEF Select
<1>3. FreshPredictions =
        FreshOffline \cup Reading \cup {<<"app_sentiment", "sentiment_predictions", "INSERT">>}
          \cup All("app_generator", {"sentiment_predictions"}) \cup RegionAccess
  BY DEF FreshPredictions, PredictionsUp
<1> HIDE DEF Reading
<1>4. ASSUME NEW p \in FreshPredictions PROVE p = <<p[1], p[2], p[3]>>
  <2>1. CASE p \in FreshOffline
    BY <2>1, OfflineHeld DEF Privileges
  <2>2. CASE p \in Reading
    BY <1>2, <2>2
  <2>3. CASE p \in All("app_generator", {"sentiment_predictions"}) \cup RegionAccess
    BY <2>3 DEF RegionAccess, All, Columns
  <2> QED
    BY <1>3, <1>4, <2>1, <2>2, <2>3
<1>5. ASSUME NEW r, NEW t, NEW w
      PROVE  <<r, t, w>> \in FreshPredictions <=> PredictionsGive(r, t, w)
  BY <1>2, <1>3, OfflineHeld DEF RegionAccess, All, Columns, PredictionsGive, RegionGive
<1> QED
  BY <1>4, <1>5 DEF Privileges

-----------------------------------------------------------------------------
(* Every downgrade undoes its upgrade.                                     *)

LEMMA RolesUndone == RolesDown(FreshRoles) = NewDatabase
<1> DEFINE Back == RolesDown(FreshRoles)
<1>1. ASSUME NEW p \in Back PROVE p = <<p[1], p[2], p[3]>>
  BY <1>1, RolesHeld DEF RolesDown, DropRoles, Connect, Privileges
<1>2. ASSUME NEW r, NEW t, NEW w PROVE <<r, t, w>> \in Back <=> <<r, t, w>> \in NewDatabase
  BY RolesHeld, NewHeld DEF RolesDown, DropRoles, Connect, Connection, RolesGive, Runtime
<1>9. Privileges(Back)
  BY <1>1 DEF Privileges
<1> QED
  BY <1>2, <1>9, NewHeld, SamePrivileges

LEMMA SentimentUndone == SentimentDown(FreshSentiment) = FreshRoles
<1> DEFINE Back == SentimentDown(FreshSentiment)
<1>1. ASSUME NEW p \in Back PROVE p = <<p[1], p[2], p[3]>>
  BY <1>1, SentimentHeld DEF SentimentDown, RevokedSelect, Select, Privileges
<1>2. ASSUME NEW r, NEW t, NEW w PROVE <<r, t, w>> \in Back <=> <<r, t, w>> \in FreshRoles
  BY RolesHeld, SentimentHeld
     DEF SentimentDown, RevokedSelect, Select, Connection, RolesGive, SentimentGive, SentimentColumns
<1>9. Privileges(Back)
  BY <1>1 DEF Privileges
<1> QED
  BY <1>2, <1>9, RolesHeld, SamePrivileges

LEMMA ForecastUndone == ForecastDown(FreshForecast) = FreshSentiment
<1> DEFINE Back == ForecastDown(FreshForecast)
<1>1. ASSUME NEW p \in Back PROVE p = <<p[1], p[2], p[3]>>
  BY <1>1, ForecastHeld DEF ForecastDown, RevokedSelect, Select, Privileges
<1>2. ASSUME NEW r, NEW t, NEW w PROVE <<r, t, w>> \in Back <=> <<r, t, w>> \in FreshSentiment
  BY SentimentHeld, ForecastHeld
     DEF ForecastDown, RevokedSelect, Select, Connection, RolesGive, SentimentGive, ForecastGive,
         ForecastColumns, ForecastTables
<1>9. Privileges(Back)
  BY <1>1 DEF Privileges
<1> QED
  BY <1>2, <1>9, SentimentHeld, SamePrivileges

LEMMA OfflineUndone == OfflineDown(FreshOffline) = FreshForecast
<1> DEFINE Back == OfflineDown(FreshOffline)
<1>1. ASSUME NEW p \in Back PROVE p = <<p[1], p[2], p[3]>>
  BY <1>1, OfflineHeld DEF OfflineDown, DropRoles, Select, Privileges
<1>2. ASSUME NEW r, NEW t, NEW w PROVE <<r, t, w>> \in Back <=> <<r, t, w>> \in FreshForecast
  BY ForecastHeld, OfflineHeld
     DEF OfflineDown, DropRoles, Select, Connection, RolesGive, SentimentGive, ForecastGive,
         OfflineGive, Offline, Runtime, Gold, Operational, ReferenceTables, RequestTables
<1>9. Privileges(Back)
  BY <1>1 DEF Privileges
<1> QED
  BY <1>2, <1>9, ForecastHeld, SamePrivileges

LEMMA PredictionsUndone == PredictionsDown(FreshPredictions) = FreshOffline
<1> DEFINE Back == PredictionsDown(FreshPredictions)
<1>1. ASSUME NEW p \in Back PROVE p = <<p[1], p[2], p[3]>>
  BY <1>1, PredictionsHeld DEF PredictionsDown, Privileges
<1>2. ASSUME NEW r, NEW t, NEW w PROVE <<r, t, w>> \in RegionAccess <=> RegionGive(r, t, w)
  BY DEF RegionAccess, RegionGive, Columns
<1>3. ASSUME NEW r, NEW t, NEW w
      PROVE  OfflineGive(r, t, w) => t # "sentiment_predictions" /\ ~RegionGive(r, t, w)
  BY DEF RegionGive, Connection, RolesGive, SentimentGive, ForecastGive, OfflineGive,
         Offline, Runtime, Gold, Operational, ReferenceTables, RequestTables, Pii, FirstTables, ForecastTables
<1>4. ASSUME NEW r, NEW t, NEW w PROVE <<r, t, w>> \in Back <=> <<r, t, w>> \in FreshOffline
  BY <1>2, <1>3, OfflineHeld, PredictionsHeld DEF PredictionsDown, PredictionsGive, RegionGive
<1>9. Privileges(Back)
  BY <1>1 DEF Privileges
<1> QED
  BY <1>4, <1>9, OfflineHeld, SamePrivileges

LEMMA RevisionsAre ==
  /\ Latest = 9
  /\ Revisions[1] = "schema" /\ Revisions[2] = "roles" /\ Revisions[3] = "sentiment"
  /\ Revisions[4] = "forecast" /\ Revisions[5] = "hard_case" /\ Revisions[6] = "param_group"
  /\ Revisions[7] = "region" /\ Revisions[8] = "offline" /\ Revisions[9] = "predictions"
BY DEF Latest, Revisions

LEMMA UpgradeIsFresh ==
  ASSUME NEW n \in 0..8 PROVE Upgraded(Revisions[n + 1], Fresh(n)) = Fresh(n + 1)
<1>1. CASE n = 0
  BY <1>1, RevisionsAre DEF Upgraded, Fresh
<1>2. CASE n = 1
  BY <1>2, RevisionsAre DEF Upgraded, Fresh, FreshRoles
<1>3. CASE n = 2
  BY <1>3, RevisionsAre DEF Upgraded, Fresh, FreshSentiment
<1>4. CASE n = 3
  BY <1>4, RevisionsAre DEF Upgraded, Fresh, FreshForecast
<1>5. CASE n \in {4, 5, 6}
  BY <1>5, RevisionsAre DEF Upgraded, Fresh
<1>6. CASE n = 7
  BY <1>6, RevisionsAre DEF Upgraded, Fresh, FreshOffline
<1>7. CASE n = 8
  BY <1>7, RevisionsAre DEF Upgraded, Fresh, FreshPredictions
<1> QED
  BY <1>1, <1>2, <1>3, <1>4, <1>5, <1>6, <1>7

LEMMA DowngradeIsFresh ==
  ASSUME NEW n \in 1..9 PROVE Downgraded(Revisions[n], Fresh(n)) = Fresh(n - 1)
<1>1. CASE n = 1
  BY <1>1, RevisionsAre DEF Downgraded, Fresh
<1>2. CASE n = 2
  BY <1>2, RevisionsAre, RolesUndone DEF Downgraded, Fresh
<1>3. CASE n = 3
  BY <1>3, RevisionsAre, SentimentUndone DEF Downgraded, Fresh
<1>4. CASE n = 4
  BY <1>4, RevisionsAre, ForecastUndone DEF Downgraded, Fresh
<1>5. CASE n \in {5, 6, 7}
  BY <1>5, RevisionsAre DEF Downgraded, Fresh
<1>6. CASE n = 8
  BY <1>6, RevisionsAre, OfflineUndone DEF Downgraded, Fresh
<1>7. CASE n = 9
  BY <1>7, RevisionsAre, PredictionsUndone DEF Downgraded, Fresh
<1> QED
  BY <1>1, <1>2, <1>3, <1>4, <1>5, <1>6, <1>7

\* The roles a database at a revision has grants to.
RolesAt(n) == (IF n >= 2 THEN Runtime ELSE {}) \cup (IF n >= 8 THEN Offline ELSE {})

LEMMA RolesHold ==
  ASSUME NEW g, NEW some, Privileges(g), \A r, t, w : <<r, t, w>> \in g => r \in some,
         \A r \in some : <<r, "database", "CONNECT">> \in g
  PROVE  (\A p \in g : p[1] \in some) /\ (\A r \in some : \E p \in g : p[1] = r)
<1>1. ASSUME NEW p \in g PROVE p[1] \in some
  <2>1. <<p[1], p[2], p[3]>> \in g
    BY <1>1 DEF Privileges
  <2> QED
    BY <2>1
<1>2. ASSUME NEW r \in some PROVE \E p \in g : p[1] = r
  <2>1. <<r, "database", "CONNECT">> \in g /\ <<r, "database", "CONNECT">>[1] = r
    BY <1>2
  <2> QED
    BY <2>1
<1> QED
  BY <1>1, <1>2

LEMMA RolesOfRevision ==
  ASSUME NEW n \in 0..9
  PROVE  /\ \A p \in Fresh(n) : p[1] \in RolesAt(n) \cup {"PUBLIC"}
         /\ \A r \in RolesAt(n) : \E p \in Fresh(n) : p[1] = r
<1>1. \A p \in NewDatabase : p[1] = "PUBLIC"
  <2>1. \A r \in {"PUBLIC"} : <<r, "database", "CONNECT">> \in NewDatabase
    BY NewHeld DEF Connection
  <2>2. \A p \in NewDatabase : p[1] \in {"PUBLIC"}
    BY <2>1, NewHeld, RolesHold
  <2> QED
    BY <2>2
<1>2. \A r, t, w : RolesGive(r, t, w) => r \in Runtime
  BY DEF RolesGive, Runtime
<1>3. \A r, t, w : OfflineGive(r, t, w) => r \in Runtime \cup Offline
  BY <1>2 DEF OfflineGive, ForecastGive, SentimentGive, Offline, Runtime
<1>4. \A r, t, w : PredictionsGive(r, t, w) => r \in Runtime \cup Offline
  BY <1>3 DEF PredictionsGive, RegionGive, Offline, Runtime
<1>5. \A r, t, w : SentimentGive(r, t, w) \/ ForecastGive(r, t, w) => r \in Runtime
  BY <1>2 DEF ForecastGive, SentimentGive, Runtime
<1>6. \A r \in Runtime : /\ RolesGive(r, "database", "CONNECT") /\ SentimentGive(r, "database", "CONNECT")
                         /\ ForecastGive(r, "database", "CONNECT") /\ OfflineGive(r, "database", "CONNECT")
                         /\ PredictionsGive(r, "database", "CONNECT")
  BY DEF RolesGive, SentimentGive, ForecastGive, OfflineGive, PredictionsGive, Connection,
         ForecastTables, Gold
<1>7. \A r \in Offline : OfflineGive(r, "database", "CONNECT") /\ PredictionsGive(r, "database", "CONNECT")
  BY DEF OfflineGive, PredictionsGive, Connection
<1>8. CASE n \in {0, 1}
  BY <1>1, <1>8 DEF Fresh, RolesAt
<1>9. CASE n = 2
  <2>1. Fresh(n) = FreshRoles /\ RolesAt(n) = Runtime
    BY <1>9 DEF Fresh, RolesAt
  <2>2. /\ \A r, t, w : <<r, t, w>> \in Fresh(n) => r \in RolesAt(n)
        /\ \A r \in RolesAt(n) : <<r, "database", "CONNECT">> \in Fresh(n)
        /\ Privileges(Fresh(n))
    BY <1>2, <1>6, <2>1, RolesHeld
  <2> QED
    BY <2>2, RolesHold
<1>10. CASE n = 3
  <2>1. Fresh(n) = FreshSentiment /\ RolesAt(n) = Runtime
    BY <1>10 DEF Fresh, RolesAt
  <2>2. /\ \A r, t, w : <<r, t, w>> \in Fresh(n) => r \in RolesAt(n)
        /\ \A r \in RolesAt(n) : <<r, "database", "CONNECT">> \in Fresh(n)
        /\ Privileges(Fresh(n))
    BY <1>5, <1>6, <2>1, SentimentHeld
  <2> QED
    BY <2>2, RolesHold
<1>11. CASE n \in {4, 5, 6, 7}
  <2>1. Fresh(n) = FreshForecast /\ RolesAt(n) = Runtime
    BY <1>11 DEF Fresh, RolesAt
  <2>2. /\ \A r, t, w : <<r, t, w>> \in Fresh(n) => r \in RolesAt(n)
        /\ \A r \in RolesAt(n) : <<r, "database", "CONNECT">> \in Fresh(n)
        /\ Privileges(Fresh(n))
    BY <1>5, <1>6, <2>1, ForecastHeld
  <2> QED
    BY <2>2, RolesHold
<1>12. CASE n = 8
  <2>1. Fresh(n) = FreshOffline /\ RolesAt(n) = Runtime \cup Offline
    BY <1>12 DEF Fresh, RolesAt
  <2>2. /\ \A r, t, w : <<r, t, w>> \in Fresh(n) => r \in RolesAt(n)
        /\ \A r \in RolesAt(n) : <<r, "database", "CONNECT">> \in Fresh(n)
        /\ Privileges(Fresh(n))
    BY <1>3, <1>6, <1>7, <2>1, OfflineHeld
  <2> QED
    BY <2>2, RolesHold
<1>13. CASE n = 9
  <2>1. Fresh(n) = FreshPredictions /\ RolesAt(n) = Runtime \cup Offline
    BY <1>13 DEF Fresh, RolesAt
  <2>2. /\ \A r, t, w : <<r, t, w>> \in Fresh(n) => r \in RolesAt(n)
        /\ \A r \in RolesAt(n) : <<r, "database", "CONNECT">> \in Fresh(n)
        /\ Privileges(Fresh(n))
    BY <1>4, <1>6, <1>7, <2>1, PredictionsHeld
  <2> QED
    BY <2>2, RolesHold
<1> QED
  BY <1>8, <1>9, <1>10, <1>11, <1>12, <1>13

LEMMA RolesCreated ==
  /\ \A n \in 0..8 : /\ RolesAt(n + 1) = RolesAt(n) \cup Creates(Revisions[n + 1])
                     /\ RolesAt(n) \cap Creates(Revisions[n + 1]) = {}
<1> SUFFICES ASSUME NEW n \in 0..8
             PROVE  /\ RolesAt(n + 1) = RolesAt(n) \cup Creates(Revisions[n + 1])
                    /\ RolesAt(n) \cap Creates(Revisions[n + 1]) = {}
  OBVIOUS
<1>1. CASE n = 1
  BY <1>1, RevisionsAre DEF RolesAt, Creates
<1>2. CASE n = 7
  BY <1>2, RevisionsAre DEF RolesAt, Creates, Runtime, Offline
<1>3. CASE n \in {0, 2, 3, 4, 5, 6, 8}
  <2>1. Creates(Revisions[n + 1]) = {}
    BY <1>3, RevisionsAre DEF Creates
  <2> QED
    BY <1>3, <2>1 DEF RolesAt
<1> QED
  BY <1>1, <1>2, <1>3

-----------------------------------------------------------------------------
(* The privileges of the head are the matrix, and what the matrix allows.  *)

LEMMA MatrixHeld ==
  /\ Privileges(Matrix)
  /\ \A r, t, w : <<r, t, w>> \in Matrix <=> PredictionsGive(r, t, w)
<1>1. ASSUME NEW p \in Matrix PROVE p = <<p[1], p[2], p[3]>>
  BY <1>1 DEF Matrix, Connect, Select, All, Columns
<1>2. ASSUME NEW r, NEW t, NEW w
      PROVE  <<r, t, w>> \in Matrix <=> PredictionsGive(r, t, w)
  BY DEF Matrix, Connect, Select, All, Columns, PredictionsGive, RegionGive, OfflineGive,
         ForecastGive, SentimentGive, RolesGive, Connection, Offline, Runtime, Gold, Operational,
         ReferenceTables, RequestTables,
         ForecastTables
<1> QED
  BY <1>1, <1>2 DEF Privileges

LEMMA HeadIsMatrix == FreshPredictions = Matrix
BY MatrixHeld, PredictionsHeld, SamePrivileges

LEMMA EveryQueryIsAllowed ==
  ASSUME NEW r \in Runtime \cup Offline, NEW c \in Reads(r)
  PROVE  MayRead(Matrix, r, c[1], c[2])
<1>1. ASSUME NEW what \in {"SELECT", "ALL", c[2]}, PredictionsGive(r, c[1], what)
      PROVE  MayRead(Matrix, r, c[1], c[2])
  BY <1>1, MatrixHeld DEF MayRead
<1>2. CASE r = "app_sentiment"
  <2>1. c \in SentimentReads
    BY <1>2 DEF Reads
  <2>2. \/ PredictionsGive(r, c[1], "SELECT") \/ PredictionsGive(r, c[1], c[2])
    BY <1>2, <2>1 DEF SentimentReads, PredictionsGive, RegionGive, OfflineGive, ForecastGive,
       SentimentGive, SentimentColumns, Gold, ForecastTables
  <2> QED
    BY <1>1, <2>2
<1>3. CASE r = "app_forecast"
  <2>1. c \in ForecastReads
    BY <1>3 DEF Reads
  <2>2. PredictionsGive(r, c[1], c[2])
    BY <1>3, <2>1 DEF ForecastReads, PredictionsGive, OfflineGive, ForecastGive, ForecastColumns
  <2> QED
    BY <1>1, <2>2
<1>4. CASE r = "app_reporting"
  <2>1. c[1] \in Operational
    BY <1>4 DEF Reads, ReportingReads
  <2>2. PredictionsGive(r, c[1], "SELECT")
    BY <1>4, <2>1 DEF PredictionsGive, OfflineGive, ForecastGive, SentimentGive, RolesGive
  <2> QED
    BY <1>1, <2>2
<1>5. CASE r = "app_qa"
  <2>1. c[1] \in Operational \cup {"service_feedback", "sentiment_predictions"}
    BY <1>5 DEF Reads, QAReads
  <2>2. PredictionsGive(r, c[1], "SELECT")
    BY <1>5, <2>1 DEF PredictionsGive, OfflineGive, ForecastGive, SentimentGive, RolesGive,
       Operational, ReferenceTables, RequestTables, Gold
  <2> QED
    BY <1>1, <2>2
<1>6. CASE r = "app_train"
  <2>1. c \in TrainReads
    BY <1>6 DEF Reads
  <2>2. PredictionsGive(r, c[1], "SELECT") \/ PredictionsGive(r, c[1], c[2])
    BY <1>6, <2>1 DEF TrainReads, ForecastReads, PredictionsGive, OfflineGive, SentimentColumns,
       ForecastColumns
  <2> QED
    BY <1>1, <2>2
<1>7. CASE r = "app_eval"
  <2>1. c[1] \in Operational \cup Gold \cup {"service_feedback"}
    BY <1>7 DEF Reads, EvalReads, Operational, ReferenceTables, RequestTables
  <2>2. PredictionsGive(r, c[1], "SELECT")
    BY <1>7, <2>1 DEF PredictionsGive, OfflineGive
  <2> QED
    BY <1>1, <2>2
<1>8. CASE r = "app_generator"
  BY <1>8 DEF Reads
<1> QED
  BY <1>2, <1>3, <1>4, <1>5, <1>6, <1>7, <1>8 DEF Runtime, Offline

LEMMA MatrixKeepsApart ==
  /\ \A t \in LoadTables : <<"app_generator", t, "ALL">> \in Matrix
  /\ \A r \in Runtime \cup Offline, t \in Pii :
       r # "app_generator" => ~\E p \in Matrix : p[1] = r /\ p[2] = t
  /\ \A r \in {"app_sentiment", "app_train"} : ~MayRead(Matrix, r, "service_feedback", "rating")
  /\ ~MayRead(Matrix, "app_reporting", "service_feedback", "feedback_text")
  /\ \A r \in Runtime \ {"app_generator"}, t \in Gold : ~MayRead(Matrix, r, t, "any")
<1>1. \A p \in Matrix : PredictionsGive(p[1], p[2], p[3])
  <2> SUFFICES ASSUME NEW p \in Matrix PROVE PredictionsGive(p[1], p[2], p[3])
    OBVIOUS
  <2>1. <<p[1], p[2], p[3]>> \in Matrix
    BY MatrixHeld DEF Privileges
  <2> QED
    BY <2>1, MatrixHeld
<1>2. \A t \in LoadTables : PredictionsGive("app_generator", t, "ALL")
  BY DEF LoadTables, PredictionsGive, OfflineGive, ForecastGive, SentimentGive, RolesGive
<1>3. ASSUME NEW r \in Runtime \cup Offline, NEW t \in Pii, NEW w, r # "app_generator"
      PROVE  ~PredictionsGive(r, t, w)
  BY <1>3 DEF PredictionsGive, RegionGive, OfflineGive, ForecastGive, SentimentGive, RolesGive,
     Connection, Pii, Operational, ReferenceTables, RequestTables, Gold, ForecastTables
<1>4. ASSUME NEW r \in {"app_sentiment", "app_train"}, NEW w \in {"SELECT", "ALL", "rating"}
      PROVE  ~PredictionsGive(r, "service_feedback", w)
  BY <1>4 DEF PredictionsGive, RegionGive, OfflineGive, ForecastGive, SentimentGive, RolesGive,
     Connection, SentimentColumns
<1>5. ASSUME NEW w \in {"SELECT", "ALL", "feedback_text"}
      PROVE  ~PredictionsGive("app_reporting", "service_feedback", w)
  BY <1>5 DEF PredictionsGive, RegionGive, OfflineGive, ForecastGive, SentimentGive, RolesGive,
     Connection, Offline, Operational, ReferenceTables, RequestTables, NonText
<1>6. ASSUME NEW r \in Runtime \ {"app_generator"}, NEW t \in Gold, NEW w
      PROVE  ~PredictionsGive(r, t, w)
  BY <1>6 DEF PredictionsGive, RegionGive, OfflineGive, ForecastGive, SentimentGive, RolesGive,
     Connection, Runtime, Offline, Operational, ReferenceTables, RequestTables, Gold, ForecastTables
<1>7. \A r, t, w : <<r, t, w>> \in Matrix <=> PredictionsGive(r, t, w)
  BY MatrixHeld
<1>8. \A r \in Runtime \cup Offline, t \in Pii :
        r # "app_generator" => ~\E p \in Matrix : p[1] = r /\ p[2] = t
  BY <1>1, <1>3
<1>9. \A t \in LoadTables : <<"app_generator", t, "ALL">> \in Matrix
  BY <1>2, <1>7
<1>10. \A r \in {"app_sentiment", "app_train"} : ~MayRead(Matrix, r, "service_feedback", "rating")
  BY <1>4, <1>7 DEF MayRead
<1>11. ~MayRead(Matrix, "app_reporting", "service_feedback", "feedback_text")
  BY <1>5, <1>7 DEF MayRead
<1>12. \A r \in Runtime \ {"app_generator"}, t \in Gold : ~MayRead(Matrix, r, t, "any")
  BY <1>6, <1>7 DEF MayRead
<1> QED
  BY <1>8, <1>9, <1>10, <1>11, <1>12

-----------------------------------------------------------------------------
(* The steps.                                                              *)

MigrationTypes ==
  /\ revision \in [Database -> 0..Latest]
  /\ DOMAIN granted = Database /\ granted = [d \in Database |-> granted[d]]

MigrationInv ==
  /\ MigrationTypes
  /\ \A d \in Database : granted[d] = Fresh(revision[d]) /\ RolesAt(revision[d]) \subseteq roles

LEMMA MigrationStart == MigrationInit => MigrationInv
<1> SUFFICES ASSUME MigrationInit PROVE MigrationInv
  OBVIOUS
<1>1. MigrationTypes
  BY RevisionsAre DEF MigrationInit, MigrationTypes
<1>2. Fresh(0) = NewDatabase /\ RolesAt(0) = {}
  BY DEF Fresh, RolesAt
<1> QED
  BY <1>1, <1>2 DEF MigrationInit, MigrationInv

\* A database moves to a revision; the others keep theirs, and their roles.
LEMMA MovesTo ==
  ASSUME MigrationInv, NEW d \in Database, NEW n \in 0..9,
         revision' = [revision EXCEPT ![d] = n], granted' = [granted EXCEPT ![d] = Fresh(n)],
         RolesAt(n) \subseteq roles',
         \A e \in Database \ {d} : RolesAt(revision[e]) \subseteq roles'
  PROVE  MigrationInv'
<1>1. /\ revision' \in [Database -> 0..Latest]
      /\ DOMAIN granted' = Database /\ granted' = [e \in Database |-> granted'[e]]
      /\ revision'[d] = n /\ granted'[d] = Fresh(n)
      /\ \A e \in Database \ {d} : revision'[e] = revision[e] /\ granted'[e] = granted[e]
  BY RevisionsAre DEF MigrationInv, MigrationTypes
<1>2. ASSUME NEW e \in Database
      PROVE  granted'[e] = Fresh(revision'[e]) /\ RolesAt(revision'[e]) \subseteq roles'
  <2>1. CASE e = d
    BY <1>1, <2>1
  <2>2. CASE e # d
    BY <1>1, <2>2 DEF MigrationInv
  <2> QED
    BY <2>1, <2>2
<1>3. MigrationTypes'
  BY <1>1 DEF MigrationTypes
<1>4. \A e \in Database : (granted[e] = Fresh(revision[e]) /\ RolesAt(revision[e]) \subseteq roles)'
  BY <1>2 DEF Fresh, RolesAt
<1> QED
  BY <1>3, <1>4 DEF MigrationInv

LEMMA UpgradeKeeps ==
  ASSUME MigrationInv, NEW d \in Database, Upgrade(d)
  PROVE  MigrationInv'
<1>1. PICK n \in 0..8 : n = revision[d]
  BY RevisionsAre DEF Upgrade, MigrationInv, MigrationTypes
<1>2. /\ granted' = [granted EXCEPT ![d] = Upgraded(Revisions[n + 1], granted[d])]
      /\ roles' = roles \cup Creates(Revisions[n + 1])
      /\ revision' = [revision EXCEPT ![d] = n + 1]
  BY <1>1 DEF Upgrade
<1>3. granted[d] = Fresh(n) /\ RolesAt(n) \subseteq roles
  BY <1>1 DEF MigrationInv
<1>4. granted' = [granted EXCEPT ![d] = Fresh(n + 1)]
  BY <1>2, <1>3, UpgradeIsFresh
<1>5. RolesAt(n + 1) \subseteq roles'
  BY <1>2, <1>3, RolesCreated
<1>6. \A e \in Database \ {d} : RolesAt(revision[e]) \subseteq roles'
  BY <1>2 DEF MigrationInv
<1>7. PICK m \in 0..9 : m = n + 1
  OBVIOUS
<1> QED
  BY <1>2, <1>4, <1>5, <1>6, <1>7, MovesTo

LEMMA DowngradeKeeps ==
  ASSUME MigrationInv, NEW d \in Database, Downgrade(d)
  PROVE  MigrationInv'
<1>1. PICK n \in 1..9 : n = revision[d]
  BY RevisionsAre DEF Downgrade, MigrationInv, MigrationTypes
<1>2. /\ ~HeldElsewhere(d, Creates(Revisions[n]))
      /\ granted' = [granted EXCEPT ![d] = Downgraded(Revisions[n], granted[d])]
      /\ roles' = roles \ Creates(Revisions[n])
      /\ revision' = [revision EXCEPT ![d] = n - 1]
  BY <1>1 DEF Downgrade
<1>3. granted[d] = Fresh(n) /\ RolesAt(n) \subseteq roles
  BY <1>1 DEF MigrationInv
<1>4. granted' = [granted EXCEPT ![d] = Fresh(n - 1)]
  BY <1>2, <1>3, DowngradeIsFresh
<1>5. n - 1 \in 0..8 /\ (n - 1) + 1 = n
  OBVIOUS
<1>6. /\ RolesAt(n) = RolesAt(n - 1) \cup Creates(Revisions[n])
      /\ RolesAt(n - 1) \cap Creates(Revisions[n]) = {}
  BY <1>5, RolesCreated
<1>7. RolesAt(n - 1) \subseteq roles'
  BY <1>2, <1>3, <1>6
<1>8. ASSUME NEW e \in Database \ {d} PROVE RolesAt(revision[e]) \subseteq roles'
  <2>1. PICK m \in 0..9 : m = revision[e]
    BY RevisionsAre DEF MigrationInv, MigrationTypes
  <2>2. granted[e] = Fresh(m) /\ RolesAt(m) \subseteq roles
    BY <2>1 DEF MigrationInv
  <2>3. ASSUME NEW r \in RolesAt(m) PROVE r \notin Creates(Revisions[n])
    <3>1. PICK p \in Fresh(m) : p[1] = r
      BY <2>3, RolesOfRevision
    <3> QED
      BY <1>2, <1>8, <2>2, <3>1 DEF HeldElsewhere
  <2> QED
    BY <1>2, <2>1, <2>2, <2>3
<1>9. PICK m \in 0..9 : m = n - 1
  OBVIOUS
<1> QED
  BY <1>2, <1>4, <1>7, <1>8, <1>9, MovesTo

LEMMA RebuildKeeps ==
  ASSUME MigrationInv, NEW d \in Database, Rebuild(d)
  PROVE  MigrationInv'
<1>1. Fresh(0) = NewDatabase /\ RolesAt(0) = {}
  BY DEF Fresh, RolesAt
<1>2. /\ revision' = [revision EXCEPT ![d] = 0] /\ granted' = [granted EXCEPT ![d] = Fresh(0)]
      /\ roles' = roles
  BY <1>1 DEF Rebuild
<1>3. \A e \in Database \ {d} : RolesAt(revision[e]) \subseteq roles'
  BY <1>2 DEF MigrationInv
<1>4. RolesAt(0) \subseteq roles'
  BY <1>1
<1>5. PICK m \in 0..9 : m = 0
  OBVIOUS
<1> QED
  BY <1>2, <1>3, <1>4, <1>5, MovesTo

LEMMA MigrationSteps == MigrationInv /\ [MigrationNext]_migrations => MigrationInv'
<1> SUFFICES ASSUME MigrationInv, [MigrationNext]_migrations PROVE MigrationInv'
  OBVIOUS
<1>1. CASE UNCHANGED <<revision, granted, roles>>
  BY <1>1 DEF MigrationInv, MigrationTypes, Fresh, RolesAt
<1>2. ASSUME NEW d \in Database, Upgrade(d) \/ Downgrade(d) \/ Load(d) \/ Rebuild(d)
      PROVE  MigrationInv'
  <2>1. Load(d) => UNCHANGED <<revision, granted, roles>>
    BY DEF Load
  <2> QED
    BY <1>1, <1>2, <2>1, UpgradeKeeps, DowngradeKeeps, RebuildKeeps
<1> QED
  BY <1>1, <1>2 DEF MigrationNext, migrations

LEMMA HeadAllows ==
  ASSUME NEW g, g = Matrix
  PROVE  /\ \A r \in Runtime \cup Offline : \A c \in Reads(r) : MayRead(g, r, c[1], c[2])
         /\ \A t \in LoadTables : <<"app_generator", t, "ALL">> \in g
         /\ \A r \in Runtime \cup Offline, t \in Pii :
              r # "app_generator" => ~\E p \in g : p[1] = r /\ p[2] = t
         /\ \A r \in {"app_sentiment", "app_train"} : ~MayRead(g, r, "service_feedback", "rating")
         /\ ~MayRead(g, "app_reporting", "service_feedback", "feedback_text")
         /\ \A r \in Runtime \ {"app_generator"}, t \in Gold : ~MayRead(g, r, t, "any")
<1>1. \A r \in Runtime \cup Offline : \A c \in Reads(r) : MayRead(g, r, c[1], c[2])
  BY EveryQueryIsAllowed
<1> QED
  BY <1>1, MatrixKeepsApart, Zenon

LEMMA GrantsAreFresh == MigrationInv => GrantsFollowRevision
<1>1. ASSUME MigrationInv, NEW d \in Database
      PROVE  /\ granted[d] = Fresh(revision[d])
             /\ \A p \in granted[d] : p[1] \in roles \cup {"PUBLIC"}
             /\ revision[d] = Latest => granted[d] = Matrix
  <2>1. PICK n \in 0..9 : n = revision[d]
    BY <1>1, RevisionsAre DEF MigrationInv, MigrationTypes
  <2>2. granted[d] = Fresh(n) /\ RolesAt(n) \subseteq roles
    BY <1>1, <2>1 DEF MigrationInv
  <2>3. \A p \in granted[d] : p[1] \in roles \cup {"PUBLIC"}
    BY <2>2, RolesOfRevision
  <2>4. Fresh(9) = Matrix
    BY HeadIsMatrix DEF Fresh
  <2> QED
    BY <2>1, <2>2, <2>3, <2>4, RevisionsAre
<1> QED
  BY <1>1, HeadAllows, Zenon DEF GrantsFollowRevision

\* Whatever upgrades, downgrades, rebuilds and refusals of data/migrations, in

\* however many databases that share the roles: the privileges of a database are
\* those of a fresh upgrade to its revision, and at the head those of
\* access_matrix.py.
THEOREM PrivilegesFollowRevision == MigrationSpec => []GrantsFollowRevision
<1>1. MigrationInv /\ [MigrationNext]_migrations => MigrationInv'
  BY MigrationSteps
<1> QED
  BY MigrationStart, <1>1, GrantsAreFresh, PTL DEF MigrationSpec

-----------------------------------------------------------------------------
(* THE LEDGER.                                                             *)

Amount == [requests : Nat, cost : Nat]
Mean == [calls : Nat, cost : Nat]
Steps == {"none", "next", "asking", "score", "decide"}
Session == [phase : {"idle", "P0", "P1"}, step : Steps, level : Level, rep : Nat,
            left : SUBSET Level, limit : Nat]
Ends == {"none", "hit", "miss", "unscorable", "short"}

LedgerTypes ==
  /\ price \in [Level -> Nat]
  /\ booked \in Amount /\ spent \in Amount /\ lost \in Amount
  /\ open \subseteq Run /\ IsFiniteSet(open)
  /\ orphans \in Nat
  /\ probeMean \in [Level -> Mean]
  /\ session \in Session
  /\ session.phase = "idle" => session = NoSession

\* What was spent is on the ledger, but for what killed runs lost to it.
OnLedger ==
  /\ spent.requests <= Totals.requests + lost.requests
  /\ spent.cost <= Totals.cost + lost.cost

\* A probe has been authorized on what was spent before it.
ProbeRoom ==
  /\ session.limit = ProbeSpend
  /\ Totals.requests + ProbeItems <= RequestCap /\ Totals.cost <= SpendCap
  /\ OnLedger

\* A P1 run is on the ledger with its whole plan before its first call.
RunRoom ==
  /\ <<session.level, session.rep>> \in open
  /\ Totals.requests <= RequestCap
  /\ session.limit + Totals.cost <= SpendCap + Items * Ceiling
  /\ spent.requests + Items <= Totals.requests + lost.requests
  /\ spent.cost + Items * Ceiling <= Totals.cost + lost.cost

SpentWithinCaps ==
  /\ spent.requests <= RequestCap + RetriesOfOne + lost.requests
  /\ \E l \in Level : spent.cost <= SpendCap + ProbeSpend + price[l] + lost.cost

CapsInv ==
  /\ LedgerTypes
  /\ SpentWithinCaps
  /\ session.phase = "P0" => session.limit = ProbeSpend
  /\ ~Asking => OnLedger
  /\ Asking /\ session.phase = "P0" => ProbeRoom
  /\ Asking /\ session.phase # "P0" => session.phase = "P1" /\ RunRoom

DecisionTypes ==
  /\ ended \in [Run -> Ends]
  /\ passed \in [Level -> {"none", "pass", "fail"}]

\* A verdict is about levels whose runs are all done.
VerdictsInv ==
  /\ \A r \in Run : IsComplete(r) => r \notin dirtyRuns
  /\ \A l \in Level : passed[l] # "none" =>
       /\ l # "minimal" /\ Finished({"minimal", l})
       /\ passed[l] = "pass" <=> Passes(l)

\* What a selection knows at each of its steps.
SelectionInv ==
  session.phase = "P1" =>
    /\ decision = {}
    /\ session.level = "medium" => Finished({"minimal"})
    /\ session.level = "high" => Finished({"minimal", "medium"}) /\ passed["medium"] = "fail"
    /\ session.step = "asking" =>
         LET r == <<session.level, session.rep>> IN
         r \in Run /\ ~IsComplete(r) /\ r \notin dirtyRuns
    /\ session.step \in {"score", "decide"} =>
         session.level # "minimal" /\ Finished({"minimal", session.level})
    /\ session.step = "decide" => passed[session.level] # "none"

DecisionInv ==
  DecisionTypes /\ VerdictsInv /\ SelectionInv /\ DecisionIsEarned
-----------------------------------------------------------------------------
(* Arithmetic.                                                             *)

\* One more plan on the ledger.
LEMMA OneMore ==
  ASSUME NEW u \in Nat, NEW i \in Nat, NEW c \in Nat
  PROVE  /\ u * i \in Nat /\ u * i * c \in Nat /\ i * c \in Nat
         /\ (u + 1) * i = u * i + i
         /\ (u + 1) * i * c = u * i * c + i * c
<1>1. (u + 1) * i = u * i + i /\ u * i \in Nat /\ i * c \in Nat
  BY SMT
<1>2. ASSUME NEW a \in Nat PROVE (a + i) * c = a * c + i * c /\ a * c \in Nat
  BY SMT
<1>3. (u * i + i) * c = (u * i) * c + i * c /\ (u * i) * c \in Nat
  BY <1>1, <1>2
<1> QED
  BY <1>1, <1>3

\* A projection within the cap leaves the total within it.
LEMMA Affordable ==
  ASSUME NEW c \in Nat, c > 0, NEW t \in Nat, NEW s \in Nat, NEW x \in Nat, NEW i \in Nat,
         4 * c * t + 5 * x * i <= 4 * c * s
  PROVE  t <= s
<1> DEFINE k == 4 * c
<1>1. k \in Nat /\ k > 0 /\ 5 * x * i \in Nat
  BY SMT
<1>2. SUFFICES ASSUME t >= s + 1 PROVE FALSE
  OBVIOUS
<1> HIDE DEF k
<1>3. k * t >= k * (s + 1) /\ k * (s + 1) = k * s + k
  BY <1>1, <1>2, SMT
<1>4. k * t \in Nat /\ k * s \in Nat
  BY <1>1, SMT
<1>5. k * t + 5 * x * i <= k * s
  BY DEF k
<1> QED
  BY <1>1, <1>3, <1>4, <1>5

LEMMA MaxOfTwo ==
  ASSUME NEW a \in Int, NEW b \in Int
  PROVE  Max({a, b}) \in Int /\ Max({a, b}) >= a /\ Max({a, b}) >= b
<1>1. \E x \in {a, b} : \A y \in {a, b} : x >= y
  <2>1. CASE a >= b
    BY <2>1
  <2>2. CASE b >= a
    BY <2>2
  <2> QED
    BY <2>1, <2>2
<1> QED
  BY <1>1 DEF Max

LEMMA MinOfTwo ==
  ASSUME NEW a \in Nat, NEW b \in Nat
  PROVE  Min({a, b}) \in Nat /\ Min({a, b}) <= a /\ Min({a, b}) <= b
<1>1. \E x \in {a, b} : \A y \in {a, b} : x <= y
  <2>1. CASE a >= b
    BY <2>1
  <2>2. CASE b >= a
    BY <2>2
  <2> QED
    BY <2>1, <2>2
<1> QED
  BY <1>1 DEF Min

LEMMA Retries ==
  /\ RetriesOfOne \in Int
  /\ Backstop <= Items + RetriesOfOne /\ ProbeBackstop <= ProbeItems + RetriesOfOne
  /\ RetriesOfOne >= 0
<1>1. Backstop - Items \in Int /\ ProbeBackstop - ProbeItems \in Int
  BY LedgerAssumption
<1>2. RetriesOfOne >= Backstop - Items /\ RetriesOfOne >= ProbeBackstop - ProbeItems
      /\ RetriesOfOne \in Int
  BY <1>1, MaxOfTwo DEF RetriesOfOne
<1> QED
  BY <1>1, <1>2, LedgerAssumption

LEMMA TotalsType ==
  ASSUME LedgerTypes
  PROVE  /\ Unended \in Nat /\ Totals \in Amount
         /\ Totals.requests = booked.requests + Unended * Items
         /\ Totals.cost = booked.cost + Unended * Items * Ceiling
         /\ Unended * Items \in Nat /\ Unended * Items * Ceiling \in Nat
<1>1. Unended \in Nat
  BY FS_CardinalityType DEF LedgerTypes, Unended
<1>2. Items \in Nat /\ Ceiling \in Nat
  BY LedgerAssumption
<1>3. Unended * Items \in Nat /\ Unended * Items * Ceiling \in Nat
  BY <1>1, <1>2, OneMore
<1>4. booked.requests \in Nat /\ booked.cost \in Nat
  BY DEF LedgerTypes, Amount
<1> QED
  BY <1>1, <1>3, <1>4 DEF Totals, Plus, Amount
-----------------------------------------------------------------------------
(* The caps: CapsInv is kept by every step.                                *)

LEMMA CapsInit == ExperimentInit => CapsInv
<1> SUFFICES ASSUME ExperimentInit PROVE CapsInv
  OBVIOUS
<1>1. LedgerTypes
  <2>1. session \in Session /\ (session.phase = "idle" => session = NoSession)
    BY DEF ExperimentInit, NoSession, Session, Steps, Level
  <2>2. price \in [Level -> Nat]
    BY LedgerAssumption DEF ExperimentInit
  <2>3. booked \in Amount /\ spent \in Amount /\ lost \in Amount /\ probeMean \in [Level -> Mean]
    BY DEF ExperimentInit, NoCharge, NoCalls, Amount, Mean
  <2> QED
    BY <2>1, <2>2, <2>3, FS_EmptySet DEF ExperimentInit, LedgerTypes
<1>2. OnLedger
  BY <1>1, TotalsType DEF OnLedger, ExperimentInit, NoCharge, Amount
<1>3. SpentWithinCaps
  <2>1. price["high"] \in Nat /\ "high" \in Level
    BY <1>1 DEF LedgerTypes, Level
  <2> QED
    BY <2>1, Retries, LedgerAssumption DEF SpentWithinCaps, ExperimentInit, NoCharge
<1>4. ~Asking /\ session.phase = "idle"
  BY DEF Asking, ExperimentInit, NoSession
<1> QED
  BY <1>1, <1>2, <1>3, <1>4 DEF CapsInv

\* A step between two runs that books nothing.
LEMMA NothingBooked ==
  ASSUME CapsInv, ~Asking, ~Asking', (session \in Session)',
         session'.phase = "idle" => session' = NoSession,
         session'.phase = "P0" => session'.limit = ProbeSpend,
         UNCHANGED <<price, booked, open, orphans, probeMean, spent, lost>>
  PROVE  CapsInv'
<1>1. LedgerTypes'
  BY DEF CapsInv, LedgerTypes, Session
<1>2. Totals' = Totals
  BY DEF Totals, Unended
<1>3. SpentWithinCaps' /\ OnLedger'
  BY <1>2 DEF CapsInv, SpentWithinCaps, OnLedger
<1> QED
  BY <1>1, <1>3 DEF CapsInv, Asking

\* What a run has done, at any point of it.
LEMMA MeterTypes ==
  ASSUME LedgerTypes, NEW m \in Meters
  PROVE  /\ m.requests \in Nat /\ m.requests <= BackstopNow
         /\ m.calls \in Nat /\ m.cost \in Nat
         /\ m.requests = 0 => m.cost = 0
         /\ price[session.level] \in Nat /\ session.level \in Level
<1>1. PICK c \in 0..ItemsNow, n \in 0..BackstopNow :
        m = [calls |-> c, requests |-> n, cost |-> n * price[session.level]]
  BY DEF Meters
<1>2. price[session.level] \in Nat /\ session.level \in Level
  BY DEF LedgerTypes, Session
<1>3. BackstopNow \in Nat /\ ItemsNow \in Nat
  BY LedgerAssumption DEF BackstopNow, ItemsNow
<1>4. n \in Nat /\ n <= BackstopNow /\ c \in Nat
  BY <1>1, <1>3
<1>5. n * price[session.level] \in Nat /\ (n = 0 => n * price[session.level] = 0)
  BY <1>2, <1>4, SMT
<1> QED
  BY <1>1, <1>2, <1>4, <1>5

LEMMA ProbeKeepsCaps ==
  ASSUME CapsInv, NEW l \in Probed, Probe(l)
  PROVE  CapsInv'
<1>1. LedgerTypes /\ session.phase = "P0" /\ session.limit = ProbeSpend /\ OnLedger
  BY DEF CapsInv, Probe, Asking
<1>2. UNCHANGED <<price, booked, open, orphans, probeMean, spent, lost>>
  BY DEF Probe, ledgerLines, history
<1>3. Totals' = Totals
  BY <1>2 DEF Totals, Unended
<1>4. /\ session' \in Session /\ session'.phase = "P0" /\ session'.step = "asking"
      /\ session'.limit = ProbeSpend
  BY <1>1 DEF Probe, LedgerTypes, Session, Probed, Steps
<1>5. LedgerTypes'
  BY <1>1, <1>2, <1>4 DEF LedgerTypes, Session
<1>6. Totals.requests + ProbeItems <= RequestCap
  BY DEF Probe, Authorized, WithinRequests
<1>7. Totals.cost <= SpendCap
  <2> DEFINE mean == IF probeMean[l].calls > 0 THEN probeMean[l]
                     ELSE [calls |-> 1, cost |-> Ceiling]
  <2>1. 4 * mean.calls * Totals.cost + 5 * mean.cost * ProbeItems <= 4 * mean.calls * SpendCap
    BY DEF Probe, Authorized, WithinSpend
  <2>2. mean.calls \in Nat /\ mean.calls > 0 /\ mean.cost \in Nat
    BY <1>1, LedgerAssumption DEF LedgerTypes, Mean, Probed
  <2>3. Totals.cost \in Nat /\ SpendCap \in Nat /\ ProbeItems \in Nat
    BY <1>1, TotalsType, LedgerAssumption DEF Amount
  <2> HIDE DEF mean
  <2> QED
    BY <2>1, <2>2, <2>3, Affordable
<1>8. SpentWithinCaps' /\ OnLedger'
  BY <1>1, <1>2, <1>3 DEF CapsInv, SpentWithinCaps, OnLedger
<1>9. ProbeRoom'
  BY <1>3, <1>4, <1>6, <1>7, <1>8 DEF ProbeRoom
<1> QED
  BY <1>4, <1>5, <1>8, <1>9 DEF CapsInv, Asking

LEMMA ProbeEndsKeepsCaps ==
  ASSUME CapsInv, NEW how \in Outcomes, NEW m \in Meters, ProbeEnds(how, m)
  PROVE  CapsInv'
<1>1. LedgerTypes /\ session.phase = "P0" /\ Asking /\ ProbeRoom
  BY DEF CapsInv, ProbeEnds
<1>2. /\ m.requests \in Nat /\ m.requests <= ProbeBackstop /\ m.calls \in Nat /\ m.cost \in Nat
      /\ price[session.level] \in Nat /\ session.level \in Level
      /\ m.cost < ProbeSpend + price[session.level]
  BY <1>1, MeterTypes DEF BackstopNow, ProbeEnds, Possible, ProbeRoom
<1>3. UNCHANGED <<price, open, orphans, lost>>
  BY DEF ProbeEnds
<1>4. booked' = Plus(booked, m) /\ spent' = Plus(spent, m)
  BY DEF ProbeEnds, Book
<1>5. booked' \in Amount /\ spent' \in Amount
  BY <1>1, <1>2, <1>4 DEF LedgerTypes, Amount, Plus
<1>6. probeMean' \in [Level -> Mean]
  <2>1. Recorded(how, m) \in Nat
    BY <1>2 DEF Recorded
  <2> QED
    BY <1>1, <1>2, <2>1 DEF ProbeEnds, LedgerTypes, Mean
<1>7. /\ session' \in Session
      /\ session' = NoSession \/ (session'.phase = "P0" /\ session'.step = "next")
      /\ session'.limit = ProbeSpend \/ session' = NoSession
  <2>1. NoSession \in Session
    BY DEF NoSession, Session, Steps, Level
  <2>2. [session EXCEPT !.step = "next"] \in Session
    BY <1>1 DEF LedgerTypes, Session, Steps
  <2>3. session' = NoSession \/ session' = [session EXCEPT !.step = "next"]
    BY DEF ProbeEnds
  <2> QED
    BY <1>1, <2>1, <2>2, <2>3 DEF LedgerTypes, Session, ProbeRoom
<1>8. LedgerTypes'
  BY <1>1, <1>3, <1>5, <1>6, <1>7 DEF LedgerTypes, NoSession
<1>9. /\ Totals'.requests = Totals.requests + m.requests
      /\ Totals'.cost = Totals.cost + m.cost
  <2>1. Unended' = Unended
    BY <1>3 DEF Unended
  <2>2. /\ booked'.requests = booked.requests + m.requests
        /\ booked'.cost = booked.cost + m.cost
    BY <1>4 DEF Plus
  <2>3. booked.requests \in Nat /\ booked.cost \in Nat
    BY <1>1 DEF LedgerTypes, Amount
  <2>4. /\ Totals'.requests = booked'.requests + Unended * Items
        /\ Totals'.cost = booked'.cost + Unended * Items * Ceiling
    BY <2>1 DEF Totals, Plus
  <2> QED
    BY <1>1, <1>2, <2>2, <2>3, <2>4, TotalsType
<1>10. /\ spent'.requests = spent.requests + m.requests /\ spent'.cost = spent.cost + m.cost
       /\ spent.requests \in Nat /\ spent.cost \in Nat
       /\ lost.requests \in Nat /\ lost.cost \in Nat
       /\ Totals.requests \in Nat /\ Totals.cost \in Nat
  BY <1>1, <1>4, TotalsType DEF Plus, LedgerTypes, Amount
<1>11. OnLedger'
  BY <1>1, <1>2, <1>3, <1>9, <1>10 DEF ProbeRoom, OnLedger
<1>12. SpentWithinCaps'
  <2>1. spent'.requests <= RequestCap + RetriesOfOne + lost.requests
    BY <1>1, <1>2, <1>10, Retries, LedgerAssumption DEF ProbeRoom, OnLedger
  <2>2. spent'.cost <= SpendCap + ProbeSpend + price[session.level] + lost.cost
    BY <1>1, <1>2, <1>10, LedgerAssumption DEF ProbeRoom, OnLedger
  <2> QED
    BY <1>2, <1>3, <2>1, <2>2 DEF SpentWithinCaps
<1>13. ~Asking'
  BY <1>7 DEF Asking, NoSession
<1>14. session'.phase = "P0" => session'.limit = ProbeSpend
  BY <1>7 DEF NoSession
<1> QED
  BY <1>8, <1>11, <1>12, <1>13, <1>14 DEF CapsInv

\* The runs of a level are started in their order.
LEMMA NextRunIs ==
  ASSUME NEW l \in Level, Incomplete(l) # {}
  PROVE  /\ NextRun(l) \in Run /\ ~IsComplete(NextRun(l))
         /\ NextRun(l)[2] \in Rep /\ NextRun(l) = <<l, NextRun(l)[2]>>
<1> DEFINE T == {n \in Rep : <<l, n>> \in Incomplete(l)}
<1>1. T \subseteq Nat /\ T # {}
  <2>1. PICK q \in Incomplete(l) : TRUE
    OBVIOUS
  <2>2. q \in {l} \X Rep
    BY <2>1 DEF Incomplete
  <2>3. q[2] \in Rep /\ q = <<l, q[2]>>
    BY <2>2
  <2>4. q[2] \in T
    BY <2>1, <2>3
  <2> QED
    BY <2>4, LedgerAssumption
<1>2. PICK n \in T : \A k \in T : <<k, n>> \notin OpToRel(<, Nat)
  <2> HIDE DEF T
  <2> QED
    BY <1>1, WFMin, NatLessThanWellFounded, Zenon
<1>3. \A k \in T : n <= k
  <2> HIDE DEF T
  <2> SUFFICES ASSUME NEW k \in T, k < n PROVE FALSE
    BY <1>1
  <2>1. <<k, n>> \in Nat \X Nat
    BY <1>1
  <2>2. <<k, n>> \in OpToRel(<, Nat)
    BY <2>1 DEF OpToRel
  <2> QED
    BY <1>2, <2>2
<1>4. <<l, n>> \in Incomplete(l) /\ \A q \in Incomplete(l) : <<l, n>>[2] <= q[2]
  BY <1>3 DEF Incomplete
<1>5. NextRun(l) \in Incomplete(l)
  BY <1>4, Zenon DEF NextRun
<1> QED
  BY <1>5 DEF Incomplete, Run

LEMMA StartRunKeepsCaps ==
  ASSUME CapsInv, NEW dirty \in BOOLEAN, StartRun(dirty)
  PROVE  CapsInv'
<1> DEFINE l == session.level
           r == NextRun(l)
<1>1. LedgerTypes /\ session.phase = "P1" /\ OnLedger
  BY DEF CapsInv, StartRun, Selecting, Asking
<1>2. l \in Level
  BY <1>1 DEF LedgerTypes, Session
<1>3. r \in Run /\ r[2] \in Nat /\ r = <<l, r[2]>>
  BY <1>2, NextRunIs, LedgerAssumption DEF StartRun
<1>4. UNCHANGED <<price, booked, probeMean, spent, lost>>
  BY DEF StartRun
<1>5. open' = open \cup {r} /\ orphans' = IF r \in open THEN orphans + 1 ELSE orphans
  BY DEF StartRun
<1> HIDE DEF r, l
<1>6. open' \subseteq Run /\ IsFiniteSet(open') /\ orphans' \in Nat /\ Unended' = Unended + 1
  <2>1. IsFiniteSet(open) /\ orphans \in Nat /\ open \subseteq Run /\ Cardinality(open) \in Nat
    BY <1>1, FS_CardinalityType DEF LedgerTypes
  <2>2. /\ IsFiniteSet(open')
        /\ Cardinality(open') = IF r \in open THEN Cardinality(open) ELSE Cardinality(open) + 1
    BY <1>5, <2>1, FS_AddElement
  <2> QED
    BY <1>3, <1>5, <2>1, <2>2 DEF Unended
<1>7. /\ Totals'.requests = Totals.requests + Items
      /\ Totals'.cost = Totals.cost + Items * Ceiling
      /\ Items * Ceiling \in Nat
  <2>1. Unended \in Nat /\ Items \in Nat /\ Ceiling \in Nat
    BY <1>1, TotalsType, LedgerAssumption
  <2>2. /\ Totals'.requests = booked.requests + (Unended + 1) * Items
        /\ Totals'.cost = booked.cost + (Unended + 1) * Items * Ceiling
    BY <1>4, <1>6 DEF Totals, Plus
  <2>3. booked.requests \in Nat /\ booked.cost \in Nat
    BY <1>1 DEF LedgerTypes, Amount
  <2> QED
    BY <1>1, <2>1, <2>2, <2>3, TotalsType, OneMore
<1>8. Totals.requests + Items <= RequestCap
  BY DEF StartRun, Authorized, WithinRequests
<1>9. Totals.cost <= SpendCap
  <2> DEFINE mean == IF probeMean[l].calls > 0 THEN probeMean[l]
                     ELSE [calls |-> 1, cost |-> Ceiling]
  <2>1. 4 * mean.calls * Totals.cost + 5 * mean.cost * Items <= 4 * mean.calls * SpendCap
    BY DEF StartRun, Authorized, WithinSpend, l
  <2>2. mean.calls \in Nat /\ mean.calls > 0 /\ mean.cost \in Nat
    BY <1>1, <1>2, LedgerAssumption DEF LedgerTypes, Mean
  <2>3. Totals.cost \in Nat /\ SpendCap \in Nat /\ Items \in Nat
    BY <1>1, TotalsType, LedgerAssumption DEF Amount
  <2> HIDE DEF mean
  <2> QED
    BY <2>1, <2>2, <2>3, Affordable
<1>10. /\ Totals.requests \in Nat /\ Totals.cost \in Nat /\ spent.requests \in Nat
       /\ spent.cost \in Nat /\ lost.requests \in Nat /\ lost.cost \in Nat
  BY <1>1, TotalsType DEF LedgerTypes, Amount
<1>11. OnLedger' /\ SpentWithinCaps'
  BY <1>1, <1>4, <1>7, <1>10, LedgerAssumption DEF CapsInv, OnLedger, SpentWithinCaps
<1>12. CASE session' = NoSession
  <2>1. LedgerTypes'
    BY <1>1, <1>4, <1>6, <1>12 DEF LedgerTypes, NoSession, Session, Steps, Level
  <2> QED
    BY <1>11, <1>12, <2>1 DEF CapsInv, Asking, NoSession
<1>13. CASE session' = [session EXCEPT !.step = "asking", !.rep = r[2],
                           !.limit = Min({RunSpend, SpendCap - Totals.cost})]
  <2>1. /\ Min({RunSpend, SpendCap - Totals.cost}) \in Nat
        /\ Min({RunSpend, SpendCap - Totals.cost}) <= SpendCap - Totals.cost
    <3>1. SpendCap - Totals.cost \in Nat /\ RunSpend \in Nat
      BY <1>9, <1>10, LedgerAssumption
    <3> QED
      BY <3>1, MinOfTwo
  <2>2. /\ session' \in Session /\ session'.phase = "P1" /\ session'.level = l
        /\ session'.rep = r[2] /\ session'.limit + Totals.cost <= SpendCap
    <3> DEFINE limit == Min({RunSpend, SpendCap - Totals.cost})
    <3>1. session \in Session /\ "asking" \in Steps
      BY <1>1 DEF LedgerTypes, Steps
    <3>2. session' = [session EXCEPT !.step = "asking", !.rep = r[2], !.limit = limit]
      BY <1>13
    <3>3. limit \in Nat /\ limit + Totals.cost <= SpendCap
      BY <1>9, <1>10, <2>1, LedgerAssumption
    <3> HIDE DEF limit
    <3> QED
      BY <1>1, <1>3, <3>1, <3>2, <3>3 DEF Session, l
  <2>3. LedgerTypes'
    BY <1>1, <1>4, <1>6, <2>2 DEF LedgerTypes
  <2>4. <<session'.level, session'.rep>> \in open'
    BY <1>3, <1>5, <2>2
  <2>5. RunRoom'
    <3>1. session'.limit \in Nat /\ SpendCap \in Nat /\ Items \in Nat /\ RequestCap \in Nat
      BY <2>2, LedgerAssumption DEF Session
    <3>2. Totals'.requests <= RequestCap
      BY <1>7, <1>8
    <3>3. session'.limit + Totals'.cost <= SpendCap + Items * Ceiling
      BY <1>7, <1>10, <2>2, <3>1
    <3>4. /\ spent'.requests + Items <= Totals'.requests + lost'.requests
          /\ spent'.cost + Items * Ceiling <= Totals'.cost + lost'.cost
      BY <1>1, <1>4, <1>7, <1>10, <3>1 DEF OnLedger
    <3> QED
      BY <2>4, <3>2, <3>3, <3>4 DEF RunRoom
  <2> QED
    BY <1>11, <2>2, <2>3, <2>5 DEF CapsInv
<1> QED
  BY <1>12, <1>13 DEF StartRun, r, l

\* One plan less on the ledger.
LEMMA OneLess ==
  ASSUME LedgerTypes, NEW r \in open, open' = open \ {r}, orphans' = orphans
  PROVE  /\ open' \subseteq Run /\ IsFiniteSet(open')
         /\ Unended' \in Nat /\ Unended = Unended' + 1
<1>1. IsFiniteSet(open) /\ orphans \in Nat /\ open \subseteq Run /\ Cardinality(open) \in Nat
  BY FS_CardinalityType DEF LedgerTypes
<1>2. /\ IsFiniteSet(open')
      /\ Cardinality(open') = IF r \in open THEN Cardinality(open) - 1 ELSE Cardinality(open)
  BY <1>1, FS_RemoveElement
<1>3. Cardinality(open') \in Nat
  BY <1>2, FS_CardinalityType
<1> QED
  BY <1>1, <1>2, <1>3 DEF Unended

LEMMA RunEndsKeepsCaps ==
  ASSUME CapsInv, NEW how \in Outcomes, NEW m \in Meters, NEW hit \in BOOLEAN,
         RunEnds(how, m, hit)
  PROVE  CapsInv'
<1> DEFINE r == <<session.level, session.rep>>
<1>1. LedgerTypes /\ session.phase = "P1" /\ Asking /\ RunRoom /\ r \in open
  BY DEF CapsInv, RunEnds, Selecting, Asking, RunRoom
<1>2. /\ m.requests \in Nat /\ m.requests <= Backstop /\ m.calls \in Nat /\ m.cost \in Nat
      /\ price[session.level] \in Nat /\ session.level \in Level
      /\ m.cost < session.limit + price[session.level] /\ session.limit \in Nat
  BY <1>1, MeterTypes DEF BackstopNow, RunEnds, Possible, LedgerTypes, Session
<1>3. UNCHANGED <<price, orphans, probeMean, lost>>
  BY DEF RunEnds
<1>4. booked' = Plus(booked, m) /\ spent' = Plus(spent, m) /\ open' = open \ {r}
  BY DEF RunEnds, Book
<1>5. booked' \in Amount /\ spent' \in Amount
  BY <1>1, <1>2, <1>4 DEF LedgerTypes, Amount, Plus
<1>6. /\ session' \in Session
      /\ session' = NoSession \/ (session'.phase = "P1" /\ session'.step = "next")
  <2>1. NoSession \in Session
    BY DEF NoSession, Session, Steps, Level
  <2>2. [session EXCEPT !.step = "next"] \in Session
    BY <1>1 DEF LedgerTypes, Session, Steps
  <2>3. session' = NoSession \/ session' = [session EXCEPT !.step = "next"]
    BY DEF RunEnds
  <2> QED
    BY <1>1, <2>1, <2>2, <2>3 DEF LedgerTypes, Session
<1> HIDE DEF r
<1>7. /\ open' \subseteq Run /\ IsFiniteSet(open')
      /\ Unended' \in Nat /\ Unended = Unended' + 1
  BY <1>1, <1>3, <1>4, OneLess
<1>8. LedgerTypes'
  BY <1>1, <1>3, <1>5, <1>6, <1>7 DEF LedgerTypes, NoSession
<1>9. /\ Totals.requests = (Totals'.requests - m.requests) + Items
      /\ Totals.cost = (Totals'.cost - m.cost) + Items * Ceiling
      /\ Items * Ceiling \in Nat /\ Totals'.requests \in Nat /\ Totals'.cost \in Nat
  <2>1. Unended' \in Nat /\ Items \in Nat /\ Ceiling \in Nat
    BY <1>7, LedgerAssumption
  <2>2. /\ booked'.requests = booked.requests + m.requests
        /\ booked'.cost = booked.cost + m.cost
        /\ booked.requests \in Nat /\ booked.cost \in Nat
    BY <1>1, <1>4 DEF Plus, LedgerTypes, Amount
  <2>3. /\ Totals'.requests = booked'.requests + Unended' * Items
        /\ Totals'.cost = booked'.cost + Unended' * Items * Ceiling
    BY DEF Totals, Plus
  <2>4. /\ Totals.requests = booked.requests + (Unended' + 1) * Items
        /\ Totals.cost = booked.cost + (Unended' + 1) * Items * Ceiling
    BY <1>7 DEF Totals, Plus
  <2>5. /\ (Unended' + 1) * Items = Unended' * Items + Items
        /\ (Unended' + 1) * Items * Ceiling = Unended' * Items * Ceiling + Items * Ceiling
        /\ Unended' * Items \in Nat /\ Unended' * Items * Ceiling \in Nat
        /\ Items * Ceiling \in Nat
    <3>1. PICK u \in Nat : u = Unended'
      BY <2>1
    <3>2. /\ (u + 1) * Items = u * Items + Items
          /\ (u + 1) * Items * Ceiling = u * Items * Ceiling + Items * Ceiling
          /\ u * Items \in Nat /\ u * Items * Ceiling \in Nat /\ Items * Ceiling \in Nat
      BY <2>1, OneMore
    <3> QED
      BY <3>1, <3>2
  <2> QED
    BY <1>2, <2>1, <2>2, <2>3, <2>4, <2>5
<1>10. /\ spent'.requests = spent.requests + m.requests /\ spent'.cost = spent.cost + m.cost
       /\ spent.requests \in Nat /\ spent.cost \in Nat
       /\ lost.requests \in Nat /\ lost.cost \in Nat
       /\ Totals.requests \in Nat /\ Totals.cost \in Nat
  BY <1>1, <1>4, TotalsType DEF Plus, LedgerTypes, Amount
<1>11. OnLedger'
  <2>1. /\ spent.requests + Items <= Totals.requests + lost.requests
        /\ spent.cost + Items * Ceiling <= Totals.cost + lost.cost
        /\ Items \in Nat
    BY <1>1, LedgerAssumption DEF RunRoom
  <2> QED
    BY <1>2, <1>3, <1>9, <1>10, <2>1 DEF OnLedger
<1>12. SpentWithinCaps'
  <2>1. spent'.requests <= RequestCap + RetriesOfOne + lost.requests
    BY <1>1, <1>2, <1>10, Retries, LedgerAssumption DEF RunRoom
  <2>2. spent'.cost <= SpendCap + ProbeSpend + price[session.level] + lost.cost
    BY <1>1, <1>2, <1>9, <1>10, LedgerAssumption DEF RunRoom
  <2> QED
    BY <1>2, <1>3, <2>1, <2>2 DEF SpentWithinCaps
<1>13. ~Asking' /\ session'.phase # "P0"
  BY <1>6 DEF Asking, NoSession
<1> QED
  BY <1>8, <1>11, <1>12, <1>13 DEF CapsInv

\* What a killed run spent is its plan and what it spent over it, at most.
LEMMA OverIs ==
  ASSUME NEW m, m.requests \in Nat, m.cost \in Nat, NEW plan \in Nat
  PROVE  /\ Over(m, plan).requests \in Nat /\ Over(m, plan).cost \in Nat
         /\ m.requests <= plan + Over(m, plan).requests
         /\ m.cost <= plan * Ceiling + Over(m, plan).cost
         /\ Over(m, plan) \in Amount
<1>1. Ceiling \in Nat
  BY LedgerAssumption
<1>2. PICK k \in Nat : k = plan * Ceiling
  BY <1>1, OneMore
<1>3. Over(m, plan) = [requests |-> IF m.requests > plan THEN m.requests - plan ELSE 0,
                       cost |-> IF m.cost > k THEN m.cost - k ELSE 0]
  BY <1>2 DEF Over
<1>4. /\ (IF m.requests > plan THEN m.requests - plan ELSE 0) \in Nat
      /\ (IF m.cost > k THEN m.cost - k ELSE 0) \in Nat
      /\ m.requests <= plan + (IF m.requests > plan THEN m.requests - plan ELSE 0)
      /\ m.cost <= k + (IF m.cost > k THEN m.cost - k ELSE 0)
  BY <1>2
<1> QED
  BY <1>2, <1>3, <1>4 DEF Amount

LEMMA KillKeepsCaps ==
  ASSUME CapsInv, NEW m \in Meters, Kill(m)
  PROVE  CapsInv'
<1> DEFINE plan == IF session.phase = "P0" THEN 0 ELSE Items
<1>1. LedgerTypes
  BY DEF CapsInv
<1>2. /\ m.requests \in Nat /\ m.requests <= BackstopNow /\ m.cost \in Nat
      /\ m.requests = 0 => m.cost = 0
      /\ price[session.level] \in Nat /\ session.level \in Level /\ session.limit \in Nat
  BY <1>1, MeterTypes DEF LedgerTypes, Session
<1>3. /\ UNCHANGED <<price, booked, open, orphans, probeMean>>
      /\ spent' = Plus(spent, m) /\ lost' = Plus(lost, Over(m, plan)) /\ session' = NoSession
  BY DEF Kill, ledgerLines
<1>4. plan \in Nat /\ Ceiling \in Nat /\ plan * Ceiling \in Nat
      /\ (session.phase = "P0" => plan * Ceiling = 0)
      /\ (session.phase # "P0" => plan * Ceiling = Items * Ceiling)
  BY LedgerAssumption, OneMore
<1> DEFINE over == Over(m, plan)
<1>6. /\ over.requests \in Nat /\ over.cost \in Nat
      /\ m.requests <= plan + over.requests /\ m.cost <= plan * Ceiling + over.cost
      /\ over \in Amount
  BY <1>2, <1>4, OverIs
<1> HIDE DEF over
<1>7. /\ spent'.requests = spent.requests + m.requests /\ spent'.cost = spent.cost + m.cost
      /\ lost'.requests = lost.requests + over.requests /\ lost'.cost = lost.cost + over.cost
      /\ spent.requests \in Nat /\ spent.cost \in Nat
      /\ lost.requests \in Nat /\ lost.cost \in Nat
      /\ Totals.requests \in Nat /\ Totals.cost \in Nat
  BY <1>1, <1>3, TotalsType DEF Plus, LedgerTypes, Amount, over
<1>8. spent' \in Amount /\ lost' \in Amount
  BY <1>1, <1>2, <1>3, <1>6 DEF LedgerTypes, Amount, Plus, over
<1>9. LedgerTypes'
  BY <1>1, <1>3, <1>8 DEF LedgerTypes, NoSession, Session, Steps, Level
<1>10. Totals' = Totals
  BY <1>3 DEF Totals, Unended
<1>11. OnLedger' /\ SpentWithinCaps'
  <2>1. CASE ~Asking
    <3>1. m.requests = 0 /\ m.cost = 0
      BY <1>2, <2>1 DEF Kill
    <3> QED
      BY <1>3, <1>6, <1>7, <1>10, <2>1, <3>1, LedgerAssumption, Retries
         DEF CapsInv, OnLedger, SpentWithinCaps, LedgerTypes
  <2>2. CASE Asking /\ session.phase = "P0"
    <3>1. m.cost < ProbeSpend + price[session.level] /\ m.requests <= ProbeBackstop
      BY <1>2, <2>2 DEF Kill, Possible, CapsInv, BackstopNow
    <3>2. plan = 0 /\ plan * Ceiling = 0
      BY <1>4, <2>2
    <3>3. OnLedger'
      BY <1>2, <1>6, <1>7, <1>10, <2>2, <3>2 DEF CapsInv, ProbeRoom, OnLedger
    <3>4. spent'.requests <= RequestCap + RetriesOfOne + lost'.requests
      BY <1>2, <1>6, <1>7, <2>2, <3>1, Retries, LedgerAssumption DEF CapsInv, ProbeRoom, OnLedger
    <3>5. spent'.cost <= SpendCap + ProbeSpend + price'[session.level] + lost'.cost
      BY <1>2, <1>3, <1>6, <1>7, <2>2, <3>1, LedgerAssumption DEF CapsInv, ProbeRoom, OnLedger
    <3> QED
      BY <1>2, <3>3, <3>4, <3>5 DEF SpentWithinCaps
  <2>3. CASE Asking /\ session.phase # "P0"
    <3>1. RunRoom /\ m.cost < session.limit + price[session.level]
      BY <2>3 DEF Kill, Possible, CapsInv
    <3>2. plan = Items /\ plan * Ceiling = Items * Ceiling /\ Items * Ceiling \in Nat
      BY <1>4, <2>3
    <3>3. OnLedger'
      BY <1>2, <1>4, <1>6, <1>7, <1>10, <3>1, <3>2 DEF RunRoom, OnLedger
    <3>4. spent'.requests <= RequestCap + RetriesOfOne + lost'.requests
      BY <1>2, <1>4, <1>6, <1>7, <3>1, <3>2, Retries, LedgerAssumption DEF RunRoom
    <3>5. spent'.cost <= SpendCap + ProbeSpend + price'[session.level] + lost'.cost
      BY <1>2, <1>3, <1>4, <1>6, <1>7, <3>1, <3>2, LedgerAssumption DEF RunRoom
    <3> QED
      BY <1>2, <3>3, <3>4, <3>5 DEF SpentWithinCaps
  <2> QED
    BY <2>1, <2>2, <2>3
<1>12. ~Asking' /\ session'.phase # "P0"
  BY <1>3 DEF Asking, NoSession
<1> QED
  BY <1>9, <1>11, <1>12 DEF CapsInv

\* A step between two runs leaves what is booked and spent as it is.
LEMMA BetweenRunsKeepsCaps ==
  ASSUME CapsInv,
         \/ \E atLeastMinimum \in BOOLEAN : RecordBalance(atLeastMinimum)
         \/ \E levels \in SUBSET Probed : StartProbe(levels)
         \/ ProbeRefused \/ StartSelection \/ BudgetDecides \/ SelectionRefused
         \/ LevelDone \/ Score \/ Decide
  PROVE  CapsInv'
<1>1. session \in Session /\ LedgerTypes
  BY DEF CapsInv, LedgerTypes
<1>2. NoSession \in Session
  BY DEF NoSession, Session, Steps, Level
<1>3. ~Asking /\ UNCHANGED <<price, booked, open, orphans, probeMean, spent, lost>>
  BY DEF Asking, RecordBalance, StartProbe, ProbeRefused, StartSelection, BudgetDecides,
         SelectionRefused, LevelDone, Score, Decide, Selecting, NoSession, ledgerLines, history
<1>4. /\ (session \in Session)' /\ session'.step # "asking"
      /\ session'.phase = "idle" => session' = NoSession
      /\ session'.phase = "P0" => session'.limit = ProbeSpend
  <2>1. CASE \/ \E atLeastMinimum \in BOOLEAN : RecordBalance(atLeastMinimum)
             \/ ProbeRefused \/ BudgetDecides \/ SelectionRefused
    <3>1. session' = NoSession
      BY <2>1 DEF RecordBalance, ProbeRefused, BudgetDecides, SelectionRefused
    <3> QED
      BY <1>2, <3>1 DEF NoSession
  <2>2. CASE \E levels \in SUBSET Probed : StartProbe(levels)
    <3>1. PICK levels \in SUBSET Probed : StartProbe(levels)
      BY <2>2
    <3> QED
      BY <3>1, LedgerAssumption DEF StartProbe, Session, Steps, Level, Probed
  <2>3. CASE StartSelection
    BY <2>3 DEF StartSelection, Session, Steps, Level
  <2>4. CASE LevelDone
    <3>1. session.phase = "P1" /\ session.step = "next"
      BY <2>4 DEF LevelDone, Selecting
    <3>2. \/ session' = NoSession
          \/ session' = [session EXCEPT !.level = "medium"]
          \/ session' = [session EXCEPT !.step = "score"]
      BY <2>4 DEF LevelDone
    <3> QED
      BY <1>1, <1>2, <3>1, <3>2 DEF Session, NoSession, Steps, Level
  <2>5. CASE Score
    BY <1>1, <2>5 DEF Score, Selecting, Session, Steps
  <2>6. CASE Decide
    <3>1. session.phase = "P1"
      BY <2>6 DEF Decide, Selecting
    <3>2. \/ session' = NoSession
          \/ session' = [session EXCEPT !.step = "next", !.level = "high"]
      BY <2>6 DEF Decide
    <3> QED
      BY <1>1, <1>2, <3>1, <3>2 DEF Session, NoSession, Steps, Level
  <2> QED
    BY <2>1, <2>2, <2>3, <2>4, <2>5, <2>6
<1>5. ~Asking'
  BY <1>4 DEF Asking
<1> QED
  BY <1>3, <1>4, <1>5, NothingBooked

LEMMA CapsStep == CapsInv /\ [ExperimentNext]_spending => CapsInv'
<1> SUFFICES ASSUME CapsInv, [ExperimentNext]_spending PROVE CapsInv'
  OBVIOUS
<1>1. CASE UNCHANGED spending
  BY <1>1 DEF spending, ledgerLines, history, CapsInv, LedgerTypes, SpentWithinCaps, OnLedger,
              Asking, ProbeRoom, RunRoom, Totals, Unended
<1>2. ASSUME NEW l \in Probed, Probe(l) PROVE CapsInv'
  BY <1>2, ProbeKeepsCaps
<1>3. ASSUME NEW how \in Outcomes, NEW m \in Meters, ProbeEnds(how, m) PROVE CapsInv'
  BY <1>3, ProbeEndsKeepsCaps
<1>4. ASSUME NEW dirty \in BOOLEAN, StartRun(dirty) PROVE CapsInv'
  BY <1>4, StartRunKeepsCaps
<1>5. ASSUME NEW how \in Outcomes, NEW m \in Meters, NEW hit \in BOOLEAN, RunEnds(how, m, hit)
      PROVE  CapsInv'
  BY <1>5, RunEndsKeepsCaps
<1>6. ASSUME NEW m \in Meters, Kill(m) PROVE CapsInv'
  BY <1>6, KillKeepsCaps
<1> QED
  BY <1>1, <1>2, <1>3, <1>4, <1>5, <1>6, BetweenRunsKeepsCaps, Zenon DEF ExperimentNext

\* What the scripts spend stays within the caps of the experiment over every

\* refusal, stop, kill and restart, but for the retries of one run, the
\* backstop of one probe, one call and what killed runs lost to the ledger
\* (ledger.py, probe.py, p1.py).
THEOREM SpendingIsCapped == ExperimentSpec => []CapsHoldOverRestarts
<1>1. CapsInv => CapsHoldOverRestarts
  BY DEF CapsInv, SpentWithinCaps, OnLedger, CapsHoldOverRestarts, Asking, NoSession
<1> QED
  BY <1>1, CapsInit, CapsStep, PTL DEF ExperimentSpec
-----------------------------------------------------------------------------
(* The decision: DecisionInv is kept by every step.                        *)

LEMMA DecisionInit == ExperimentInit => DecisionInv
<1> SUFFICES ASSUME ExperimentInit PROVE DecisionInv
  OBVIOUS
<1>1. DecisionTypes
  BY DEF ExperimentInit, DecisionTypes, NoSession, Session, Steps, Level, Ends
<1>2. VerdictsInv
  BY DEF ExperimentInit, VerdictsInv, IsComplete
<1>3. SelectionInv
  BY DEF ExperimentInit, SelectionInv, NoSession
<1>4. DecisionIsEarned
  BY FS_EmptySet DEF ExperimentInit, DecisionIsEarned
<1> QED
  BY <1>1, <1>2, <1>3, <1>4 DEF DecisionInv

LEMMA SameResults ==
  ASSUME UNCHANGED <<price, ended, dirtyRuns>>
  PROVE  /\ \A r : IsComplete(r)' = IsComplete(r)
         /\ \A levels : Finished(levels)' = Finished(levels)
         /\ \A l : Incomplete(l)' = Incomplete(l) /\ Passes(l)' = Passes(l)
<1>1. \A r : IsComplete(r)' = IsComplete(r)
  BY DEF IsComplete
<1>2. \A levels : Finished(levels)' = Finished(levels)
  BY DEF Finished
<1>3. \A l : Incomplete(l)' = Incomplete(l)
  BY DEF Incomplete, IsComplete
<1>4. \A l : Passes(l)' = Passes(l)
  BY DEF Passes, Recognised, Hits
<1> QED
  BY <1>1, <1>2, <1>3, <1>4

\* What is known of the results and the verdicts, while neither changes.
LEMMA ResultsKept ==
  ASSUME DecisionInv, UNCHANGED <<price, ended, passed, decision, dirtyRuns>>
  PROVE  DecisionTypes' /\ VerdictsInv' /\ DecisionIsEarned'
<1>1. DecisionTypes'
  BY DEF DecisionInv, DecisionTypes
<1>2. VerdictsInv'
  BY SameResults DEF DecisionInv, VerdictsInv
<1>3. DecisionIsEarned'
  BY SameResults DEF DecisionInv, DecisionIsEarned
<1> QED
  BY <1>1, <1>2, <1>3

\* A step outside the selection, or one that ends its session.
LEMMA SelectionLeft ==
  ASSUME DecisionInv, UNCHANGED <<price, ended, passed, decision, dirtyRuns>>,
         session'.phase # "P1"
  PROVE  DecisionInv'
<1>1. SelectionInv'
  BY DEF SelectionInv
<1> QED
  BY <1>1, ResultsKept DEF DecisionInv

\* What happens to a run that is not complete leaves every finished level.
LEMMA FinishedStays ==
  ASSUME NEW r, ~IsComplete(r),
         \A q \in Run : q # r => ended'[q] = ended[q] /\ (q \in dirtyRuns' <=> q \in dirtyRuns),
         NEW levels, levels \subseteq Level, Finished(levels)
  PROVE  Finished(levels)' /\ \A l \in levels : Hits(l)' = Hits(l)
<1>1. \A q \in levels \X Rep : q \in Run /\ q # r
  BY DEF Finished, IsComplete, Run
<1>2. \A q \in levels \X Rep : ended'[q] = ended[q] /\ (q \in dirtyRuns' <=> q \in dirtyRuns)
  BY <1>1
<1>3. Finished(levels)'
  BY <1>2 DEF Finished
<1>4. ASSUME NEW l \in levels PROVE Hits(l)' = Hits(l)
  <2>1. \A q \in {l} \X Rep : q \in levels \X Rep
    OBVIOUS
  <2> QED
    BY <1>2, <2>1 DEF Hits
<1> QED
  BY <1>3, <1>4

\* ... and every verdict.
LEMMA VerdictsStay ==
  ASSUME DecisionInv, NEW r, ~IsComplete(r), UNCHANGED <<price, passed>>,
         \A q \in Run : q # r => ended'[q] = ended[q] /\ (q \in dirtyRuns' <=> q \in dirtyRuns)
  PROVE  \A l \in Level : passed'[l] # "none" =>
           /\ l # "minimal" /\ Finished({"minimal", l})'
           /\ passed'[l] = "pass" <=> Passes(l)'
<1> SUFFICES ASSUME NEW l \in Level, passed'[l] # "none"
             PROVE  /\ l # "minimal" /\ Finished({"minimal", l})'
                    /\ passed'[l] = "pass" <=> Passes(l)'
  OBVIOUS
<1>1. l # "minimal" /\ Finished({"minimal", l}) /\ (passed[l] = "pass" <=> Passes(l))
  BY DEF DecisionInv, VerdictsInv
<1>2. {"minimal", l} \subseteq Level
  BY DEF Level
<1>3. Finished({"minimal", l})' /\ Hits(l)' = Hits(l) /\ Hits("minimal")' = Hits("minimal")
  BY <1>1, <1>2, FinishedStays
<1>4. Passes(l)' <=> Passes(l)
  BY <1>3 DEF Passes, Recognised
<1> QED
  BY <1>1, <1>3, <1>4

LEMMA StartRunKeepsDecision ==
  ASSUME LedgerTypes, DecisionInv, NEW dirty \in BOOLEAN, StartRun(dirty)
  PROVE  DecisionInv'
<1>0. PICK l, r : l = session.level /\ r = NextRun(l)
  OBVIOUS
<1>1. /\ DecisionTypes /\ VerdictsInv /\ SelectionInv /\ session \in Session
      /\ session.phase = "P1" /\ session.step = "next" /\ decision = {} /\ l \in Level
  BY <1>0 DEF DecisionInv, LedgerTypes, StartRun, Selecting, SelectionInv, Session
<1>2. r \in Run /\ ~IsComplete(r) /\ r[2] \in Nat /\ r = <<l, r[2]>>
  BY <1>0, <1>1, NextRunIs, LedgerAssumption DEF StartRun
<1>3. UNCHANGED <<price, ended, passed, decision>>
  BY DEF StartRun
<1>4. PICK limit :
        /\ dirtyRuns' = IF dirty THEN dirtyRuns \cup {r} ELSE dirtyRuns \ {r}
        /\ \/ session' = NoSession
           \/ /\ ~dirty
              /\ session' = [session EXCEPT !.step = "asking", !.rep = r[2], !.limit = limit]
  BY <1>0 DEF StartRun, MayAsk
<1>5. \A q \in Run : q # r => ended'[q] = ended[q] /\ (q \in dirtyRuns' <=> q \in dirtyRuns)
  BY <1>3, <1>4
<1>6. VerdictsInv'
  <2>1. \A q \in Run : IsComplete(q)' => q \notin dirtyRuns'
    BY <1>1, <1>2, <1>3, <1>5 DEF VerdictsInv, IsComplete
  <2> QED
    BY <1>2, <1>3, <1>5, <2>1, VerdictsStay DEF VerdictsInv
<1>7. DecisionIsEarned' /\ DecisionTypes'
  BY <1>1, <1>3, FS_EmptySet DEF DecisionIsEarned, DecisionTypes
<1>8. SelectionInv'
  <2>1. CASE session' = NoSession
    BY <2>1 DEF SelectionInv, NoSession
  <2>2. CASE ~dirty /\ session' = [session EXCEPT !.step = "asking", !.rep = r[2], !.limit = limit]
    <3>1. /\ session'.phase = "P1" /\ session'.level = l /\ session'.step = "asking"
          /\ session'.rep = r[2]
      BY <1>0, <1>1, <2>2 DEF Session
    <3>2. ~IsComplete(r)' /\ r \notin dirtyRuns'
      BY <1>2, <1>3, <1>4, <2>2 DEF IsComplete
    <3>3. /\ l = "medium" => Finished({"minimal"})'
          /\ l = "high" => Finished({"minimal", "medium"})' /\ passed'["medium"] = "fail"
      <4>1. /\ l = "medium" => Finished({"minimal"})
            /\ l = "high" => Finished({"minimal", "medium"}) /\ passed["medium"] = "fail"
        BY <1>0, <1>1 DEF SelectionInv
      <4>2. {"minimal"} \subseteq Level /\ {"minimal", "medium"} \subseteq Level
        BY DEF Level
      <4> QED
        BY <1>2, <1>3, <1>5, <4>1, <4>2, FinishedStays
    <3>4. <<session'.level, session'.rep>> = r
      BY <1>2, <3>1
    <3> QED
      BY <1>1, <1>2, <1>3, <3>1, <3>2, <3>3, <3>4 DEF SelectionInv
  <2> QED
    BY <1>4, <2>1, <2>2
<1> QED
  BY <1>6, <1>7, <1>8 DEF DecisionInv

LEMMA RunEndsKeepsDecision ==
  ASSUME LedgerTypes, DecisionInv, NEW how \in Outcomes, NEW m \in Meters, NEW hit \in BOOLEAN,
         RunEnds(how, m, hit)
  PROVE  DecisionInv'
<1>0. PICK r : r = <<session.level, session.rep>>
  OBVIOUS
<1>1. /\ DecisionTypes /\ VerdictsInv /\ SelectionInv /\ session \in Session
      /\ session.phase = "P1" /\ session.step = "asking" /\ decision = {}
  BY DEF DecisionInv, LedgerTypes, RunEnds, Selecting, SelectionInv
<1>2. r \in Run /\ ~IsComplete(r) /\ r \notin dirtyRuns
  BY <1>0, <1>1 DEF SelectionInv
<1>3. UNCHANGED <<price, passed, decision, dirtyRuns>>
  BY DEF RunEnds
<1>4. PICK end \in Ends : ended' = [ended EXCEPT ![r] = end]
  BY <1>0 DEF RunEnds, Ends
<1>5. session' = NoSession \/ session' = [session EXCEPT !.step = "next"]
  BY DEF RunEnds
<1>6. \A q \in Run : q # r => ended'[q] = ended[q] /\ (q \in dirtyRuns' <=> q \in dirtyRuns)
  BY <1>1, <1>3, <1>4 DEF DecisionTypes
<1>7. VerdictsInv'
  <2>1. \A q \in Run : IsComplete(q)' => q \notin dirtyRuns'
    BY <1>1, <1>2, <1>3, <1>6 DEF VerdictsInv, IsComplete
  <2> QED
    BY <1>2, <1>3, <1>6, <2>1, VerdictsStay DEF VerdictsInv
<1>8. DecisionIsEarned' /\ DecisionTypes'
  <2>1. DecisionIsEarned'
    BY <1>1, <1>3, FS_EmptySet DEF DecisionIsEarned
  <2>2. DecisionTypes'
    BY <1>1, <1>3, <1>4 DEF DecisionTypes
  <2> QED
    BY <2>1, <2>2
<1>9. SelectionInv'
  <2>1. CASE session' = NoSession
    BY <2>1 DEF SelectionInv, NoSession
  <2>2. CASE session' = [session EXCEPT !.step = "next"]
    <3>1. session'.phase = "P1" /\ session'.level = session.level /\ session'.step = "next"
      BY <1>1, <2>2 DEF Session
    <3>2. /\ session.level = "medium" => Finished({"minimal"})'
          /\ session.level = "high" => Finished({"minimal", "medium"})' /\ passed'["medium"] = "fail"
      <4>1. /\ session.level = "medium" => Finished({"minimal"})
            /\ session.level = "high" => Finished({"minimal", "medium"}) /\ passed["medium"] = "fail"
        BY <1>1 DEF SelectionInv
      <4>2. {"minimal"} \subseteq Level /\ {"minimal", "medium"} \subseteq Level
        BY DEF Level
      <4> QED
        BY <1>2, <1>3, <1>6, <4>1, <4>2, FinishedStays
    <3> QED
      BY <1>1, <1>3, <3>1, <3>2 DEF SelectionInv
  <2> QED
    BY <1>5, <2>1, <2>2
<1> QED
  BY <1>7, <1>8, <1>9 DEF DecisionInv

LEMMA LevelDoneKeepsDecision ==
  ASSUME LedgerTypes, DecisionInv, LevelDone
  PROVE  DecisionInv'
<1>0. PICK l : l = session.level
  OBVIOUS
<1>1. /\ DecisionTypes /\ VerdictsInv /\ SelectionInv /\ session \in Session
      /\ session.phase = "P1" /\ session.step = "next" /\ decision = {} /\ l \in Level
  BY <1>0 DEF DecisionInv, LedgerTypes, LevelDone, Selecting, SelectionInv, Session
<1>2. UNCHANGED <<price, ended, passed, decision, dirtyRuns>>
  BY DEF LevelDone, ledgerLines, history
<1>3. DecisionTypes' /\ VerdictsInv' /\ DecisionIsEarned'
  BY <1>2, ResultsKept
<1>4. CASE session' = NoSession
  BY <1>2, <1>4, SelectionLeft DEF NoSession
<1>5. CASE session' # NoSession
  <2>1. Finished({l})
    <3> SUFFICES ASSUME NEW n \in Rep
                 PROVE  ended[<<l, n>>] \in {"hit", "miss"} /\ <<l, n>> \notin dirtyRuns
      BY DEF Finished
    <3>1. IsComplete(<<l, n>>) /\ ended[<<l, n>>] # "unscorable"
      BY <1>0, <1>5 DEF LevelDone, Incomplete
    <3>2. <<l, n>> \in Run
      BY <1>1 DEF Run
    <3> QED
      BY <1>1, <3>1, <3>2 DEF IsComplete, VerdictsInv
  <2>2. CASE l = "minimal"
    <3>1. session' = [session EXCEPT !.level = "medium"]
      BY <1>0, <1>5, <2>2 DEF LevelDone
    <3>2. session'.phase = "P1" /\ session'.level = "medium" /\ session'.step = "next"
      BY <1>0, <1>1, <3>1 DEF Session
    <3>3. Finished({"minimal"})'
      BY <1>2, <2>1, <2>2, SameResults
    <3> QED
      BY <1>1, <1>2, <1>3, <3>2, <3>3 DEF DecisionInv, SelectionInv
  <2>3. CASE l # "minimal"
    <3>1. session' = [session EXCEPT !.step = "score"]
      BY <1>0, <1>5, <2>3 DEF LevelDone
    <3>2. session'.phase = "P1" /\ session'.level = l /\ session'.step = "score"
      BY <1>0, <1>1, <3>1 DEF Session
    <3>3. /\ l = "medium" => Finished({"minimal"})
          /\ l = "high" => Finished({"minimal", "medium"}) /\ passed["medium"] = "fail"
          /\ l = "medium" \/ l = "high"
      BY <1>0, <1>1, <2>3 DEF SelectionInv, Level
    <3>4. Finished({"minimal", l})
      BY <2>1, <3>3 DEF Finished
    <3>5. /\ l = "medium" => Finished({"minimal"})'
          /\ l = "high" => Finished({"minimal", "medium"})' /\ passed'["medium"] = "fail"
          /\ Finished({"minimal", l})'
      BY <1>2, <3>3, <3>4, SameResults
    <3> QED
      BY <1>1, <1>2, <1>3, <2>3, <3>2, <3>5 DEF DecisionInv, SelectionInv
  <2> QED
    BY <2>2, <2>3
<1> QED
  BY <1>4, <1>5

LEMMA AtMostOne ==
  ASSUME NEW x, NEW S, S = {x}
  PROVE  Cardinality(S) <= 1
<1>1. Cardinality({x}) = 1
  BY FS_Singleton
<1> QED
  BY <1>1

LEMMA ScoreKeepsDecision ==
  ASSUME LedgerTypes, DecisionInv, Score
  PROVE  DecisionInv'
<1>0. PICK l : l = session.level
  OBVIOUS
<1>1. /\ DecisionTypes /\ VerdictsInv /\ SelectionInv /\ session \in Session
      /\ session.phase = "P1" /\ session.step = "score" /\ decision = {} /\ l \in Level
  BY <1>0 DEF DecisionInv, LedgerTypes, Score, Selecting, SelectionInv, Session
<1>2. UNCHANGED <<price, ended, decision, dirtyRuns>>
  BY DEF Score, history
<1>3. /\ l # "minimal" /\ Finished({"minimal", l})
      /\ l = "high" => Finished({"minimal", "medium"}) /\ passed["medium"] = "fail"
      /\ l = "medium" => Finished({"minimal"})
  BY <1>0, <1>1 DEF SelectionInv
<1>4. passed' = IF passed[l] # "none" THEN passed
                ELSE [passed EXCEPT ![l] = IF Passes(l) THEN "pass" ELSE "fail"]
  BY <1>0 DEF Score
<1>5. /\ session'.phase = "P1" /\ session'.step = "decide" /\ session'.level = l
  BY <1>0, <1>1 DEF Score, Session
<1>6. /\ DecisionTypes' /\ passed'[l] # "none"
      /\ \A k \in Level : k # l => passed'[k] = passed[k]
      /\ passed[l] # "none" => passed' = passed
      /\ passed[l] = "none" => passed'[l] = IF Passes(l) THEN "pass" ELSE "fail"
  BY <1>1, <1>2, <1>4 DEF DecisionTypes
<1>7. VerdictsInv'
  <2>1. ASSUME NEW k \in Level, passed'[k] # "none"
        PROVE  k # "minimal" /\ Finished({"minimal", k}) /\ (passed'[k] = "pass" <=> Passes(k))
    <3>1. CASE passed[k] # "none"
      <4>1. passed'[k] = passed[k]
        BY <1>6, <3>1
      <4> QED
        BY <1>1, <3>1, <4>1 DEF VerdictsInv
    <3>2. CASE passed[k] = "none"
      <4>1. k = l
        BY <1>6, <2>1, <3>2
      <4> QED
        BY <1>3, <1>6, <3>2, <4>1
    <3> QED
      BY <3>1, <3>2
  <2> QED
    BY <1>1, <1>2, <2>1, SameResults DEF VerdictsInv
<1>8. DecisionIsEarned'
  BY <1>1, <1>2, FS_EmptySet DEF DecisionIsEarned
<1>9. SelectionInv'
  <2>1. l = "high" => passed'["medium"] = "fail"
    BY <1>3, <1>6 DEF Level
  <2> QED
    BY <1>1, <1>2, <1>3, <1>5, <1>6, <2>1, SameResults DEF SelectionInv
<1> QED
  BY <1>6, <1>7, <1>8, <1>9 DEF DecisionInv

LEMMA DecideKeepsDecision ==
  ASSUME LedgerTypes, DecisionInv, Decide
  PROVE  DecisionInv'
<1>0. PICK l : l = session.level
  OBVIOUS
<1>1. /\ DecisionTypes /\ VerdictsInv /\ SelectionInv /\ session \in Session
      /\ session.phase = "P1" /\ session.step = "decide" /\ decision = {} /\ l \in Level
  BY <1>0 DEF DecisionInv, LedgerTypes, Decide, Selecting, SelectionInv, Session
<1>2. UNCHANGED <<price, ended, passed, dirtyRuns>>
  BY DEF Decide, history
<1>3. /\ l # "minimal" /\ Finished({"minimal", l}) /\ passed[l] # "none"
      /\ l = "high" => Finished({"minimal", "medium"}) /\ passed["medium"] = "fail"
      /\ l = "medium" => Finished({"minimal"})
      /\ l = "medium" \/ l = "high"
  BY <1>0, <1>1 DEF SelectionInv, Level
<1>4. passed[l] = "pass" <=> Passes(l)
  BY <1>1, <1>3 DEF VerdictsInv
<1>5. Finished({"minimal", "medium", l})
  BY <1>3 DEF Finished
<1>6. DecisionTypes' /\ VerdictsInv'
  BY <1>1, <1>2, SameResults DEF DecisionTypes, VerdictsInv
<1>7. CASE Passes(l)
  <2>1. decision' = {<<"go", l>>} /\ session' = NoSession
    BY <1>0, <1>1, <1>7 DEF Decide
  <2>2. Cardinality(decision') <= 1
    BY <2>1, AtMostOne, Zenon
  <2>3. DecisionIsEarned'
    BY <1>2, <1>3, <1>5, <1>7, <2>1, <2>2, SameResults DEF DecisionIsEarned
  <2> QED
    BY <1>6, <2>1, <2>3 DEF DecisionInv, SelectionInv, NoSession
<1>8. CASE ~Passes(l) /\ l = "high"
  <2>1. decision' = {<<"no_go", "levels">>} /\ session' = NoSession
    BY <1>0, <1>1, <1>8 DEF Decide
  <2>2. Cardinality(decision') <= 1
    BY <2>1, AtMostOne, Zenon
  <2>3. Finished(Level) /\ \A k \in Probed : passed[k] = "fail"
    <3>1. Finished(Level)
      BY <1>5, <1>8 DEF Level
    <3>2. passed["high"] = "fail"
      BY <1>1, <1>3, <1>4, <1>8 DEF DecisionTypes
    <3> QED
      BY <1>3, <1>8, <3>1, <3>2 DEF Probed, Level
  <2>4. DecisionIsEarned'
    BY <1>2, <2>1, <2>2, <2>3, SameResults DEF DecisionIsEarned
  <2> QED
    BY <1>6, <2>1, <2>4 DEF DecisionInv, SelectionInv, NoSession
<1>9. CASE ~Passes(l) /\ l # "high"
  <2>1. decision' = {} /\ session' = [session EXCEPT !.step = "next", !.level = "high"]
    BY <1>0, <1>1, <1>9 DEF Decide
  <2>2. session'.phase = "P1" /\ session'.step = "next" /\ session'.level = "high"
    BY <1>1, <2>1 DEF Session
  <2>3. l = "medium" /\ passed["medium"] = "fail"
    BY <1>1, <1>3, <1>4, <1>9 DEF DecisionTypes
  <2>4. Finished({"minimal", "medium"})
    BY <1>3, <2>3
  <2>5. DecisionIsEarned'
    BY <2>1, FS_EmptySet DEF DecisionIsEarned
  <2> QED
    BY <1>2, <1>6, <2>1, <2>2, <2>3, <2>4, <2>5, SameResults DEF DecisionInv, SelectionInv
<1> QED
  BY <1>7, <1>8, <1>9

LEMMA BudgetDecidesKeepsDecision ==
  ASSUME LedgerTypes, DecisionInv, BudgetDecides
  PROVE  DecisionInv'
<1>0. PICK l : l = session.level
  OBVIOUS
<1>1. /\ DecisionTypes /\ VerdictsInv /\ decision = {} /\ l \in Level
      /\ Incomplete(l) # {}
  BY <1>0 DEF DecisionInv, LedgerTypes, BudgetDecides, Selecting, SelectionInv, Session
<1>2. /\ UNCHANGED <<price, ended, passed, dirtyRuns>>
      /\ decision' = {<<"no_go", "budget">>} /\ session' = NoSession
  BY <1>1 DEF BudgetDecides, history
<1>3. passed[l] = "none"
  <2> SUFFICES ASSUME passed[l] # "none" PROVE FALSE
    OBVIOUS
  <2>1. Finished({"minimal", l})
    BY <1>1 DEF VerdictsInv
  <2> QED
    BY <1>1, <2>1 DEF Finished, Incomplete, IsComplete
<1>4. DecisionTypes' /\ VerdictsInv'
  BY <1>1, <1>2, SameResults DEF DecisionTypes, VerdictsInv
<1>5. DecisionIsEarned'
  <2>1. Cardinality(decision') <= 1
    BY <1>2, AtMostOne, Zenon
  <2> QED
    BY <1>1, <1>2, <1>3, <2>1, SameResults DEF DecisionIsEarned
<1> QED
  BY <1>2, <1>4, <1>5 DEF DecisionInv, SelectionInv, NoSession

\* The steps that leave results, verdicts and decision as they are.
LEMMA OtherStepsKeepDecision ==
  ASSUME LedgerTypes, DecisionInv,
         \/ \E atLeastMinimum \in BOOLEAN : RecordBalance(atLeastMinimum)
         \/ \E levels \in SUBSET Probed : StartProbe(levels)
         \/ \E l \in Probed : Probe(l)
         \/ \E how \in Outcomes, m \in Meters : ProbeEnds(how, m)
         \/ ProbeRefused \/ StartSelection \/ SelectionRefused
         \/ \E m \in Meters : Kill(m)
  PROVE  DecisionInv'
<1>1. UNCHANGED <<price, ended, passed, decision, dirtyRuns>>
  BY DEF RecordBalance, StartProbe, Probe, ProbeEnds, ProbeRefused, StartSelection,
         SelectionRefused, Kill, ledgerLines, history
<1>2. CASE StartSelection
  <2>1. /\ session'.level = "minimal" /\ session'.step = "next" /\ decision' = {}
    BY <1>2 DEF StartSelection, ledgerLines
  <2> QED
    BY <1>1, <2>1, ResultsKept DEF DecisionInv, SelectionInv
<1>3. CASE ~StartSelection
  <2>1. session' = NoSession \/ session'.phase = "P0"
    <3>1. CASE \/ \E atLeastMinimum \in BOOLEAN : RecordBalance(atLeastMinimum)
               \/ ProbeRefused \/ SelectionRefused \/ \E m \in Meters : Kill(m)
      BY <3>1 DEF RecordBalance, ProbeRefused, SelectionRefused, Kill
    <3>2. CASE \E levels \in SUBSET Probed : StartProbe(levels)
      BY <3>2 DEF StartProbe
    <3>3. CASE \E l \in Probed : Probe(l)
      <4>1. PICK l \in Probed : Probe(l)
        BY <3>3
      <4>2. session.phase = "P0" /\ session \in Session
        BY <4>1 DEF Probe, LedgerTypes
      <4>3. session' = [session EXCEPT !.step = "asking", !.level = l, !.left = @ \ {l}]
        BY <4>1 DEF Probe
      <4> QED
        BY <4>2, <4>3 DEF Session
    <3>4. CASE \E how \in Outcomes, m \in Meters : ProbeEnds(how, m)
      <4>1. session.phase = "P0" /\ session \in Session
        BY <3>4 DEF ProbeEnds, LedgerTypes
      <4>2. session' = NoSession \/ session' = [session EXCEPT !.step = "next"]
        BY <3>4 DEF ProbeEnds
      <4> QED
        BY <4>1, <4>2 DEF Session
    <3> QED
      BY <1>3, <3>1, <3>2, <3>3, <3>4
  <2>2. session'.phase # "P1"
    BY <2>1 DEF NoSession
  <2> QED
    BY <1>1, <2>2, SelectionLeft
<1> QED
  BY <1>2, <1>3

LEMMA DecisionStep ==
  LedgerTypes /\ DecisionInv /\ [ExperimentNext]_spending => DecisionInv'
<1> SUFFICES ASSUME LedgerTypes, DecisionInv, [ExperimentNext]_spending PROVE DecisionInv'
  OBVIOUS
<1>1. CASE UNCHANGED spending
  <2>1. UNCHANGED <<price, ended, passed, decision, dirtyRuns, session>>
    BY <1>1 DEF spending, ledgerLines, history
  <2> QED
    BY <2>1, ResultsKept, SameResults DEF DecisionInv, SelectionInv
<1>2. ASSUME NEW dirty \in BOOLEAN, StartRun(dirty) PROVE DecisionInv'
  BY <1>2, StartRunKeepsDecision
<1>3. ASSUME NEW how \in Outcomes, NEW m \in Meters, NEW hit \in BOOLEAN, RunEnds(how, m, hit)
      PROVE  DecisionInv'
  BY <1>3, RunEndsKeepsDecision
<1>4. CASE LevelDone
  BY <1>4, LevelDoneKeepsDecision
<1>5. CASE Score
  BY <1>5, ScoreKeepsDecision
<1>6. CASE Decide
  BY <1>6, DecideKeepsDecision
<1>7. CASE BudgetDecides
  BY <1>7, BudgetDecidesKeepsDecision
<1> QED
  BY <1>1, <1>2, <1>3, <1>4, <1>5, <1>6, <1>7, OtherStepsKeepDecision, Zenon DEF ExperimentNext

\* However often the selection is refused, stopped, killed and started again,

\* it decides once, and only what complete runs of committed code say (p1.py).
THEOREM SelectionIsEarned == ExperimentSpec => []DecisionIsEarned
<1>1. CapsInv => LedgerTypes
  BY DEF CapsInv
<1>2. DecisionInv => DecisionIsEarned
  BY DEF DecisionInv
<1> QED
  BY <1>1, <1>2, CapsInit, CapsStep, DecisionInit, DecisionStep, PTL DEF ExperimentSpec

-----------------------------------------------------------------------------
(* THE SESSION DRIVER.                                                     *)

\* A thread that has a request to send, or its answer to wait for.
Active(t) == at[t] \notin {None, "over"}

Nothing == [requests |-> 0, dollars |-> 0]

DriverTypes ==
  /\ ledger \in Amounts \cup {None} /\ sentInAll \in Amounts
  /\ lock \in Thread \cup {None}
  /\ command \in [Driver -> Commands \cup {None}]
  /\ at \in [Thread -> Places \cup {None}]
  /\ copy \in [Thread -> Amounts \cup {None}]
  /\ left \in [Driver -> Nat \cup {None}]
  /\ capHit \in [Driver -> BOOLEAN] /\ broken \in [Driver -> BOOLEAN]
  /\ verdict \in [Driver -> {"pass", "inconclusive", None}]
  /\ code \in [Driver -> Codes \cup {None}]
  /\ sent \in [Driver -> Nat]

\* Only a driver that runs has threads at work, only `ask` has others than
\* Main, and nothing but `ask` goes on after a cap or an error.
ThreadInv(t) ==
  /\ Active(t) =>
       /\ Running(t[1])
       /\ t[2] = Main \/ (command[t[1]] = "ask" /\ left[t[1]] # None)
       /\ command[t[1]] = "ask" \/ (~capHit[t[1]] /\ ~broken[t[1]])
       /\ verdict[t[1]] = None
  /\ at[t] \in {"locked", "saving", "saved"} => lock = t
  /\ at[t] \in {"saving", "saved", "send", "await"} => ledger # None
  /\ at[t] \in {"send", "await"} => command[t[1]] # "tally"
  /\ at[t] = "saving" =>
       /\ WithinCaps(t)
       /\ copy[t] = [requests |-> ledger.requests + Count(t),
                     dollars |-> ledger.dollars + Worst(t)]

\* Counted in the file and not sent yet, by kind.
Due(kind) ==
  {t \in Thread : at[t] \in {"saved", "send"} /\ command[t[1]] # "tally" /\ Kind(t) = kind}

DueCount == [kind \in RequestKinds |-> Cardinality(Due(kind))]

Weighed(weight, n) ==
  weight["exchange"] * n["exchange"] + weight["probe"] * n["probe"]
    + weight["answered"] * n["answered"] + weight["declined"] * n["declined"]

Once == [kind \in RequestKinds |-> 1]

\* The file counts what was sent and what is about to be.
FileInv ==
  /\ ledger = None => sentInAll = Nothing
  /\ ledger # None =>
       /\ sentInAll.requests + Weighed(Once, DueCount) <= ledger.requests
       /\ sentInAll.dollars + Weighed(Cost, DueCount) <= ledger.dollars
       /\ ledger.requests <= MaxRequests /\ ledger.dollars <= MaxDollars

\* Threads of a driver that have a question and have not sent it.
Taken(d) ==
  {w \in Worker : at[<<d, w>>] \in {"reserve", "locked", "saving", "saved", "send"}}

Undisturbed(d) ==
  code[d] # "killed" /\ verdict[d] = None /\ ~capHit[d] /\ ~broken[d]

\* Every question of an undisturbed driver is sent, taken or left.
QuestionsInv(d) ==
  /\ command[d] = None => /\ code[d] = None /\ left[d] = None /\ sent[d] = 0
                          /\ verdict[d] = None /\ ~capHit[d] /\ ~broken[d]
  /\ left[d] = None => /\ at[<<d, Main>>] = "await" => sent[d] = 1
                       /\ Main \in Taken(d) => sent[d] = 0
  /\ left[d] # None => command[d] \in {"ask", "coldstart", "cap-test"}
  /\ left[d] # None /\ Undisturbed(d) =>
       sent[d] + Cardinality(Taken(d)) + left[d] = 1 + Questions(command[d])
  /\ verdict[d] # None => command[d] = "cap-test" /\ (left[d] = 0 \/ code[d] # None)
  /\ code[d] = "ok" /\ command[d] = "ask" => sent[d] = 1 + Jobs
  /\ verdict[d] = "pass" => sent[d] = 1 + HourlyLimit + 1

DriverInv ==
  /\ DriverTypes
  /\ \A t \in Thread : ThreadInv(t)
  /\ FileInv
  /\ \A d \in Driver : QuestionsInv(d)
-----------------------------------------------------------------------------
(* Weighing what is due.                                                   *)

LEMMA WeightsAre ==
  /\ Once \in [RequestKinds -> Nat] /\ Cost \in [RequestKinds -> Nat]
  /\ \A k \in RequestKinds : Once[k] = 1
BY DriverAssumption DEF Once

LEMMA ProductMonotone ==
  ASSUME NEW w \in Nat, NEW m \in Nat, NEW n \in Nat, m <= n
  PROVE  w * m \in Nat /\ w * n \in Nat /\ w * m <= w * n /\ w * (n + 1) = w * n + w
BY SMT

LEMMA WeighsNothing == \A w \in Nat : w * 0 = 0
BY SMT

LEMMA WeighedType ==
  ASSUME NEW weight \in [RequestKinds -> Nat], NEW n \in [RequestKinds -> Nat]
  PROVE  Weighed(weight, n) \in Nat
<1>1. \A k \in RequestKinds : weight[k] \in Nat /\ n[k] \in Nat
  OBVIOUS
<1>2. \A k \in RequestKinds : weight[k] * n[k] \in Nat
  BY <1>1, ProductMonotone
<1> QED
  BY <1>2 DEF Weighed, RequestKinds

LEMMA WeighedMonotone ==
  ASSUME NEW weight \in [RequestKinds -> Nat], NEW m \in [RequestKinds -> Nat],
         NEW n \in [RequestKinds -> Nat], \A k \in RequestKinds : m[k] <= n[k]
  PROVE  Weighed(weight, m) <= Weighed(weight, n)
<1>1. \A k \in RequestKinds : weight[k] \in Nat /\ n[k] \in Nat /\ m[k] \in Nat
  OBVIOUS
<1>2. \A k \in RequestKinds : /\ weight[k] * n[k] \in Nat /\ weight[k] * m[k] \in Nat
                              /\ weight[k] * m[k] <= weight[k] * n[k]
  BY <1>1, ProductMonotone
<1> QED
  BY <1>2 DEF Weighed, RequestKinds

LEMMA WeighedOneMore ==
  ASSUME NEW weight \in [RequestKinds -> Nat], NEW m \in [RequestKinds -> Nat],
         NEW n \in [RequestKinds -> Nat], NEW kind \in RequestKinds,
         n[kind] = m[kind] + 1, \A k \in RequestKinds \ {kind} : n[k] = m[k]
  PROVE  Weighed(weight, n) = Weighed(weight, m) + weight[kind]
<1>1. \A k \in RequestKinds : weight[k] \in Nat /\ n[k] \in Nat /\ m[k] \in Nat
  OBVIOUS
<1>2. \A k \in RequestKinds : weight[k] * m[k] \in Nat
  BY <1>1, ProductMonotone
<1>3. weight[kind] * n[kind] = weight[kind] * m[kind] + weight[kind]
  BY <1>1, ProductMonotone
<1>4. \A k \in RequestKinds \ {kind} : weight[k] * n[k] = weight[k] * m[k]
  BY <1>1
<1>5. \A k \in RequestKinds : weight[k] * n[k] =
        (IF k = kind THEN weight[k] * m[k] + weight[kind] ELSE weight[k] * m[k])
  BY <1>3, <1>4
<1> QED
  BY <1>1, <1>2, <1>5 DEF Weighed, RequestKinds

-----------------------------------------------------------------------------
(* Threads.                                                                *)

LEMMA ThreadsFinite == IsFiniteSet(Thread)
BY FS_Product, DriverAssumption DEF Thread

LEMMA DueType ==
  /\ \A k \in RequestKinds : IsFiniteSet(Due(k)) /\ Cardinality(Due(k)) \in Nat
  /\ DueCount \in [RequestKinds -> Nat]
<1>1. \A k \in RequestKinds : Due(k) \subseteq Thread
  BY DEF Due
<1>2. \A k \in RequestKinds : IsFiniteSet(Due(k)) /\ Cardinality(Due(k)) \in Nat
  BY <1>1, ThreadsFinite, FS_Subset, FS_CardinalityType
<1> QED
  BY <1>2 DEF DueCount

LEMMA TakenType ==
  ASSUME NEW d \in Driver
  PROVE  IsFiniteSet(Taken(d)) /\ Cardinality(Taken(d)) \in Nat
<1>1. Taken(d) \subseteq Worker
  BY DEF Taken
<1> QED
  BY <1>1, DriverAssumption, FS_Subset, FS_CardinalityType

LEMMA KindType ==
  ASSUME NEW t \in Thread
  PROVE  Kind(t) \in RequestKinds /\ Count(t) \in Nat /\ Worst(t) \in Nat
<1>1. Kind(t) \in RequestKinds
  BY DEF Kind, RequestKinds
<1>2. Count(t) \in Nat
  BY DriverAssumption DEF Count
<1>3. Cost[Kind(t)] \in Nat
  BY <1>1, DriverAssumption
<1> QED
  BY <1>1, <1>2, <1>3, ProductMonotone DEF Worst

\* The kind of a thread's request does not change while it is at work.
SameKind(t) ==
  command'[t[1]] = command[t[1]] /\ (left'[t[1]] = None <=> left[t[1]] = None)

LEMMA KindKept ==
  ASSUME NEW t \in Thread, SameKind(t)
  PROVE  Kind(t)' = Kind(t) /\ Count(t)' = Count(t) /\ Worst(t)' = Worst(t)
<1>1. Kind(t)' = Kind(t) /\ Count(t)' = Count(t)
  BY DEF SameKind, Kind, Count
<1> QED
  BY <1>1 DEF Worst

LEMMA ThreadKept ==
  ASSUME NEW u \in Thread, ThreadInv(u), at'[u] = at[u], copy'[u] = copy[u],
         Active(u) => /\ SameKind(u) /\ code'[u[1]] = code[u[1]] /\ verdict'[u[1]] = None
                      /\ command[u[1]] = "ask" \/ (~capHit'[u[1]] /\ ~broken'[u[1]]),
         at[u] \in {"locked", "saving", "saved"} => lock' = u /\ ledger' = ledger,
         ledger # None => ledger' # None
  PROVE  ThreadInv(u)'
<1>1. CASE ~Active(u)
  BY <1>1, DriverAssumption DEF ThreadInv, Active, Places
<1>2. CASE Active(u)
  <2>1. SameKind(u)
    BY <1>2
  <2>2. /\ Count(u)' = Count(u) /\ Worst(u)' = Worst(u)
        /\ command'[u[1]] = command[u[1]] /\ (left'[u[1]] = None <=> left[u[1]] = None)
    BY <2>1, KindKept DEF SameKind
  <2>3. Running(u[1])' <=> Running(u[1])
    BY <1>2, <2>2 DEF Running
  <2>4. at[u] = "saving" => (WithinCaps(u)' <=> WithinCaps(u))
    BY <2>2 DEF WithinCaps
  <2> QED
    BY <1>2, <2>2, <2>3, <2>4 DEF ThreadInv, Active
<1> QED
  BY <1>1, <1>2
-----------------------------------------------------------------------------
(* Drivers.                                                                *)

TakenPlaces == {"reserve", "locked", "saving", "saved", "send"}

LEMMA TakenKept ==
  ASSUME NEW d \in Driver,
         \A w \in Worker : at'[<<d, w>>] \in TakenPlaces <=> at[<<d, w>>] \in TakenPlaces
  PROVE  Taken(d)' = Taken(d)
BY DEF Taken, TakenPlaces

LEMMA TakenOneMore ==
  ASSUME NEW d \in Driver, NEW w \in Worker, at[<<d, w>>] \notin TakenPlaces,
         at'[<<d, w>>] \in TakenPlaces, \A v \in Worker \ {w} : at'[<<d, v>>] = at[<<d, v>>]
  PROVE  Cardinality(Taken(d))' = Cardinality(Taken(d)) + 1
<1>1. Taken(d)' = Taken(d) \cup {w} /\ w \notin Taken(d)
  BY DEF Taken, TakenPlaces
<1> QED
  BY <1>1, TakenType, FS_AddElement

LEMMA TakenOneLess ==
  ASSUME NEW d \in Driver, NEW w \in Worker, at[<<d, w>>] \in TakenPlaces,
         at'[<<d, w>>] \notin TakenPlaces, \A v \in Worker \ {w} : at'[<<d, v>>] = at[<<d, v>>]
  PROVE  Cardinality(Taken(d))' = Cardinality(Taken(d)) - 1
<1>1. Taken(d)' = Taken(d) \ {w} /\ w \in Taken(d)
  BY DEF Taken, TakenPlaces
<1> QED
  BY <1>1, TakenType, FS_RemoveElement

\* A driver whose questions are where they were, or that was disturbed.
LEMMA QuestionsKept ==
  ASSUME NEW d \in Driver, QuestionsInv(d),
         \A w \in Worker : at'[<<d, w>>] \in TakenPlaces => at[<<d, w>>] \in TakenPlaces,
         left[d] # None /\ Undisturbed(d)' =>
           \A w \in Worker : at[<<d, w>>] \in TakenPlaces => at'[<<d, w>>] \in TakenPlaces,
         left[d] = None => (at'[<<d, Main>>] = "await" => at[<<d, Main>>] = "await"),
         command'[d] = command[d], code'[d] = code[d], verdict'[d] = verdict[d],
         left'[d] = left[d], sent'[d] = sent[d],
         command[d] = None => capHit'[d] = capHit[d] /\ broken'[d] = broken[d],
         capHit[d] => capHit'[d], broken[d] => broken'[d]
  PROVE  QuestionsInv(d)'
<1>1. Undisturbed(d)' => Undisturbed(d)
  BY DEF Undisturbed
<1>2. left[d] # None /\ Undisturbed(d)' => Taken(d)' = Taken(d)
  BY TakenKept
<1>3. Main \in Taken(d)' => Main \in Taken(d)
  BY DEF Taken, TakenPlaces
<1> QED
  BY <1>1, <1>2, <1>3 DEF QuestionsInv

-----------------------------------------------------------------------------
(* The file.                                                               *)

LEMMA DueLess ==
  ASSUME \A t \in Thread : at'[t] \in {"saved", "send"} =>
                             at[t] \in {"saved", "send"} /\ SameKind(t)
  PROVE  /\ DueCount' \in [RequestKinds -> Nat]
         /\ \A k \in RequestKinds : DueCount'[k] <= DueCount[k]
<1> SUFFICES ASSUME NEW k \in RequestKinds
             PROVE  Cardinality(Due(k)') \in Nat /\ Cardinality(Due(k)') <= Cardinality(Due(k))
  BY DEF DueCount
<1>1. \A t \in Thread : at'[t] \in {"saved", "send"} => Kind(t)' = Kind(t)
  BY KindKept
<1>2. Due(k)' \subseteq Due(k)
  BY <1>1 DEF Due, SameKind
<1>3. IsFiniteSet(Due(k)) /\ Cardinality(Due(k)) \in Nat
  BY DueType
<1> QED
  BY <1>2, <1>3, FS_Subset, FS_CardinalityType

\* A step that saves and sends nothing.
LEMMA FileKept ==
  ASSUME DriverTypes, FileInv, ledger' = ledger, sentInAll' = sentInAll,
         \A t \in Thread : at'[t] \in {"saved", "send"} =>
                             at[t] \in {"saved", "send"} /\ SameKind(t)
  PROVE  FileInv'
<1>1. /\ Weighed(Once, DueCount') <= Weighed(Once, DueCount)
      /\ Weighed(Cost, DueCount') <= Weighed(Cost, DueCount)
  BY DueLess, DueType, WeightsAre, WeighedMonotone
<1>2. /\ Weighed(Once, DueCount') \in Nat /\ Weighed(Cost, DueCount') \in Nat
      /\ Weighed(Once, DueCount) \in Nat /\ Weighed(Cost, DueCount) \in Nat
  BY DueLess, DueType, WeightsAre, WeighedType
<1>3. CASE ledger = None
  BY <1>3 DEF FileInv
<1>4. CASE ledger # None
  <2>1. /\ ledger.requests \in Nat /\ ledger.dollars \in Nat
        /\ sentInAll.requests \in Nat /\ sentInAll.dollars \in Nat
    BY <1>4 DEF DriverTypes, Amounts
  <2>2. /\ sentInAll.requests + Weighed(Once, DueCount) <= ledger.requests
        /\ sentInAll.dollars + Weighed(Cost, DueCount) <= ledger.dollars
        /\ ledger.requests <= MaxRequests /\ ledger.dollars <= MaxDollars
    BY <1>4 DEF FileInv
  <2>3. /\ sentInAll.requests + Weighed(Once, DueCount') <= ledger.requests
        /\ sentInAll.dollars + Weighed(Cost, DueCount') <= ledger.dollars
    BY <1>1, <1>2, <2>1, <2>2
  <2>4. Weighed(Once, DueCount)' = Weighed(Once, DueCount')
        /\ Weighed(Cost, DueCount)' = Weighed(Cost, DueCount')
    BY DEF Weighed, Once
  <2> QED
    BY <1>4, <2>2, <2>3, <2>4 DEF FileInv
<1> QED
  BY <1>3, <1>4
-----------------------------------------------------------------------------
(* The steps.                                                              *)

LEMMA DriverStart == DriverInit => DriverInv
<1> SUFFICES ASSUME DriverInit PROVE DriverInv
  OBVIOUS
<1>1. DriverTypes
  BY DEF DriverInit, DriverTypes, Amounts
<1>2. ASSUME NEW t \in Thread PROVE ThreadInv(t)
  BY <1>2, DriverAssumption DEF DriverInit, ThreadInv, Active, Places
<1>3. FileInv
  BY DEF DriverInit, FileInv, Nothing
<1>4. ASSUME NEW d \in Driver PROVE QuestionsInv(d)
  <2>1. Taken(d) = {}
    <3> SUFFICES ASSUME NEW w \in Worker PROVE at[<<d, w>>] \notin TakenPlaces
      BY DEF Taken, TakenPlaces
    <3>1. <<d, w>> \in Thread
      BY DEF Thread
    <3> QED
      BY <3>1, DriverAssumption DEF DriverInit, TakenPlaces, Places
  <2>2. at[<<d, Main>>] = None
    BY DriverAssumption DEF DriverInit, Thread
  <2> QED
    BY <2>1, <2>2, DriverAssumption DEF DriverInit, QuestionsInv, Commands, Places, Codes
<1> QED
  BY <1>1, <1>2, <1>3, <1>4 DEF DriverInv

\* A thread that moves: the others stay where they are.
LEMMA OneMoves ==
  ASSUME DriverTypes, NEW t \in Thread, NEW place, at' = [at EXCEPT ![t] = place]
  PROVE  /\ t[1] \in Driver /\ t[2] \in Worker /\ t = <<t[1], t[2]>>
         /\ at'[t] = place
         /\ \A u \in Thread : u # t => at'[u] = at[u]
         /\ \A w \in Worker \ {t[2]} : at'[<<t[1], w>>] = at[<<t[1], w>>]
         /\ \A e \in Driver \ {t[1]}, w \in Worker : at'[<<e, w>>] = at[<<e, w>>]
<1>1. t[1] \in Driver /\ t[2] \in Worker /\ t = <<t[1], t[2]>>
  BY DEF Thread
<1>2. \A u \in Thread : at'[u] = IF u = t THEN place ELSE at[u]
  BY DEF DriverTypes
<1>3. \A e \in Driver, w \in Worker : <<e, w>> \in Thread
  BY DEF Thread
<1>4. \A e \in Driver, w \in Worker : <<e, w>> = t => e = t[1] /\ w = t[2]
  BY <1>1
<1> QED
  BY <1>1, <1>2, <1>3, <1>4

\* Thread t moves and takes nothing new; its driver keeps its questions.
LEMMA ThreadMoves ==
  ASSUME DriverInv, NEW t \in Thread, NEW place,
         at' = [at EXCEPT ![t] = place], at[t] # None,
         place \in TakenPlaces => at[t] \in TakenPlaces,
         left[t[1]] # None /\ Undisturbed(t[1])' => (at[t] \in TakenPlaces => place \in TakenPlaces),
         place # "await",
         UNCHANGED <<command, left, verdict, code, sent>>,
         \A d \in Driver : d # t[1] => capHit'[d] = capHit[d] /\ broken'[d] = broken[d],
         capHit[t[1]] => capHit'[t[1]], broken[t[1]] => broken'[t[1]],
         command[t[1]] # None
  PROVE  \A d \in Driver : QuestionsInv(d)'
<1>1. DriverTypes /\ \A d \in Driver : QuestionsInv(d)
  BY DEF DriverInv
<1>2. /\ t[1] \in Driver /\ t[2] \in Worker /\ t = <<t[1], t[2]>>
      /\ at'[t] = place
      /\ \A w \in Worker \ {t[2]} : at'[<<t[1], w>>] = at[<<t[1], w>>]
      /\ \A e \in Driver \ {t[1]}, w \in Worker : at'[<<e, w>>] = at[<<e, w>>]
  BY <1>1, OneMoves
<1>3. ASSUME NEW e \in Driver, e # t[1] PROVE QuestionsInv(e)'
  <2>1. \A w \in Worker : at'[<<e, w>>] = at[<<e, w>>]
    BY <1>2, <1>3
  <2>2. at'[<<e, Main>>] = at[<<e, Main>>]
    BY <2>1, DriverAssumption
  <2> QED
    BY <1>1, <1>3, <2>1, <2>2, QuestionsKept
<1>4. QuestionsInv(t[1])'
  <2>1. PICK d \in Driver, w \in Worker : d = t[1] /\ w = t[2] /\ t = <<d, w>>
    BY <1>2
  <2>2. \A v \in Worker : at'[<<d, v>>] = IF v = w THEN place ELSE at[<<d, v>>]
    BY <1>2, <2>1
  <2>3. at'[<<d, Main>>] = "await" => at[<<d, Main>>] = "await"
    BY <2>2, DriverAssumption
  <2>4. /\ \A v \in Worker : at'[<<d, v>>] \in TakenPlaces => at[<<d, v>>] \in TakenPlaces
        /\ left[d] # None /\ Undisturbed(d)' =>
             \A v \in Worker : at[<<d, v>>] \in TakenPlaces => at'[<<d, v>>] \in TakenPlaces
    BY <2>1, <2>2
  <2> QED
    BY <1>1, <2>1, <2>3, <2>4, QuestionsKept
<1> QED
  BY <1>3, <1>4

\* What DriverInv says of a thread at work.
LEMMA AtWork ==
  ASSUME DriverInv, NEW t \in Thread, Active(t)
  PROVE  /\ DriverTypes /\ ThreadInv(t) /\ FileInv
         /\ t[1] \in Driver /\ Running(t[1]) /\ command[t[1]] # None /\ command[t[1]] \in Commands
         /\ code[t[1]] = None /\ verdict[t[1]] = None
         /\ at[t] # None /\ at[t] \in Places /\ None \notin Places
         /\ \A u \in Thread : u[1] = t[1] /\ u # t /\ Active(u) => command[t[1]] = "ask"
<1>1. DriverTypes /\ ThreadInv(t) /\ FileInv /\ t[1] \in Driver
  BY DEF DriverInv, Thread
<1>2. ASSUME NEW u \in Thread, u[1] = t[1], u # t, Active(u) PROVE command[t[1]] = "ask"
  <2>1. ThreadInv(u)
    BY DEF DriverInv
  <2>2. u[2] # Main \/ t[2] # Main
    BY <1>2 DEF Thread
  <2> QED
    BY <1>1, <1>2, <2>1, <2>2 DEF ThreadInv
<1> QED
  BY <1>1, <1>2, DriverAssumption DEF ThreadInv, Running, DriverTypes, Active

LEMMA LockKeeps ==
  ASSUME DriverInv, NEW t \in Thread, Lock(t)
  PROVE  DriverInv'
<1>1. at[t] = "reserve" /\ Active(t) /\ lock = None /\ lock' = t
      /\ at' = [at EXCEPT ![t] = "locked"]
      /\ UNCHANGED <<ledger, command, copy, left, capHit, broken, verdict, code, sent, sentInAll>>
  BY DriverAssumption DEF Lock, Active, Places
<1>2. DriverTypes /\ ThreadInv(t) /\ FileInv /\ command[t[1]] # None /\ at[t] # None
  BY <1>1, AtWork
<1>3. at'[t] = "locked" /\ \A u \in Thread : u # t => at'[u] = at[u]
  BY <1>1, <1>2, OneMoves
<1>4. DriverTypes'
  BY <1>1, <1>2 DEF DriverTypes, Places
<1>5. ASSUME NEW u \in Thread PROVE ThreadInv(u)'
  <2>1. CASE u = t
    BY <1>1, <1>2, <1>3, <2>1 DEF ThreadInv, Active, Running
  <2>2. CASE u # t
    <3>1. ThreadInv(u)
      BY DEF DriverInv
    <3>2. at[u] \notin {"locked", "saving", "saved"}
      BY <1>1, <2>2, <3>1, DriverAssumption DEF ThreadInv, Thread
    <3>3. SameKind(u)
      BY <1>1 DEF SameKind
    <3>4. Active(u) => /\ verdict'[u[1]] = None
                       /\ command[u[1]] = "ask" \/ (~capHit'[u[1]] /\ ~broken'[u[1]])
      BY <1>1, <3>1 DEF ThreadInv
    <3> QED
      BY <1>1, <1>3, <2>2, <3>1, <3>2, <3>3, <3>4, ThreadKept
  <2> QED
    BY <2>1, <2>2
<1>6. FileInv'
  BY <1>1, <1>2, <1>3, FileKept DEF SameKind
<1>7. \A d \in Driver : QuestionsInv(d)'
  BY <1>1, <1>2, ThreadMoves DEF TakenPlaces
<1> QED
  BY <1>4, <1>5, <1>6, <1>7 DEF DriverInv

LEMMA ReserveKeeps ==
  ASSUME DriverInv, NEW t \in Thread, Reserve(t)
  PROVE  DriverInv'
<1>1. at[t] = "locked" /\ Active(t) /\ ledger # None /\ WithinCaps(t)
      /\ copy' = [copy EXCEPT ![t] = [requests |-> ledger.requests + Count(t),
                                      dollars |-> ledger.dollars + Worst(t)]]
      /\ at' = [at EXCEPT ![t] = "saving"]
      /\ UNCHANGED <<ledger, lock, command, left, capHit, broken, verdict, code, sent, sentInAll>>
  BY DriverAssumption DEF Reserve, Active, Places
<1>2. DriverTypes /\ ThreadInv(t) /\ FileInv /\ command[t[1]] # None /\ at[t] # None
  BY <1>1, AtWork
<1>3. at'[t] = "saving" /\ \A u \in Thread : u # t => at'[u] = at[u]
  BY <1>1, <1>2, OneMoves
<1>4. /\ copy'[t] = [requests |-> ledger.requests + Count(t), dollars |-> ledger.dollars + Worst(t)]
      /\ copy'[t] \in Amounts
      /\ \A u \in Thread : u # t => copy'[u] = copy[u]
  <2>1. ledger.requests + Count(t) \in Nat /\ ledger.dollars + Worst(t) \in Nat
    BY <1>1, <1>2, KindType DEF DriverTypes, Amounts
  <2> QED
    BY <1>1, <1>2, <2>1 DEF DriverTypes, Amounts
<1>5. DriverTypes'
  <2>1. copy' \in [Thread -> Amounts \cup {None}]
    BY <1>1, <1>2, <1>4 DEF DriverTypes
  <2> QED
    BY <1>1, <1>2, <2>1 DEF DriverTypes, Places
<1>6. ASSUME NEW u \in Thread PROVE ThreadInv(u)'
  <2>0. SameKind(u)
    BY <1>1 DEF SameKind
  <2>1. CASE u = t
    <3>1. Count(t)' = Count(t) /\ Worst(t)' = Worst(t)
      BY <2>0, <2>1, KindKept
    <3>2. WithinCaps(t)'
      BY <1>1, <3>1 DEF WithinCaps
    <3> QED
      BY <1>1, <1>2, <1>3, <1>4, <2>1, <3>1, <3>2 DEF ThreadInv, Active, Running
  <2>2. CASE u # t
    <3>1. ThreadInv(u)
      BY DEF DriverInv
    <3>2. at[u] \in {"locked", "saving", "saved"} => lock' = u
      BY <1>1, <3>1 DEF ThreadInv
    <3>3. Active(u) => /\ verdict'[u[1]] = None
                       /\ command[u[1]] = "ask" \/ (~capHit'[u[1]] /\ ~broken'[u[1]])
      BY <1>1, <3>1 DEF ThreadInv
    <3> QED
      BY <1>1, <1>3, <1>4, <2>0, <2>2, <3>1, <3>2, <3>3, ThreadKept
  <2> QED
    BY <2>1, <2>2
<1>7. FileInv'
  BY <1>1, <1>2, <1>3, FileKept DEF SameKind
<1>8. \A d \in Driver : QuestionsInv(d)'
  BY <1>1, <1>2, ThreadMoves DEF TakenPlaces
<1> QED
  BY <1>5, <1>6, <1>7, <1>8 DEF DriverInv

\* A thread that gives up, or has its answer: it holds no lock then.
LEMMA GivesUp ==
  ASSUME DriverInv, NEW t \in Thread, Active(t), at' = [at EXCEPT ![t] = "over"],
         UNCHANGED <<ledger, command, copy, left, verdict, code, sent, sentInAll>>,
         lock' = lock \/ (lock' = None /\ lock = t),
         \A d \in Driver : d # t[1] => capHit'[d] = capHit[d] /\ broken'[d] = broken[d],
         capHit' \in [Driver -> BOOLEAN], broken' \in [Driver -> BOOLEAN],
         capHit[t[1]] => capHit'[t[1]], broken[t[1]] => broken'[t[1]],
         at[t] \in TakenPlaces => capHit'[t[1]] \/ broken'[t[1]]
  PROVE  DriverInv'
<1>1. /\ DriverTypes /\ ThreadInv(t) /\ FileInv /\ command[t[1]] # None /\ at[t] # None
      /\ t[1] \in Driver
      /\ \A u \in Thread : u[1] = t[1] /\ u # t /\ Active(u) => command[t[1]] = "ask"
  BY AtWork
<1>2. at'[t] = "over" /\ \A u \in Thread : u # t => at'[u] = at[u]
  BY <1>1, OneMoves
<1>3. DriverTypes'
  BY <1>1 DEF DriverTypes, Places
<1>4. ASSUME NEW u \in Thread PROVE ThreadInv(u)'
  <2>1. CASE u = t
    BY <1>2, <2>1 DEF ThreadInv, Active
  <2>2. CASE u # t
    <3>1. ThreadInv(u) /\ SameKind(u) /\ u[1] \in Driver
      BY DEF DriverInv, SameKind, Thread
    <3>2. at[u] \in {"locked", "saving", "saved"} => lock' = u
      BY <2>2, <3>1 DEF ThreadInv
    <3>3. Active(u) => /\ verdict'[u[1]] = None
                       /\ command[u[1]] = "ask" \/ (~capHit'[u[1]] /\ ~broken'[u[1]])
      BY <1>1, <2>2, <3>1 DEF ThreadInv
    <3> QED
      BY <1>2, <2>2, <3>1, <3>2, <3>3, ThreadKept
  <2> QED
    BY <2>1, <2>2
<1>5. FileInv'
  BY <1>1, <1>2, FileKept DEF SameKind
<1>6. \A d \in Driver : QuestionsInv(d)'
  <2>1. Undisturbed(t[1])' => (at[t] \in TakenPlaces => "over" \in TakenPlaces)
    BY DEF Undisturbed
  <2> QED
    BY <1>1, <2>1, ThreadMoves DEF TakenPlaces
<1> QED
  BY <1>3, <1>4, <1>5, <1>6 DEF DriverInv

LEMMA FailsKeeps ==
  ASSUME DriverInv, NEW t \in Thread, Fails(t)
  PROVE  DriverInv'
<1>1. Active(t)
  BY DriverAssumption DEF Fails, Active, Places
<1>2. DriverTypes /\ t[1] \in Driver
  BY <1>1, AtWork
<1>3. /\ broken' \in [Driver -> BOOLEAN] /\ broken'[t[1]]
      /\ \A d \in Driver : d # t[1] => broken'[d] = broken[d]
  BY <1>2 DEF Fails, DriverTypes
<1>4. lock' = lock \/ (lock' = None /\ lock = t)
  BY DEF Fails
<1> QED
  BY <1>1, <1>2, <1>3, <1>4, GivesUp DEF Fails, DriverTypes

LEMMA CapReachedKeeps ==
  ASSUME DriverInv, NEW t \in Thread, CapReached(t)
  PROVE  DriverInv'
<1>1. Active(t)
  BY DriverAssumption DEF CapReached, Active, Places
<1>2. DriverTypes /\ t[1] \in Driver /\ ThreadInv(t)
  BY <1>1, AtWork
<1>3. /\ capHit' \in [Driver -> BOOLEAN] /\ capHit'[t[1]]
      /\ \A d \in Driver : d # t[1] => capHit'[d] = capHit[d]
  BY <1>2 DEF CapReached, DriverTypes
<1>4. lock' = None /\ lock = t
  BY <1>2 DEF CapReached, ThreadInv
<1> QED
  BY <1>1, <1>2, <1>3, <1>4, GivesUp DEF CapReached, DriverTypes

LEMMA AnsweredKeeps ==
  ASSUME DriverInv, NEW t \in Thread, Answered(t) \/ NotSignedIn(t)
  PROVE  DriverInv'
<1>1. Active(t) /\ at[t] \notin TakenPlaces
  BY DriverAssumption DEF Answered, NotSignedIn, Active, Places, TakenPlaces
<1>2. DriverTypes
  BY <1>1, AtWork
<1> QED
  BY <1>1, <1>2, GivesUp DEF Answered, NotSignedIn, DriverTypes

\* A thread about to send, counted in the file.
LEMMA OneIsDue ==
  ASSUME DriverTypes, NEW t \in Thread,
         command[t[1]] # "tally" => (at'[t] \in {"saved", "send"} <=> at[t] \notin {"saved", "send"}),
         \A u \in Thread : u # t => at'[u] = at[u],
         \A u \in Thread : SameKind(u)
  PROVE  /\ DueCount' \in [RequestKinds -> Nat]
         /\ command[t[1]] = "tally" => DueCount' = DueCount
         /\ command[t[1]] # "tally" /\ at[t] \notin {"saved", "send"} =>
              /\ DueCount'[Kind(t)] = DueCount[Kind(t)] + 1
              /\ \A k \in RequestKinds \ {Kind(t)} : DueCount'[k] = DueCount[k]
         /\ command[t[1]] # "tally" /\ at[t] \in {"saved", "send"} =>
              /\ DueCount[Kind(t)] = DueCount'[Kind(t)] + 1
              /\ \A k \in RequestKinds \ {Kind(t)} : DueCount[k] = DueCount'[k]
<1>1. \A u \in Thread : Kind(u)' = Kind(u) /\ command'[u[1]] = command[u[1]]
  BY KindKept DEF SameKind
<1>2. PICK kind \in RequestKinds : kind = Kind(t)
  BY KindType
<1>3. \A k \in RequestKinds \ {kind} : Due(k)' = Due(k)
  BY <1>1, <1>2 DEF Due
<1>4. \A k \in RequestKinds : IsFiniteSet(Due(k)) /\ Cardinality(Due(k)) \in Nat
  BY DueType
<1>5. CASE command[t[1]] = "tally"
  <2>1. \A k \in RequestKinds : Due(k)' = Due(k)
    BY <1>1, <1>5 DEF Due
  <2>2. DueCount' = DueCount
    BY <2>1 DEF DueCount
  <2> QED
    BY <1>5, <2>2, DueType
<1>6. CASE command[t[1]] # "tally" /\ at[t] \notin {"saved", "send"}
  <2>1. Due(kind)' = Due(kind) \cup {t} /\ t \notin Due(kind)
    BY <1>1, <1>2, <1>6 DEF Due
  <2>2. Cardinality(Due(kind)') = Cardinality(Due(kind)) + 1
    BY <1>4, <2>1, FS_AddElement
  <2>3. \A k \in RequestKinds : DueCount'[k] = Cardinality(Due(k)') /\ DueCount[k] = Cardinality(Due(k))
    BY DEF DueCount
  <2>4. DueCount' \in [RequestKinds -> Nat]
    BY <1>3, <1>4, <2>2 DEF DueCount
  <2> QED
    BY <1>2, <1>3, <1>6, <2>2, <2>3, <2>4
<1>7. CASE command[t[1]] # "tally" /\ at[t] \in {"saved", "send"}
  <2>1. Due(kind)' = Due(kind) \ {t} /\ t \in Due(kind)
    BY <1>1, <1>2, <1>7 DEF Due
  <2>2. /\ IsFiniteSet(Due(kind)')
        /\ Cardinality(Due(kind)') = Cardinality(Due(kind)) - 1
    BY <1>4, <2>1, FS_RemoveElement
  <2>3. Cardinality(Due(kind)') \in Nat
    BY <2>2, FS_CardinalityType
  <2>4. \A k \in RequestKinds : DueCount'[k] = Cardinality(Due(k)') /\ DueCount[k] = Cardinality(Due(k))
    BY DEF DueCount
  <2>5. DueCount' \in [RequestKinds -> Nat]
    BY <1>3, <1>4, <2>3 DEF DueCount
  <2>6. DueCount[kind] = DueCount'[kind] + 1
    BY <1>4, <2>2, <2>3, <2>4
  <2> QED
    BY <1>2, <1>3, <1>7, <2>4, <2>5, <2>6
<1> QED
  BY <1>5, <1>6, <1>7

LEMMA SaveKeeps ==
  ASSUME DriverInv, NEW t \in Thread, Save(t)
  PROVE  DriverInv'
<1>1. at[t] = "saving" /\ Active(t) /\ ledger' = copy[t]
      /\ copy' = [copy EXCEPT ![t] = None]
      /\ at' = [at EXCEPT ![t] = "saved"]
      /\ UNCHANGED <<lock, command, left, capHit, broken, verdict, code, sent, sentInAll>>
  BY DriverAssumption DEF Save, Active, Places
<1>2. DriverTypes /\ ThreadInv(t) /\ FileInv /\ command[t[1]] # None /\ at[t] # None
  BY <1>1, AtWork
<1>3. at'[t] = "saved" /\ \A u \in Thread : u # t => at'[u] = at[u]
  BY <1>1, <1>2, OneMoves
<1>4. /\ ledger # None /\ lock = t /\ WithinCaps(t)
      /\ ledger' = [requests |-> ledger.requests + Count(t), dollars |-> ledger.dollars + Worst(t)]
  BY <1>1, <1>2 DEF ThreadInv
<1>5. Count(t) \in Nat /\ Worst(t) \in Nat /\ Kind(t) \in RequestKinds /\ Cost[Kind(t)] \in Nat
  BY KindType, WeightsAre
<1>6. /\ ledger.requests \in Nat /\ ledger.dollars \in Nat
      /\ sentInAll.requests \in Nat /\ sentInAll.dollars \in Nat
  BY <1>2, <1>4 DEF DriverTypes, Amounts
<1>7. ledger' \in Amounts /\ ledger' # None
  BY <1>4, <1>5, <1>6, DriverAssumption DEF Amounts
<1>8. copy' \in [Thread -> Amounts \cup {None}] /\ \A u \in Thread : u # t => copy'[u] = copy[u]
  BY <1>1, <1>2 DEF DriverTypes
<1>9. DriverTypes'
  BY <1>1, <1>2, <1>7, <1>8 DEF DriverTypes, Places
<1>10. ASSUME NEW u \in Thread PROVE ThreadInv(u)'
  <2>1. CASE u = t
    BY <1>1, <1>2, <1>3, <1>4, <1>7, <2>1 DEF ThreadInv, Active, Running
  <2>2. CASE u # t
    <3>1. ThreadInv(u) /\ SameKind(u)
      BY <1>1 DEF DriverInv, SameKind
    <3>2. at[u] \notin {"locked", "saving", "saved"}
      BY <1>4, <2>2, <3>1 DEF ThreadInv
    <3>3. Active(u) => /\ verdict'[u[1]] = None
                       /\ command[u[1]] = "ask" \/ (~capHit'[u[1]] /\ ~broken'[u[1]])
      BY <1>1, <3>1 DEF ThreadInv
    <3> QED
      BY <1>1, <1>3, <1>7, <1>8, <2>2, <3>1, <3>2, <3>3, ThreadKept
  <2> QED
    BY <2>1, <2>2
<1>11. FileInv'
  <2>1. \A u \in Thread : SameKind(u)
    BY <1>1 DEF SameKind
  <2>2. /\ DueCount' \in [RequestKinds -> Nat] /\ DueCount \in [RequestKinds -> Nat]
        /\ command[t[1]] = "tally" => DueCount' = DueCount
        /\ command[t[1]] # "tally" =>
             /\ DueCount'[Kind(t)] = DueCount[Kind(t)] + 1
             /\ \A k \in RequestKinds \ {Kind(t)} : DueCount'[k] = DueCount[k]
    BY <1>1, <1>2, <1>3, <2>1, OneIsDue, DueType
  <2>3. /\ sentInAll.requests + Weighed(Once, DueCount) <= ledger.requests
        /\ sentInAll.dollars + Weighed(Cost, DueCount) <= ledger.dollars
        /\ Weighed(Once, DueCount) \in Nat /\ Weighed(Cost, DueCount) \in Nat
    BY <1>2, <1>4, <2>2, WeighedType, WeightsAre DEF FileInv
  <2>4. /\ ledger'.requests = ledger.requests + Count(t) /\ ledger'.requests <= MaxRequests
        /\ ledger'.dollars = ledger.dollars + Worst(t) /\ ledger'.dollars <= MaxDollars
    BY <1>4 DEF WithinCaps
  <2>5. /\ sentInAll.requests + Weighed(Once, DueCount') <= ledger'.requests
        /\ sentInAll.dollars + Weighed(Cost, DueCount') <= ledger'.dollars
    <3>1. CASE command[t[1]] = "tally"
      BY <1>5, <1>6, <2>2, <2>3, <2>4, <3>1
    <3>2. CASE command[t[1]] # "tally"
      <4>1. /\ Weighed(Once, DueCount') = Weighed(Once, DueCount) + 1
            /\ Weighed(Cost, DueCount') = Weighed(Cost, DueCount) + Cost[Kind(t)]
        BY <1>5, <2>2, <3>2, WeighedOneMore, WeightsAre
      <4>2. Count(t) = 1 /\ Worst(t) = Cost[Kind(t)]
        BY <1>5, <3>2 DEF Count, Worst
      <4> QED
        BY <1>5, <1>6, <2>3, <2>4, <4>1, <4>2
    <3> QED
      BY <3>1, <3>2
  <2>6. Weighed(Once, DueCount)' = Weighed(Once, DueCount')
        /\ Weighed(Cost, DueCount)' = Weighed(Cost, DueCount')
    BY DEF Weighed, Once
  <2> QED
    BY <1>1, <1>7, <2>4, <2>5, <2>6 DEF FileInv
<1>12. \A d \in Driver : QuestionsInv(d)'
  BY <1>1, <1>2, ThreadMoves DEF TakenPlaces
<1> QED
  BY <1>9, <1>10, <1>11, <1>12 DEF DriverInv

LEMMA UnlockKeeps ==
  ASSUME DriverInv, NEW t \in Thread, Unlock(t)
  PROVE  DriverInv'
<1>1. PICK place : place = IF command[t[1]] = "tally" THEN "over" ELSE "send"
  OBVIOUS
<1>2. at[t] = "saved" /\ Active(t) /\ lock' = None
      /\ at' = [at EXCEPT ![t] = place]
      /\ UNCHANGED <<ledger, command, copy, left, capHit, broken, verdict, code, sent, sentInAll>>
  BY <1>1, DriverAssumption DEF Unlock, Active, Places
<1>3. /\ DriverTypes /\ ThreadInv(t) /\ FileInv /\ command[t[1]] # None /\ at[t] # None
      /\ QuestionsInv(t[1]) /\ t[1] \in Driver
  BY <1>2, AtWork DEF DriverInv
<1>4. at'[t] = place /\ \A u \in Thread : u # t => at'[u] = at[u]
  BY <1>2, <1>3, OneMoves
<1>5. DriverTypes'
  BY <1>1, <1>2, <1>3 DEF DriverTypes, Places
<1>6. ASSUME NEW u \in Thread PROVE ThreadInv(u)'
  <2>1. CASE u = t
    BY <1>1, <1>2, <1>3, <1>4, <2>1 DEF ThreadInv, Active, Running
  <2>2. CASE u # t
    <3>1. ThreadInv(u) /\ SameKind(u)
      BY <1>2 DEF DriverInv, SameKind
    <3>2. at[u] \notin {"locked", "saving", "saved"}
      BY <1>2, <1>3, <2>2, <3>1 DEF ThreadInv
    <3>3. Active(u) => /\ verdict'[u[1]] = None
                       /\ command[u[1]] = "ask" \/ (~capHit'[u[1]] /\ ~broken'[u[1]])
      BY <1>2, <3>1 DEF ThreadInv
    <3> QED
      BY <1>2, <1>4, <2>2, <3>1, <3>2, <3>3, ThreadKept
  <2> QED
    BY <2>1, <2>2
<1>7. FileInv'
  <2>1. \A u \in Thread : at'[u] \in {"saved", "send"} => at[u] \in {"saved", "send"} /\ SameKind(u)
    BY <1>2, <1>4 DEF SameKind
  <2> QED
    BY <1>2, <1>3, <2>1, FileKept
<1>8. \A d \in Driver : QuestionsInv(d)'
  <2>1. left[t[1]] # None => command[t[1]] # "tally"
    BY <1>3 DEF QuestionsInv
  <2>2. place # "await" /\ at[t] \in TakenPlaces
        /\ (left[t[1]] # None => place \in TakenPlaces)
    BY <1>1, <1>2, <2>1 DEF TakenPlaces
  <2> QED
    BY <1>2, <1>3, <2>2, ThreadMoves
<1> QED
  BY <1>5, <1>6, <1>7, <1>8 DEF DriverInv

\* Every driver but the one of t has its questions as they were.
LEMMA OthersKeep ==
  ASSUME DriverInv, NEW d \in Driver,
         \A e \in Driver \ {d}, w \in Worker : at'[<<e, w>>] = at[<<e, w>>],
         \A e \in Driver \ {d} :
           /\ command'[e] = command[e] /\ code'[e] = code[e] /\ verdict'[e] = verdict[e]
           /\ left'[e] = left[e] /\ sent'[e] = sent[e]
           /\ capHit'[e] = capHit[e] /\ broken'[e] = broken[e],
         QuestionsInv(d)'
  PROVE  \A e \in Driver : QuestionsInv(e)'
<1>1. ASSUME NEW e \in Driver \ {d} PROVE QuestionsInv(e)'
  <2>1. \A w \in Worker : at'[<<e, w>>] = at[<<e, w>>]
    BY <1>1
  <2>2. QuestionsInv(e) /\ at'[<<e, Main>>] = at[<<e, Main>>]
    BY <2>1, DriverAssumption DEF DriverInv
  <2> QED
    BY <1>1, <2>1, <2>2, QuestionsKept
<1> QED
  BY <1>1

LEMMA SendKeeps ==
  ASSUME DriverInv, NEW t \in Thread, Send(t)
  PROVE  DriverInv'
<1>1. at[t] = "send" /\ Active(t) /\ sent' = [sent EXCEPT ![t[1]] = @ + 1]
      /\ sentInAll' = [requests |-> sentInAll.requests + 1, dollars |-> sentInAll.dollars + Worst(t)]
      /\ at' = [at EXCEPT ![t] = "await"]
      /\ UNCHANGED <<ledger, lock, command, copy, left, capHit, broken, verdict, code>>
  BY DriverAssumption DEF Send, Active, Places
<1>2. /\ DriverTypes /\ ThreadInv(t) /\ FileInv /\ command[t[1]] # None /\ at[t] # None
      /\ t[1] \in Driver /\ QuestionsInv(t[1]) /\ verdict[t[1]] = None /\ code[t[1]] = None
  BY <1>1, AtWork DEF DriverInv
<1>3. /\ at'[t] = "await" /\ \A u \in Thread : u # t => at'[u] = at[u]
      /\ t[1] \in Driver /\ t[2] \in Worker /\ t = <<t[1], t[2]>>
      /\ \A w \in Worker \ {t[2]} : at'[<<t[1], w>>] = at[<<t[1], w>>]
      /\ \A e \in Driver \ {t[1]}, w \in Worker : at'[<<e, w>>] = at[<<e, w>>]
  BY <1>1, <1>2, OneMoves
<1>4. ledger # None /\ command[t[1]] # "tally"
  BY <1>1, <1>2 DEF ThreadInv
<1>5. Count(t) \in Nat /\ Worst(t) \in Nat /\ Kind(t) \in RequestKinds /\ Cost[Kind(t)] \in Nat
  BY KindType, WeightsAre
<1>6. /\ ledger.requests \in Nat /\ ledger.dollars \in Nat
      /\ sentInAll.requests \in Nat /\ sentInAll.dollars \in Nat
  BY <1>2, <1>4 DEF DriverTypes, Amounts
<1>7. /\ sentInAll' \in Amounts /\ sent' \in [Driver -> Nat]
      /\ sent'[t[1]] = sent[t[1]] + 1 /\ \A e \in Driver \ {t[1]} : sent'[e] = sent[e]
  BY <1>1, <1>2, <1>5, <1>6 DEF Amounts, DriverTypes
<1>8. DriverTypes'
  BY <1>1, <1>2, <1>7 DEF DriverTypes, Places
<1>9. ASSUME NEW u \in Thread PROVE ThreadInv(u)'
  <2>1. CASE u = t
    BY <1>1, <1>2, <1>3, <1>4, <2>1 DEF ThreadInv, Active, Running
  <2>2. CASE u # t
    <3>1. ThreadInv(u) /\ SameKind(u)
      BY <1>1 DEF DriverInv, SameKind
    <3>2. at[u] \in {"locked", "saving", "saved"} => lock' = u
      BY <1>1, <3>1 DEF ThreadInv
    <3>3. Active(u) => /\ verdict'[u[1]] = None
                       /\ command[u[1]] = "ask" \/ (~capHit'[u[1]] /\ ~broken'[u[1]])
      BY <1>1, <3>1 DEF ThreadInv
    <3> QED
      BY <1>1, <1>3, <2>2, <3>1, <3>2, <3>3, ThreadKept
  <2> QED
    BY <2>1, <2>2
<1>10. FileInv'
  <2>1. \A u \in Thread : SameKind(u)
    BY <1>1 DEF SameKind
  <2>2. /\ DueCount' \in [RequestKinds -> Nat] /\ DueCount \in [RequestKinds -> Nat]
        /\ DueCount[Kind(t)] = DueCount'[Kind(t)] + 1
        /\ \A k \in RequestKinds \ {Kind(t)} : DueCount[k] = DueCount'[k]
    BY <1>1, <1>2, <1>3, <1>4, <2>1, OneIsDue, DueType
  <2>3. /\ sentInAll.requests + Weighed(Once, DueCount) <= ledger.requests
        /\ sentInAll.dollars + Weighed(Cost, DueCount) <= ledger.dollars
        /\ ledger.requests <= MaxRequests /\ ledger.dollars <= MaxDollars
        /\ Weighed(Once, DueCount') \in Nat /\ Weighed(Cost, DueCount') \in Nat
    BY <1>2, <1>4, <2>2, WeighedType, WeightsAre DEF FileInv
  <2>4. /\ Weighed(Once, DueCount) = Weighed(Once, DueCount') + 1
        /\ Weighed(Cost, DueCount) = Weighed(Cost, DueCount') + Cost[Kind(t)]
    BY <1>5, <2>2, WeighedOneMore, WeightsAre
  <2>5. Worst(t) = Cost[Kind(t)]
    BY <1>4, <1>5 DEF Count, Worst
  <2>6. /\ sentInAll'.requests + Weighed(Once, DueCount') <= ledger.requests
        /\ sentInAll'.dollars + Weighed(Cost, DueCount') <= ledger.dollars
    BY <1>1, <1>5, <1>6, <2>3, <2>4, <2>5
  <2>7. Weighed(Once, DueCount)' = Weighed(Once, DueCount')
        /\ Weighed(Cost, DueCount)' = Weighed(Cost, DueCount')
    BY DEF Weighed, Once
  <2> QED
    BY <1>1, <1>4, <2>3, <2>6, <2>7 DEF FileInv
<1>11. QuestionsInv(t[1])'
  <2>1. PICK d \in Driver, w \in Worker : d = t[1] /\ w = t[2] /\ t = <<d, w>>
    BY <1>3
  <2>2. Cardinality(Taken(d))' = Cardinality(Taken(d)) - 1
    BY <1>1, <1>3, <2>1, TakenOneLess DEF TakenPlaces
  <2>3. Cardinality(Taken(d)) \in Nat /\ Cardinality(Taken(d))' \in Int /\ sent[d] \in Nat
        /\ sent'[d] = sent[d] + 1
    BY <1>2, <1>7, <2>1, <2>2, TakenType DEF DriverTypes
  <2>4. left[d] = None => w = Main /\ Main \in Taken(d) /\ sent[d] = 0
    BY <1>1, <1>2, <2>1, DriverAssumption DEF ThreadInv, QuestionsInv, Taken
  <2>5. left[d] = None => Main \notin Taken(d)' /\ sent'[d] = 1
    BY <1>3, <2>1, <2>3, <2>4 DEF Taken
  <2>6. left[d] # None /\ Undisturbed(d)' =>
          sent'[d] + Cardinality(Taken(d))' + left[d] = 1 + Questions(command[d])
    <3>1. left[d] # None /\ Undisturbed(d)' => left[d] \in Nat /\ Undisturbed(d)
      BY <1>1, <1>2 DEF DriverTypes, Undisturbed
    <3>2. left[d] # None /\ Undisturbed(d)' =>
            sent[d] + Cardinality(Taken(d)) + left[d] = 1 + Questions(command[d])
      BY <1>2, <2>1, <3>1 DEF QuestionsInv
    <3> QED
      BY <2>2, <2>3, <3>1, <3>2
  <2>7. code[d] # "ok" /\ verdict[d] # "pass"
    BY <1>2, <2>1, DriverAssumption DEF Codes
  <2> QED
    BY <1>1, <1>2, <2>1, <2>5, <2>6, <2>7 DEF QuestionsInv
<1>12. \A d \in Driver : QuestionsInv(d)'
  BY <1>1, <1>2, <1>3, <1>7, <1>11, OthersKeep
<1> QED
  BY <1>8, <1>9, <1>10, <1>12 DEF DriverInv

\* A driver of which only t is at work, and stops: nothing of it is taken.
LEMMA NothingTaken ==
  ASSUME NEW d \in Driver, \A w \in Worker : at[<<d, w>>] \notin TakenPlaces
  PROVE  Taken(d) = {} /\ Cardinality(Taken(d)) = 0
<1>1. Taken(d) = {}
  BY DEF Taken, TakenPlaces
<1> QED
  BY <1>1, FS_EmptySet

LEMMA SignedInKeeps ==
  ASSUME DriverInv, NEW t \in Thread, SignedIn(t)
  PROVE  DriverInv'
<1>1. at[t] = "await" /\ Active(t) /\ Kind(t) = "exchange"
      /\ left' = [left EXCEPT ![t[1]] = Questions(command[t[1]])]
      /\ at' = [at EXCEPT ![t] = "over"]
      /\ UNCHANGED <<ledger, lock, command, copy, capHit, broken, verdict, code, sent, sentInAll>>
  BY DriverAssumption DEF SignedIn, Active, Places
<1>2. /\ DriverTypes /\ ThreadInv(t) /\ FileInv /\ command[t[1]] # None /\ at[t] # None
      /\ t[1] \in Driver /\ QuestionsInv(t[1]) /\ verdict[t[1]] = None /\ code[t[1]] = None
      /\ command[t[1]] \in Commands
      /\ \A u \in Thread : u[1] = t[1] /\ u # t /\ Active(u) => command[t[1]] = "ask"
  BY <1>1, AtWork DEF DriverInv
<1>3. /\ at'[t] = "over" /\ \A u \in Thread : u # t => at'[u] = at[u]
      /\ t[1] \in Driver /\ t[2] \in Worker /\ t = <<t[1], t[2]>>
      /\ \A w \in Worker \ {t[2]} : at'[<<t[1], w>>] = at[<<t[1], w>>]
      /\ \A e \in Driver \ {t[1]}, w \in Worker : at'[<<e, w>>] = at[<<e, w>>]
  BY <1>1, <1>2, OneMoves
<1>4. /\ left[t[1]] = None /\ command[t[1]] \in {"ask", "coldstart", "cap-test"}
  BY <1>1, <1>2 DEF Kind, Commands
<1>5. Questions(command[t[1]]) \in Nat
  BY <1>4, DriverAssumption DEF Questions
<1>6. /\ left' \in [Driver -> Nat \cup {None}] /\ left'[t[1]] = Questions(command[t[1]])
      /\ left'[t[1]] # None
      /\ \A e \in Driver \ {t[1]} : left'[e] = left[e]
  BY <1>1, <1>2, <1>5, DriverAssumption DEF DriverTypes
<1>7. DriverTypes'
  BY <1>1, <1>2, <1>6 DEF DriverTypes, Places
<1>8. \A u \in Thread : u # t /\ u[1] = t[1] => ~Active(u)
  <2> SUFFICES ASSUME NEW u \in Thread, u # t, u[1] = t[1], Active(u) PROVE FALSE
    OBVIOUS
  <2>1. ThreadInv(u)
    BY DEF DriverInv
  <2>2. u[2] = Main /\ t[2] = Main
    BY <1>1, <1>2, <1>4, <2>1 DEF ThreadInv
  <2> QED
    BY <2>2 DEF Thread
<1>9. ASSUME NEW u \in Thread PROVE ThreadInv(u)'
  <2>1. CASE u = t
    BY <1>3, <2>1 DEF ThreadInv, Active
  <2>2. CASE u # t
    <3>1. ThreadInv(u) /\ u[1] \in Driver
      BY DEF DriverInv, Thread
    <3>2. at[u] \in {"locked", "saving", "saved"} => lock' = u
      BY <1>1, <3>1 DEF ThreadInv
    <3>3. Active(u) => SameKind(u)
      BY <1>1, <1>6, <1>8, <2>2, <3>1 DEF SameKind
    <3>4. Active(u) => /\ verdict'[u[1]] = None
                       /\ command[u[1]] = "ask" \/ (~capHit'[u[1]] /\ ~broken'[u[1]])
      BY <1>1, <3>1 DEF ThreadInv
    <3> QED
      BY <1>1, <1>3, <2>2, <3>1, <3>2, <3>3, <3>4, ThreadKept
  <2> QED
    BY <2>1, <2>2
<1>10. FileInv'
  <2>1. ASSUME NEW u \in Thread, at'[u] \in {"saved", "send"}
        PROVE  at[u] \in {"saved", "send"} /\ SameKind(u)
    <3>1. u # t /\ at[u] \in {"saved", "send"} /\ Active(u) /\ u[1] \in Driver
      BY <1>3, <2>1, DriverAssumption DEF Active, Places, Thread
    <3>2. u[1] # t[1]
      BY <1>8, <3>1
    <3> QED
      BY <1>1, <1>6, <3>1, <3>2 DEF SameKind
  <2> QED
    BY <1>1, <1>2, <2>1, FileKept
<1>11. QuestionsInv(t[1])'
  <2>1. PICK d \in Driver, w \in Worker : d = t[1] /\ w = t[2] /\ t = <<d, w>>
    BY <1>3
  <2>2. w = Main /\ sent[d] = 1
    BY <1>1, <1>2, <1>4, <2>1 DEF ThreadInv, QuestionsInv
  <2>3. (\A v \in Worker : at[<<d, v>>] \notin TakenPlaces)'
    <3> SUFFICES ASSUME NEW v \in Worker PROVE at'[<<d, v>>] \notin TakenPlaces
      BY DEF TakenPlaces
    <3>1. <<d, v>> \in Thread
      BY DEF Thread
    <3> QED
      BY <1>3, <1>8, <2>1, <3>1, DriverAssumption DEF Active, TakenPlaces, Places
  <2>4. Cardinality(Taken(d))' = 0 /\ Taken(d)' = {}
    <3>1. Taken(d)' = {}
      BY <2>3 DEF Taken, TakenPlaces
    <3> QED
      BY <3>1, FS_EmptySet
  <2>5. sent'[d] + Cardinality(Taken(d))' + left'[d] = 1 + Questions(command[d])
    BY <1>1, <1>5, <1>6, <2>1, <2>2, <2>4
  <2>6. code[d] # "ok" /\ verdict[d] # "pass"
    BY <1>2, <2>1, DriverAssumption DEF Codes
  <2> QED
    BY <1>1, <1>2, <1>4, <1>6, <2>1, <2>5, <2>6 DEF QuestionsInv
<1>12. \A d \in Driver : QuestionsInv(d)'
  BY <1>1, <1>2, <1>3, <1>6, <1>11, OthersKeep
<1> QED
  BY <1>7, <1>9, <1>10, <1>12 DEF DriverInv

LEMMA RefusedKeeps ==
  ASSUME DriverInv, NEW t \in Thread, Refused(t)
  PROVE  DriverInv'
<1>1. PICK cap \in {"session_limit", "daily_limit"} :
        verdict' = [verdict EXCEPT ![t[1]] =
         IF cap = "session_limit" /\ CapTestMax - left[t[1]] = HourlyLimit + 1
         THEN "pass" ELSE "inconclusive"]
  BY DEF Refused
<1>2. at[t] = "await" /\ Active(t) /\ command[t[1]] = "cap-test" /\ Kind(t) # "exchange"
      /\ left' = [left EXCEPT ![t[1]] = 0]
      /\ at' = [at EXCEPT ![t] = "over"]
      /\ UNCHANGED <<ledger, lock, command, copy, capHit, broken, code, sent, sentInAll>>
  BY DriverAssumption DEF Refused, Active, Places
<1>3. /\ DriverTypes /\ ThreadInv(t) /\ FileInv /\ command[t[1]] # None /\ at[t] # None
      /\ t[1] \in Driver /\ QuestionsInv(t[1]) /\ verdict[t[1]] = None /\ code[t[1]] = None
      /\ \A u \in Thread : u[1] = t[1] /\ u # t => ~Active(u)
  BY <1>2, AtWork DEF DriverInv
<1>4. /\ at'[t] = "over" /\ \A u \in Thread : u # t => at'[u] = at[u]
      /\ t[1] \in Driver /\ t[2] \in Worker /\ t = <<t[1], t[2]>>
      /\ \A w \in Worker \ {t[2]} : at'[<<t[1], w>>] = at[<<t[1], w>>]
      /\ \A e \in Driver \ {t[1]}, w \in Worker : at'[<<e, w>>] = at[<<e, w>>]
  BY <1>2, <1>3, OneMoves
<1>5. left[t[1]] # None /\ left[t[1]] \in Nat
  BY <1>2, <1>3 DEF Kind, DriverTypes
<1>6. /\ left' \in [Driver -> Nat \cup {None}] /\ left'[t[1]] = 0
      /\ verdict' \in [Driver -> {"pass", "inconclusive", None}]
      /\ verdict'[t[1]] \in {"pass", "inconclusive"} /\ verdict'[t[1]] # None
      /\ verdict'[t[1]] = "pass" => CapTestMax - left[t[1]] = HourlyLimit + 1
      /\ \A e \in Driver \ {t[1]} : left'[e] = left[e] /\ verdict'[e] = verdict[e]
  BY <1>1, <1>2, <1>3, DriverAssumption DEF DriverTypes
<1>7. DriverTypes'
  BY <1>2, <1>3, <1>6 DEF DriverTypes, Places
<1>8. ASSUME NEW u \in Thread PROVE ThreadInv(u)'
  <2>1. CASE u = t
    BY <1>4, <2>1 DEF ThreadInv, Active
  <2>2. CASE u # t
    <3>1. ThreadInv(u) /\ u[1] \in Driver
      BY DEF DriverInv, Thread
    <3>2. at[u] \in {"locked", "saving", "saved"} => lock' = u
      BY <1>2, <3>1 DEF ThreadInv
    <3>3. Active(u) => SameKind(u) /\ verdict'[u[1]] = verdict[u[1]]
      BY <1>2, <1>3, <1>6, <2>2, <3>1 DEF SameKind
    <3>4. Active(u) => /\ verdict[u[1]] = None
                       /\ command[u[1]] = "ask" \/ (~capHit'[u[1]] /\ ~broken'[u[1]])
      BY <1>2, <3>1 DEF ThreadInv
    <3> QED
      BY <1>2, <1>4, <2>2, <3>1, <3>2, <3>3, <3>4, ThreadKept
  <2> QED
    BY <2>1, <2>2
<1>9. FileInv'
  <2>1. ASSUME NEW u \in Thread, at'[u] \in {"saved", "send"}
        PROVE  at[u] \in {"saved", "send"} /\ SameKind(u)
    <3>1. u # t /\ at[u] \in {"saved", "send"} /\ Active(u) /\ u[1] \in Driver
      BY <1>4, <2>1, DriverAssumption DEF Active, Places, Thread
    <3>2. u[1] # t[1]
      BY <1>3, <3>1
    <3> QED
      BY <1>2, <1>6, <3>1, <3>2 DEF SameKind
  <2> QED
    BY <1>2, <1>3, <2>1, FileKept
<1>10. QuestionsInv(t[1])'
  <2>1. PICK d \in Driver, w \in Worker : d = t[1] /\ w = t[2] /\ t = <<d, w>>
    BY <1>4
  <2>2. \A v \in Worker : at[<<d, v>>] \notin TakenPlaces
    <3> SUFFICES ASSUME NEW v \in Worker PROVE at[<<d, v>>] \notin TakenPlaces
      OBVIOUS
    <3>1. <<d, v>> \in Thread
      BY DEF Thread
    <3> QED
      BY <1>2, <1>3, <2>1, <3>1, DriverAssumption DEF Active, TakenPlaces, Places
  <2>3. Cardinality(Taken(d)) = 0
    BY <2>2, NothingTaken
  <2>4. Undisturbed(d)
    BY <1>2, <1>3, <2>1, DriverAssumption DEF Undisturbed, ThreadInv, Codes
  <2>5. sent[d] + left[d] = 1 + CapTestMax /\ sent[d] \in Nat
    <3>1. sent[d] + Cardinality(Taken(d)) + left[d] = 1 + Questions(command[d])
      BY <1>3, <1>5, <2>1, <2>4 DEF QuestionsInv
    <3> QED
      BY <1>2, <1>3, <1>5, <2>1, <2>3, <3>1 DEF Questions, DriverTypes
  <2>6. verdict'[d] = "pass" => sent'[d] = 1 + HourlyLimit + 1
    BY <1>2, <1>5, <1>6, <2>1, <2>5, DriverAssumption
  <2> QED
    BY <1>2, <1>3, <1>6, <2>1, <2>6, DriverAssumption DEF QuestionsInv, Undisturbed, Codes
<1>11. \A d \in Driver : QuestionsInv(d)'
  BY <1>2, <1>3, <1>4, <1>6, <1>10, OthersKeep
<1> QED
  BY <1>7, <1>8, <1>9, <1>11 DEF DriverInv

LEMMA NextQuestionKeeps ==
  ASSUME DriverInv, NEW t \in Thread, NextQuestion(t)
  PROVE  DriverInv'
<1>1. /\ Running(t[1]) /\ at[t] \in {None, "over"} /\ ~Active(t)
      /\ left[t[1]] # None /\ left[t[1]] # 0
      /\ command[t[1]] # "ask" => t[2] = Main /\ ~capHit[t[1]] /\ ~broken[t[1]]
      /\ left' = [left EXCEPT ![t[1]] = @ - 1]
      /\ at' = [at EXCEPT ![t] = "reserve"]
      /\ UNCHANGED <<ledger, lock, command, copy, capHit, broken, verdict, code, sent, sentInAll>>
  BY DEF NextQuestion, Active
<1>2. /\ DriverTypes /\ ThreadInv(t) /\ FileInv /\ t[1] \in Driver /\ QuestionsInv(t[1])
  BY DEF DriverInv, Thread
<1>3. /\ at'[t] = "reserve" /\ \A u \in Thread : u # t => at'[u] = at[u]
      /\ t[1] \in Driver /\ t[2] \in Worker /\ t = <<t[1], t[2]>>
      /\ \A w \in Worker \ {t[2]} : at'[<<t[1], w>>] = at[<<t[1], w>>]
      /\ \A e \in Driver \ {t[1]}, w \in Worker : at'[<<e, w>>] = at[<<e, w>>]
  BY <1>1, <1>2, OneMoves
<1>4. /\ command[t[1]] # None /\ code[t[1]] = None /\ verdict[t[1]] = None
      /\ left[t[1]] \in Nat /\ left[t[1]] - 1 \in Nat
  BY <1>1, <1>2 DEF Running, QuestionsInv, DriverTypes
<1>5. /\ left' \in [Driver -> Nat \cup {None}] /\ left'[t[1]] = left[t[1]] - 1
      /\ left'[t[1]] # None
      /\ \A e \in Driver \ {t[1]} : left'[e] = left[e]
  BY <1>1, <1>2, <1>4, DriverAssumption DEF DriverTypes
<1>6. DriverTypes'
  BY <1>1, <1>2, <1>5 DEF DriverTypes, Places
<1>7. \A u \in Thread : SameKind(u)
  <2> SUFFICES ASSUME NEW u \in Thread PROVE left'[u[1]] = None <=> left[u[1]] = None
    BY <1>1 DEF SameKind
  <2>1. u[1] \in Driver
    BY DEF Thread
  <2> QED
    BY <1>1, <1>5, <2>1
<1>8. ASSUME NEW u \in Thread PROVE ThreadInv(u)'
  <2>1. CASE u = t
    BY <1>1, <1>3, <1>4, <1>5, <2>1 DEF ThreadInv, Active, Running
  <2>2. CASE u # t
    <3>1. ThreadInv(u)
      BY DEF DriverInv
    <3>2. at[u] \in {"locked", "saving", "saved"} => lock' = u
      BY <1>1, <3>1 DEF ThreadInv
    <3>3. Active(u) => /\ verdict'[u[1]] = None
                       /\ command[u[1]] = "ask" \/ (~capHit'[u[1]] /\ ~broken'[u[1]])
      BY <1>1, <3>1 DEF ThreadInv
    <3> QED
      BY <1>1, <1>3, <1>7, <2>2, <3>1, <3>2, <3>3, ThreadKept
  <2> QED
    BY <2>1, <2>2
<1>9. FileInv'
  BY <1>1, <1>2, <1>3, <1>7, FileKept
<1>10. QuestionsInv(t[1])'
  <2>1. PICK d \in Driver, w \in Worker : d = t[1] /\ w = t[2] /\ t = <<d, w>>
    BY <1>3
  <2>2. at[<<d, w>>] \notin TakenPlaces
    BY <1>1, <2>1, DriverAssumption DEF TakenPlaces, Places
  <2>3. Cardinality(Taken(d))' = Cardinality(Taken(d)) + 1
    BY <1>3, <2>1, <2>2, TakenOneMore DEF TakenPlaces
  <2>4. Cardinality(Taken(d)) \in Nat /\ sent[d] \in Nat
    BY <1>2, <2>1, TakenType DEF DriverTypes
  <2>5. Undisturbed(d)' => sent'[d] + Cardinality(Taken(d))' + left'[d] = 1 + Questions(command[d])
    <3>1. Undisturbed(d)' => Undisturbed(d)
      BY <1>1 DEF Undisturbed
    <3>2. Undisturbed(d)' => sent[d] + Cardinality(Taken(d)) + left[d] = 1 + Questions(command[d])
      BY <1>1, <1>2, <2>1, <3>1 DEF QuestionsInv
    <3> QED
      BY <1>1, <1>4, <1>5, <2>1, <2>3, <2>4, <3>2
  <2>6. code[d] # "ok" /\ verdict[d] # "pass"
    BY <1>4, <2>1, DriverAssumption DEF Codes
  <2> QED
    BY <1>1, <1>2, <1>4, <1>5, <2>1, <2>5, <2>6 DEF QuestionsInv
<1>11. \A d \in Driver : QuestionsInv(d)'
  BY <1>1, <1>2, <1>3, <1>5, <1>10, OthersKeep
<1> QED
  BY <1>6, <1>8, <1>9, <1>11 DEF DriverInv

LEMMA StartKeeps ==
  ASSUME DriverInv, NEW d \in Driver, Start(d)
  PROVE  DriverInv'
<1>1. PICK c \in Commands : command' = [command EXCEPT ![d] = c]
  BY DEF Start
<1>2. /\ command[d] = None /\ at' = [at EXCEPT ![<<d, Main>>] = "reserve"]
      /\ UNCHANGED <<ledger, lock, copy, left, capHit, broken, verdict, code, sent, sentInAll>>
  BY DEF Start
<1>3. DriverTypes /\ FileInv /\ QuestionsInv(d)
  BY DEF DriverInv
<1>4. PICK t \in Thread : t = <<d, Main>>
  BY DriverAssumption DEF Thread
<1>5. at' = [at EXCEPT ![t] = "reserve"] /\ t[1] = d /\ t[2] = Main
  BY <1>2, <1>4
<1>6. /\ at'[t] = "reserve" /\ \A u \in Thread : u # t => at'[u] = at[u]
      /\ \A w \in Worker \ {Main} : at'[<<d, w>>] = at[<<d, w>>]
      /\ \A e \in Driver \ {d}, w \in Worker : at'[<<e, w>>] = at[<<e, w>>]
  <2>1. /\ at'[t] = "reserve" /\ \A u \in Thread : u # t => at'[u] = at[u]
        /\ \A w \in Worker \ {t[2]} : at'[<<t[1], w>>] = at[<<t[1], w>>]
        /\ \A e \in Driver \ {t[1]}, w \in Worker : at'[<<e, w>>] = at[<<e, w>>]
    BY <1>3, <1>5, OneMoves
  <2> QED
    BY <1>5, <2>1, Zenon
<1>7. /\ command' \in [Driver -> Commands \cup {None}] /\ command'[d] = c /\ c # None
      /\ \A e \in Driver \ {d} : command'[e] = command[e]
  BY <1>1, <1>3, DriverAssumption DEF DriverTypes
<1>8. DriverTypes'
  BY <1>2, <1>3, <1>4, <1>7 DEF DriverTypes, Places
<1>9. ASSUME NEW u \in Thread, Active(u) PROVE u[1] \in Driver \ {d} /\ SameKind(u)
  <2>1. ThreadInv(u) /\ u[1] \in Driver
    BY DEF DriverInv, Thread
  <2>2. u[1] # d
    BY <1>2, <1>9, <2>1 DEF ThreadInv, Running
  <2> QED
    BY <1>2, <1>7, <2>1, <2>2 DEF SameKind
<1>10. /\ code[d] = None /\ left[d] = None /\ sent[d] = 0 /\ verdict[d] = None
       /\ ~capHit[d] /\ ~broken[d]
  BY <1>2, <1>3 DEF QuestionsInv
<1>11. ASSUME NEW u \in Thread PROVE ThreadInv(u)'
  <2>1. CASE u = t
    BY <1>2, <1>4, <1>5, <1>6, <1>7, <1>10, <2>1 DEF ThreadInv, Active, Running
  <2>2. CASE u # t
    <3>1. ThreadInv(u)
      BY DEF DriverInv
    <3>2. at[u] \in {"locked", "saving", "saved"} => lock' = u
      BY <1>2, <3>1 DEF ThreadInv
    <3>3. Active(u) => /\ verdict'[u[1]] = None
                       /\ command[u[1]] = "ask" \/ (~capHit'[u[1]] /\ ~broken'[u[1]])
      BY <1>2, <3>1 DEF ThreadInv
    <3> QED
      BY <1>2, <1>6, <1>9, <2>2, <3>1, <3>2, <3>3, ThreadKept
  <2> QED
    BY <2>1, <2>2
<1>12. FileInv'
  <2>1. ASSUME NEW u \in Thread, at'[u] \in {"saved", "send"}
        PROVE  at[u] \in {"saved", "send"} /\ SameKind(u)
    <3>1. u # t /\ at[u] \in {"saved", "send"} /\ Active(u)
      BY <1>6, <2>1, DriverAssumption DEF Active, Places
    <3> QED
      BY <1>9, <3>1
  <2> QED
    BY <1>2, <1>3, <2>1, FileKept
<1>13. QuestionsInv(d)'
  BY <1>2, <1>4, <1>5, <1>6, <1>7, <1>10, DriverAssumption DEF QuestionsInv, Codes
<1>14. \A e \in Driver : QuestionsInv(e)'
  BY <1>2, <1>6, <1>7, <1>13, OthersKeep
<1> QED
  BY <1>8, <1>11, <1>12, <1>14 DEF DriverInv

LEMMA KillKeeps ==
  ASSUME DriverInv, NEW d \in Driver, KillDriver(d)
  PROVE  DriverInv'
<1>1. /\ Running(d) /\ code' = [code EXCEPT ![d] = "killed"]
      /\ at' = [t \in Thread |-> IF t[1] = d THEN "over" ELSE at[t]]
      /\ UNCHANGED <<ledger, lock, command, copy, left, capHit, broken, verdict, sent, sentInAll>>
  BY DEF KillDriver
<1>2. DriverTypes /\ FileInv /\ QuestionsInv(d)
  BY DEF DriverInv
<1>3. DriverTypes'
  BY <1>1, <1>2 DEF DriverTypes, Places, Codes
<1>4. /\ code'[d] = "killed" /\ command[d] # None /\ code[d] = None /\ code'[d] # None
      /\ \A e \in Driver \ {d} : code'[e] = code[e]
  BY <1>1, <1>2, DriverAssumption DEF Running, DriverTypes, Codes
<1>5. \A u \in Thread : SameKind(u)
  BY <1>1 DEF SameKind
<1>6. /\ \A w \in Worker : at'[<<d, w>>] = "over"
      /\ \A e \in Driver \ {d}, w \in Worker : at'[<<e, w>>] = at[<<e, w>>]
  <2>1. \A e \in Driver, w \in Worker : <<e, w>> \in Thread /\ <<e, w>>[1] = e
    BY DEF Thread
  <2> QED
    BY <1>1, <2>1
<1>7. ASSUME NEW u \in Thread PROVE ThreadInv(u)'
  <2>1. CASE u[1] = d
    <3>1. at'[u] = "over"
      BY <1>1, <2>1
    <3> QED
      BY <3>1 DEF ThreadInv, Active
  <2>2. CASE u[1] # d
    <3>1. ThreadInv(u) /\ at'[u] = at[u] /\ u[1] \in Driver
      BY <1>1, <2>2 DEF DriverInv, Thread
    <3>2. at[u] \in {"locked", "saving", "saved"} => lock' = u
      BY <1>1, <3>1 DEF ThreadInv
    <3>3. Active(u) => /\ verdict'[u[1]] = None
                       /\ command[u[1]] = "ask" \/ (~capHit'[u[1]] /\ ~broken'[u[1]])
      BY <1>1, <3>1 DEF ThreadInv
    <3> QED
      BY <1>1, <1>4, <1>5, <2>2, <3>1, <3>2, <3>3, ThreadKept
  <2> QED
    BY <2>1, <2>2
<1>8. FileInv'
  BY <1>1, <1>2, <1>5, FileKept
<1>9. QuestionsInv(d)'
  <2>1. at'[<<d, Main>>] = "over" /\ Main \notin Taken(d)'
    BY <1>6, DriverAssumption DEF Taken
  <2> QED
    BY <1>1, <1>2, <1>4, <2>1 DEF QuestionsInv, Undisturbed
<1>10. \A e \in Driver : QuestionsInv(e)'
  BY <1>1, <1>4, <1>6, <1>9, OthersKeep
<1> QED
  BY <1>3, <1>7, <1>8, <1>10 DEF DriverInv

\* A driver exits when its threads are over.
LEMMA ExitKeeps ==
  ASSUME DriverInv, NEW d \in Driver, Exit(d)
  PROVE  DriverInv'
<1>1. /\ Running(d) /\ Idle(d) /\ at[<<d, Main>>] = "over"
      /\ left[d] = None \/ AtEnd(d)
      /\ code' = [code EXCEPT ![d] = ExitCode(d)]
      /\ verdict' = [verdict EXCEPT ![d] = IF command[d] = "cap-test" /\ @ = None THEN "inconclusive" ELSE @]
      /\ UNCHANGED <<ledger, lock, command, at, copy, left, capHit, broken, sent, sentInAll>>
  BY DEF Exit
<1>2. DriverTypes /\ FileInv /\ QuestionsInv(d)
  BY DEF DriverInv
<1>3. /\ ExitCode(d) \in {"usage", "cap", "exchange", "ok"} /\ ExitCode(d) \in Codes
      /\ ExitCode(d) # None
  BY DriverAssumption DEF ExitCode, Codes
<1>4. /\ code' \in [Driver -> Codes \cup {None}] /\ code'[d] = ExitCode(d)
      /\ verdict' \in [Driver -> {"pass", "inconclusive", None}]
      /\ verdict'[d] = IF command[d] = "cap-test" /\ verdict[d] = None THEN "inconclusive" ELSE verdict[d]
      /\ \A e \in Driver \ {d} : code'[e] = code[e] /\ verdict'[e] = verdict[e]
      /\ command[d] # None /\ code[d] = None
  BY <1>1, <1>2, <1>3 DEF DriverTypes, Running
<1>5. DriverTypes'
  BY <1>1, <1>2, <1>4 DEF DriverTypes
<1>6. \A u \in Thread : SameKind(u)
  BY <1>1 DEF SameKind
<1>7. \A u \in Thread : Active(u) => u[1] \in Driver \ {d}
  BY <1>1 DEF Idle, Active, Thread
<1>8. ASSUME NEW u \in Thread PROVE ThreadInv(u)'
  <2>1. ThreadInv(u)
    BY DEF DriverInv
  <2>2. at[u] \in {"locked", "saving", "saved"} => lock' = u
    BY <1>1, <2>1 DEF ThreadInv
  <2>3. Active(u) => /\ verdict'[u[1]] = None /\ code'[u[1]] = code[u[1]]
                     /\ command[u[1]] = "ask" \/ (~capHit'[u[1]] /\ ~broken'[u[1]])
    BY <1>1, <1>4, <1>7, <2>1 DEF ThreadInv
  <2> QED
    BY <1>1, <1>6, <2>1, <2>2, <2>3, ThreadKept
<1>9. FileInv'
  BY <1>1, <1>2, <1>6, FileKept
<1>10. \A w \in Worker : at[<<d, w>>] \notin TakenPlaces
  BY <1>1, DriverAssumption DEF Idle, TakenPlaces, Places
<1>11. Taken(d) = {} /\ Cardinality(Taken(d)) = 0
  BY <1>10, NothingTaken
<1>12. Taken(d)' = {} /\ Cardinality(Taken(d))' = 0
  BY <1>1, <1>11 DEF Taken
<1>13. ASSUME code'[d] = "ok", command[d] = "ask" PROVE sent'[d] = 1 + Jobs
  <2>1. ~broken[d] /\ ~capHit[d] /\ left[d] # None
    BY <1>4, <1>13 DEF ExitCode
  <2>2. left[d] = 0 /\ verdict[d] = None /\ sent[d] \in Nat
    BY <1>1, <1>2, <1>13, <2>1 DEF AtEnd, QuestionsInv, DriverTypes
  <2>3. Undisturbed(d)
    BY <1>4, <2>1, <2>2, DriverAssumption DEF Undisturbed, Codes
  <2>4. sent[d] + 0 + 0 = 1 + Questions("ask")
    BY <1>2, <1>11, <1>13, <2>1, <2>2, <2>3 DEF QuestionsInv
  <2> QED
    BY <1>1, <2>2, <2>4, DriverAssumption DEF Questions
<1>14. QuestionsInv(d)'
  <2>1. Undisturbed(d)' => Undisturbed(d)
    BY <1>1, <1>4, DriverAssumption DEF Undisturbed, Codes
  <2>2. Main \notin Taken(d)'
    BY <1>12
  <2>3. at'[<<d, Main>>] # "await"
    BY <1>1
  <2>4. left[d] # None /\ Undisturbed(d)' =>
          sent'[d] + Cardinality(Taken(d))' + left'[d] = 1 + Questions(command'[d])
    BY <1>1, <1>2, <1>11, <1>12, <2>1 DEF QuestionsInv
  <2>5. verdict'[d] # None => command[d] = "cap-test"
    BY <1>2, <1>4 DEF QuestionsInv
  <2>6. verdict'[d] = "pass" => sent'[d] = 1 + HourlyLimit + 1
    BY <1>1, <1>2, <1>4 DEF QuestionsInv
  <2>7. left[d] # None => command[d] \in {"ask", "coldstart", "cap-test"}
    BY <1>2 DEF QuestionsInv
  <2> QED
    BY <1>1, <1>3, <1>4, <1>13, <2>2, <2>3, <2>4, <2>5, <2>6, <2>7 DEF QuestionsInv
<1>15. \A e \in Driver : QuestionsInv(e)'
  BY <1>1, <1>4, <1>14, OthersKeep
<1> QED
  BY <1>5, <1>8, <1>9, <1>15 DEF DriverInv

LEMMA DeleteLockKeeps ==
  ASSUME DriverInv, DeleteLock
  PROVE  DriverInv'
<1>1. /\ \A d \in Driver : ~Running(d)
      /\ lock' = None
      /\ UNCHANGED <<ledger, command, at, copy, left, capHit, broken, verdict, code, sent, sentInAll>>
  BY DEF DeleteLock
<1>2. DriverTypes /\ FileInv
  BY DEF DriverInv
<1>3. DriverTypes'
  BY <1>1, <1>2 DEF DriverTypes
<1>4. \A u \in Thread : SameKind(u)
  BY <1>1 DEF SameKind
<1>5. ASSUME NEW u \in Thread PROVE ThreadInv(u)'
  <2>1. ThreadInv(u) /\ u[1] \in Driver
    BY DEF DriverInv, Thread
  <2>2. ~Active(u)
    BY <1>1, <2>1 DEF ThreadInv
  <2>3. at[u] \notin {"locked", "saving", "saved"}
    BY <2>2, DriverAssumption DEF Active, Places
  <2> QED
    BY <1>1, <1>4, <2>1, <2>2, <2>3, ThreadKept
<1>6. FileInv'
  BY <1>1, <1>2, <1>4, FileKept
<1>7. ASSUME NEW d \in Driver PROVE QuestionsInv(d)'
  <2>1. QuestionsInv(d)
    BY DEF DriverInv
  <2> QED
    BY <1>1, <2>1, QuestionsKept
<1> QED
  BY <1>3, <1>5, <1>6, <1>7 DEF DriverInv

\* Before the file is there nothing is counted, due or sent.
LEMMA CreateLedgerKeeps ==
  ASSUME DriverInv, CreateLedger
  PROVE  DriverInv'
<1>1. /\ ledger = None /\ ledger' = Nothing
      /\ UNCHANGED <<lock, command, at, copy, left, capHit, broken, verdict, code, sent, sentInAll>>
  BY DEF CreateLedger, Nothing
<1>2. DriverTypes /\ FileInv
  BY DEF DriverInv
<1>3. Nothing \in Amounts /\ Nothing # None /\ Nothing.requests = 0 /\ Nothing.dollars = 0
  BY DriverAssumption DEF Nothing, Amounts
<1>4. DriverTypes'
  BY <1>1, <1>2, <1>3 DEF DriverTypes
<1>5. \A u \in Thread : SameKind(u)
  BY <1>1 DEF SameKind
<1>6. \A u \in Thread : at[u] \notin {"saving", "saved", "send", "await"}
  BY <1>1 DEF DriverInv, ThreadInv
<1>7. ASSUME NEW u \in Thread PROVE ThreadInv(u)'
  <2>1. ThreadInv(u)
    BY DEF DriverInv
  <2>2. Running(u[1])' = Running(u[1]) /\ Active(u)' = Active(u)
    BY <1>1 DEF Running, Active
  <2> QED
    BY <1>1, <1>6, <2>1, <2>2 DEF ThreadInv
<1>8. FileInv'
  <2>1. \A k \in RequestKinds : Due(k)' = {}
    BY <1>1, <1>6 DEF Due
  <2>2. \A k \in RequestKinds : DueCount'[k] = 0
    BY <2>1, FS_EmptySet DEF DueCount
  <2>3. \A weight \in [RequestKinds -> Nat] : Weighed(weight, DueCount') = 0
    <3> SUFFICES ASSUME NEW weight \in [RequestKinds -> Nat]
                 PROVE  Weighed(weight, DueCount') = 0
      OBVIOUS
    <3>1. \A k \in RequestKinds : weight[k] \in Nat /\ weight[k] * DueCount'[k] = 0
      BY <2>2, WeighsNothing
    <3> QED
      BY <3>1 DEF Weighed, RequestKinds
  <2>4. Weighed(Once, DueCount)' = Weighed(Once, DueCount')
        /\ Weighed(Cost, DueCount)' = Weighed(Cost, DueCount')
    BY DEF Weighed, Once
  <2>5. Weighed(Once, DueCount') = 0 /\ Weighed(Cost, DueCount') = 0
    BY <2>3, WeightsAre
  <2>6. sentInAll' = Nothing
    BY <1>1, <1>2 DEF FileInv
  <2> QED
    BY <1>1, <1>3, <2>4, <2>5, <2>6, DriverAssumption DEF FileInv
<1>9. ASSUME NEW d \in Driver PROVE QuestionsInv(d)'
  <2>1. QuestionsInv(d)
    BY DEF DriverInv
  <2> QED
    BY <1>1, <2>1, QuestionsKept
<1> QED
  BY <1>4, <1>7, <1>8, <1>9 DEF DriverInv

LEMMA DriverStutters ==
  ASSUME DriverInv, UNCHANGED driving
  PROVE  DriverInv'
<1>1. UNCHANGED <<ledger, lock, command, at, copy, left, capHit, broken, verdict, code, sent, sentInAll>>
  BY DEF driving
<1>2. DriverTypes /\ FileInv
  BY DEF DriverInv
<1>3. DriverTypes'
  BY <1>1, <1>2 DEF DriverTypes
<1>4. \A u \in Thread : SameKind(u)
  BY <1>1 DEF SameKind
<1>5. ASSUME NEW u \in Thread PROVE ThreadInv(u)'
  <2>1. ThreadInv(u)
    BY DEF DriverInv
  <2>2. at[u] \in {"locked", "saving", "saved"} => lock' = u
    BY <1>1, <2>1 DEF ThreadInv
  <2>3. Active(u) => /\ verdict'[u[1]] = None
                     /\ command[u[1]] = "ask" \/ (~capHit'[u[1]] /\ ~broken'[u[1]])
    BY <1>1, <2>1 DEF ThreadInv
  <2> QED
    BY <1>1, <1>4, <2>1, <2>2, <2>3, ThreadKept
<1>6. FileInv'
  BY <1>1, <1>2, <1>4, FileKept
<1>7. ASSUME NEW d \in Driver PROVE QuestionsInv(d)'
  <2>1. QuestionsInv(d)
    BY DEF DriverInv
  <2> QED
    BY <1>1, <2>1, QuestionsKept
<1> QED
  BY <1>3, <1>5, <1>6, <1>7 DEF DriverInv

LEMMA DriverSteps == DriverInv /\ [DriverNext]_driving => DriverInv'
<1> SUFFICES ASSUME DriverInv, [DriverNext]_driving PROVE DriverInv'
  OBVIOUS
<1>1. CASE UNCHANGED driving
  BY <1>1, DriverStutters
<1>2. CASE CreateLedger
  BY <1>2, CreateLedgerKeeps
<1>3. CASE DeleteLock
  BY <1>3, DeleteLockKeeps
<1>4. ASSUME NEW d \in Driver, Start(d) \/ Exit(d) \/ KillDriver(d) PROVE DriverInv'
  BY <1>4, StartKeeps, ExitKeeps, KillKeeps
<1>5. ASSUME NEW t \in Thread, Lock(t) \/ Fails(t) \/ Reserve(t) \/ CapReached(t) PROVE DriverInv'
  BY <1>5, LockKeeps, FailsKeeps, ReserveKeeps, CapReachedKeeps
<1>6. ASSUME NEW t \in Thread, Save(t) \/ Unlock(t) \/ Send(t) PROVE DriverInv'
  BY <1>6, SaveKeeps, UnlockKeeps, SendKeeps
<1>7. ASSUME NEW t \in Thread, SignedIn(t) \/ NotSignedIn(t) \/ Answered(t) \/ Refused(t) \/ NextQuestion(t)
      PROVE  DriverInv'
  BY <1>7, SignedInKeeps, AnsweredKeeps, RefusedKeeps, NextQuestionKeeps
<1> QED
  BY <1>1, <1>2, <1>3, <1>4, <1>5, <1>6, <1>7 DEF DriverNext

LEMMA CountedInFile == DriverInv => SentIsCounted
<1> SUFFICES ASSUME DriverInv PROVE SentIsCounted
  OBVIOUS
<1>1. DriverTypes /\ FileInv /\ \A d \in Driver : QuestionsInv(d)
  BY DEF DriverInv
<1>2. Weighed(Once, DueCount) \in Nat /\ Weighed(Cost, DueCount) \in Nat
  BY DueType, WeightsAre, WeighedType
<1>3. sentInAll.requests > 0 => ledger # None
  BY <1>1 DEF FileInv, Nothing
<1>4. ASSUME ledger # None
      PROVE  /\ sentInAll.requests <= ledger.requests /\ ledger.requests <= MaxRequests
             /\ sentInAll.dollars <= ledger.dollars /\ ledger.dollars <= MaxDollars
  <2>1. /\ ledger.requests \in Nat /\ ledger.dollars \in Nat
        /\ sentInAll.requests \in Nat /\ sentInAll.dollars \in Nat
    BY <1>1, <1>4 DEF DriverTypes, Amounts
  <2> QED
    BY <1>1, <1>2, <1>4, <2>1 DEF FileInv
<1>5. \A d \in Driver : /\ code[d] = "ok" /\ command[d] = "ask" => sent[d] = 1 + Jobs
                        /\ verdict[d] = "pass" => sent[d] = 1 + HourlyLimit + 1
  BY <1>1 DEF QuestionsInv
<1> QED
  BY <1>3, <1>4, <1>5 DEF SentIsCounted

\* Whatever is killed, and however the drivers of session_driver.py and their

\* threads interleave: what was sent was counted in the ledger file before, so
\* the caps hold for it; an `ask` that exits with 0 has sent every question; and
\* a cap-test passes only with the question after the hourly limit.
THEOREM EveryRequestIsCounted == DriverSpec => []SentIsCounted
<1>1. DriverInv /\ [DriverNext]_driving => DriverInv'
  BY DriverSteps
<1> QED
  BY DriverStart, <1>1, CountedInFile, PTL DEF DriverSpec
=============================================================================

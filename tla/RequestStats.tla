---------------------------- MODULE RequestStats ----------------------------
(***************************************************************************)
(* The request statistics of one Proxy account in MySQL and their CSV      *)
(* export (proxy/src/db/mysqlStorage.ts, shared/src/export.ts).  A record  *)
(* is stamped before its connection is leased and inserted later, each     *)
(* recorder prunes after its insert, and the replicas' recorders           *)
(* interleave.  A row is its (requested_at, id), a number.                 *)
(***************************************************************************)
EXTENDS Naturals, Sequences, FiniteSets

CONSTANTS
    Recorders,      \* calls of recordRequestStat that may run at once
    StatsLimit,     \* requestStatsPerAccountLimit
    PageRows,       \* pageSize of the export's reads
    MaxStamps       \* bound on the recorded requests

ASSUME StatsAssumption == StatsLimit \in Nat /\ PageRows \in Nat \ {0} /\ MaxStamps \in Nat

VARIABLES
    statRows,       \* proxy_request_stats of the account
    stamp,          \* the newest requested_at
    recorder,       \* recorder -> [at, row]
    export          \* the CSV export: [at, snapshot, page, sent]

statVars == <<statRows, stamp, recorder, export>>

StatsInit ==
    /\ statRows = {} /\ stamp = 0
    /\ recorder = [r \in Recorders |-> [at |-> "idle", row |-> 0]]
    /\ export = [at |-> "idle", snapshot |-> {}, page |-> 0, sent |-> <<>>]

Newer(S, row) == {x \in S : x > row}

NewerFirst(S) == [i \in 1..Cardinality(S) |-> CHOOSE row \in S : Cardinality(Newer(S, row)) = i - 1]

Retained(S) == {row \in S : Cardinality(Newer(S, row)) < StatsLimit}

-----------------------------------------------------------------------------
recordRequestStat(r) ==
    /\ recorder[r].at = "idle" /\ stamp < MaxStamps
    /\ stamp' = stamp + 1
    /\ recorder' = [recorder EXCEPT ![r] = [at |-> "stamped", row |-> stamp + 1]]
    /\ UNCHANGED <<statRows, export>>

InsertStat(r) ==
    /\ recorder[r].at = "stamped"
    /\ statRows' = statRows \cup {recorder[r].row}
    /\ recorder' = [recorder EXCEPT ![r].at = "pruning"]
    /\ UNCHANGED <<stamp, export>>

pruneStats(r) ==
    /\ recorder[r].at = "pruning"
    /\ statRows' = Retained(statRows)
    /\ recorder' = [recorder EXCEPT ![r].at = "idle"]
    /\ UNCHANGED <<stamp, export>>

\* The connection is lost, or the statement times out, before the statement ran.
RecordFails(r) ==
    /\ recorder[r].at \in {"stamped", "pruning"}
    /\ recorder' = [recorder EXCEPT ![r].at = "idle"]
    /\ UNCHANGED <<statRows, stamp, export>>

\* A replica starts.
pruneAllRequestStats ==
    /\ statRows' = Retained(statRows)
    /\ UNCHANGED <<stamp, recorder, export>>

\* deleteAccount and deleteAccountsBySsoUser, one transaction each.
DeleteStats ==
    /\ statRows' = {}
    /\ UNCHANGED <<stamp, recorder, export>>

-----------------------------------------------------------------------------
Lesser(a, b) == IF a < b THEN a ELSE b
Greater(a, b) == IF a > b THEN a ELSE b

\* A page past the end is the last one.
listRequestStatsPage(S, asked) ==
    LET total == Cardinality(S)
        page == Lesser(asked, Greater(1, (total + PageRows - 1) \div PageRows))
    IN  [page |-> page, total |-> total,
         items |-> SubSeq(NewerFirst(S), (page - 1) * PageRows + 1, Lesser(page * PageRows, total))]

withReadSnapshot ==
    /\ export.at = "idle"
    /\ export' = [at |-> "reading", snapshot |-> statRows, page |-> 1, sent |-> <<>>]
    /\ UNCHANGED <<statRows, stamp, recorder>>

Exported(result) ==
    IF result.page # export.page THEN [export EXCEPT !.at = "destroyed"]
    ELSE [export EXCEPT !.sent = @ \o result.items, !.page = @ + 1,
                        !.at = IF export.page * PageRows >= result.total THEN "done" ELSE @]

ExportPage ==
    /\ export.at = "reading"
    /\ export' = Exported(listRequestStatsPage(export.snapshot, export.page))
    /\ UNCHANGED <<statRows, stamp, recorder>>

ExportAborted ==
    /\ export.at = "reading"
    /\ export' = [export EXCEPT !.at = "destroyed"]
    /\ UNCHANGED <<statRows, stamp, recorder>>

StatsNext ==
    \/ \E r \in Recorders : recordRequestStat(r) \/ InsertStat(r) \/ pruneStats(r) \/ RecordFails(r)
    \/ pruneAllRequestStats \/ DeleteStats
    \/ withReadSnapshot \/ ExportPage \/ ExportAborted

-----------------------------------------------------------------------------
\* A finished export is the table at one moment, every row once and newest first,
\* although rows are inserted and pruned between its pages.
ExportIsOneTable == export.at = "done" => export.sent = NewerFirst(export.snapshot)

\* A row is only ever pruned when StatsLimit newer ones stay, whoever prunes and in
\* whatever order the stamped rows were inserted.
NewestStatsStay ==
    [][ (statRows' # {}) => \A row \in statRows \ statRows' :
            Cardinality(Newer(statRows', row)) >= StatsLimit ]_statVars
=============================================================================

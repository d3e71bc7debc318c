------------------------------ MODULE ServiceDb ------------------------------
(***************************************************************************)
(* The SQLite databases of SSO, Login and Proxy on their way from the      *)
(* single-enterprise schema (sso and login db/migrations.ts, proxy         *)
(* db/migrations.ts and db/enterpriseMigrations.ts, shared                 *)
(* sqliteService.ts).  An opener runs the baseline, whose statements       *)
(* commit one by one, then the steps, each in an immediate transaction     *)
(* with its record, and then the check of the enterprises.  Openers may    *)
(* overlap (a restart, a rolling deployment) and may die between any two   *)
(* statements; an open transaction is then rolled back.                    *)
(*                                                                         *)
(* A table is the set of its rows; `owned` are the rows whose              *)
(* enterprise_id is set.  The rows of `children` reference a table.        *)
(***************************************************************************)
EXTENDS Naturals, SequencesExt

CONSTANTS Openers,        \* the processes that open the database
          DefaultPrint,   \* per opener: the fingerprint of its default enterprise
          DbRows          \* the rows a table may have

VARIABLES service,    \* whose database this is
          version,    \* schema_migrations: the tables whose step is recorded
          dbRows,     \* per table: its rows
          owned,      \* per table: the rows with an enterprise
          children,   \* per table: the rows that reference it from another table
          dbToken,    \* proxy: the credential of the account
          pendingPlan,\* sso: whether a plan row of the old format is still pending
          seatColumn, \* sso: whether the plan rows have the seat column
          print,      \* the stored fingerprint, or "" when there is no row
          opener      \* per opener: its position, and what it read

dbVars == <<service, version, dbRows, owned, children, dbToken, pendingPlan, seatColumn, print, opener>>

DbTables == {"enterprises", "users", "settings", "budgets", "plans", "tasks", "accounts", "stats", "pool"}

(***************************************************************************)
(* What an opener runs: the statements of the baseline, the steps (a table *)
(* whose rows get their enterprise, and whether it is rebuilt, which drops *)
(* the old table) and the check of the enterprises.                        *)
(***************************************************************************)
DbOp(op, table, rebuilt) == [op |-> op, table |-> table, rebuilt |-> rebuilt]
OpenStep(table) == DbOp("step", table, FALSE)
RebuildStep(table) == DbOp("step", table, TRUE)
Other(op) == DbOp(op, "enterprises", FALSE)

SsoProgram ==
    << Other("seat column"), Other("seat conflicts"), OpenStep("enterprises"), RebuildStep("users"),
       RebuildStep("settings"), RebuildStep("budgets"), RebuildStep("plans"), Other("sync") >>

LoginProgram == << Other("attempts"), OpenStep("enterprises"), OpenStep("tasks"), Other("sync") >>

(* The pool tables follow when the pool store is opened. *)
ProxyProgram ==
    << Other("oauth read"), Other("oauth write"), OpenStep("enterprises"), OpenStep("accounts"), OpenStep("stats"),
       Other("sync"), OpenStep("pool") >>

Program == CASE service = "sso" -> SsoProgram
             [] service = "login" -> LoginProgram
             [] service = "proxy" -> ProxyProgram

Doing(o, op) == opener[o].at \in DOMAIN Program /\ Program[opener[o].at].op = op
Serving(o) == opener[o].at = Len(Program) + 1
\* The tables of the service that hold rows of an enterprise.
OwnedTables == {Program[i].table : i \in DOMAIN Program} \ {"enterprises"}

Advance(o) == opener' = [opener EXCEPT ![o].at = @ + 1]
CloseDb(o) == opener' = [opener EXCEPT ![o] = [at |-> 0, legacy |-> FALSE]]

DbInit ==
    /\ service \in {"sso", "login", "proxy"}
    /\ version = {}
    /\ dbRows = [t \in DbTables |-> IF t = "enterprises" THEN {} ELSE DbRows]
    /\ owned = [t \in DbTables |-> {}]
    /\ children = [t \in DbTables |-> IF t \in {"users", "plans"} THEN DbRows ELSE {}]
    /\ dbToken = "legacy"
    /\ pendingPlan = TRUE
    /\ seatColumn = FALSE
    /\ print = ""
    /\ opener = [o \in Openers |-> [at |-> 0, legacy |-> FALSE]]

(* openServiceDb: foreign keys are on. *)
OpenDb(o) ==
    /\ opener[o].at = 0
    /\ opener' = [opener EXCEPT ![o].at = 1]
    /\ UNCHANGED <<service, version, dbRows, owned, children, dbToken, pendingPlan, seatColumn, print>>

OpenerDies(o) ==
    /\ opener[o].at # 0
    /\ CloseDb(o)
    /\ UNCHANGED <<service, version, dbRows, owned, children, dbToken, pendingPlan, seatColumn, print>>

(***************************************************************************)
(* The baseline of SSO: the column is added in one statement and the plans *)
(* made without it are refused in the next, by the opener that added it.   *)
(* One that dies in between leaves them pending for ever.                  *)
(***************************************************************************)
AddSeatColumn(o) ==
    /\ Doing(o, "seat column")
    /\ seatColumn' = TRUE
    /\ opener' = [opener EXCEPT ![o] = [at |-> @.at + 1, legacy |-> ~seatColumn]]
    /\ UNCHANGED <<service, version, dbRows, owned, children, dbToken, pendingPlan, print>>

RefuseOldPlans(o) ==
    /\ Doing(o, "seat conflicts")
    /\ pendingPlan' = (pendingPlan /\ ~opener[o].legacy)
    /\ Advance(o)
    /\ UNCHANGED <<service, version, dbRows, owned, children, dbToken, seatColumn, print>>

(* The baseline of Login: INSERT OR IGNORE of an attempt per old task. *)
BackfillAttempts(o) ==
    /\ Doing(o, "attempts")
    /\ children' = [children EXCEPT !["tasks"] = dbRows["tasks"]]
    /\ Advance(o)
    /\ UNCHANGED <<service, version, dbRows, owned, dbToken, pendingPlan, seatColumn, print>>

(***************************************************************************)
(* migrateCopilotOauthCredentials: the record and the columns are read     *)
(* before the transaction that copies the table without its credentials.   *)
(***************************************************************************)
ReadOauthSchema(o) ==
    /\ Doing(o, "oauth read")
    /\ opener' = [opener EXCEPT ![o] = [at |-> @.at + 1, legacy |-> "oauth" \notin version]]
    /\ UNCHANGED <<service, version, dbRows, owned, children, dbToken, pendingPlan, seatColumn, print>>

(* The INSERT of a record that is there by now fails, and the copy with it. *)
CopyWithoutCredentials(o) ==
    /\ Doing(o, "oauth write")
    /\ IF opener[o].legacy /\ "oauth" \in version
       THEN CloseDb(o) /\ UNCHANGED <<version, dbToken>>
       ELSE /\ version' = IF opener[o].legacy THEN version \cup {"oauth"} ELSE version
            /\ dbToken' = IF opener[o].legacy THEN "missing" ELSE dbToken
            /\ Advance(o)
    /\ UNCHANGED <<service, dbRows, owned, children, pendingPlan, seatColumn, print>>

(***************************************************************************)
(* rebuildTable inside applyStep: all rows are copied and the old table is *)
(* dropped.  With foreign keys on, the drop would delete its rows and      *)
(* cascade into the tables that reference it.                              *)
(***************************************************************************)

RebuiltChildren(step) == children[step.table]

(* A step and its record commit together, unless the record is there. *)
applyStep(o) ==
    /\ Doing(o, "step")
    /\ LET step == Program[opener[o].at] IN
       IF step.table \in version
       THEN UNCHANGED <<version, owned, children, print>>
       ELSE /\ version' = version \cup {step.table}
            /\ print' = IF step.table = "enterprises" /\ print = "" THEN DefaultPrint[o] ELSE print
            /\ owned' = [owned EXCEPT ![step.table] = dbRows[step.table]]
            /\ children' = [children EXCEPT ![step.table] = RebuiltChildren(step)]
    /\ Advance(o)
    /\ UNCHANGED <<service, dbRows, dbToken, pendingPlan, seatColumn>>

(***************************************************************************)
(* syncEnterprises, one immediate transaction: the row is inserted, or     *)
(* follows the configuration while nothing depends on it.                  *)
(***************************************************************************)
InUse == \E t \in OwnedTables \cap {"users", "tasks", "pool"} : dbRows[t] # {}

syncEnterprises(o) ==
    /\ Doing(o, "sync")
    /\ IF print \notin {"", DefaultPrint[o]} /\ InUse
       THEN CloseDb(o) /\ UNCHANGED print
       ELSE print' = DefaultPrint[o] /\ Advance(o)
    /\ UNCHANGED <<service, version, dbRows, owned, children, dbToken, pendingPlan, seatColumn>>

(* An opener that serves inserts rows with their enterprise, and stores credentials. *)
InsertRow(o, t, row) ==
    /\ Serving(o)
    /\ t \in OwnedTables
    /\ row \notin dbRows[t]
    /\ dbRows' = [dbRows EXCEPT ![t] = @ \cup {row}]
    /\ owned' = [owned EXCEPT ![t] = @ \cup {row}]
    /\ UNCHANGED <<service, version, children, dbToken, pendingPlan, seatColumn, print, opener>>

DeleteRow(o, t, row) ==
    /\ Serving(o)
    /\ t \in OwnedTables
    /\ row \in dbRows[t]
    /\ dbRows' = [dbRows EXCEPT ![t] = @ \ {row}]
    /\ owned' = [owned EXCEPT ![t] = @ \ {row}]
    /\ children' = [children EXCEPT ![t] = @ \ {row}]
    /\ UNCHANGED <<service, version, dbToken, pendingPlan, seatColumn, print, opener>>

StoreToken(o) ==
    /\ Serving(o) /\ service = "proxy"
    /\ dbToken' = "stored"
    /\ UNCHANGED <<service, version, dbRows, owned, children, pendingPlan, seatColumn, print, opener>>

DbNext ==
    \/ \E o \in Openers : OpenDb(o) \/ OpenerDies(o) \/ AddSeatColumn(o) \/ RefuseOldPlans(o) \/ BackfillAttempts(o)
    \/ \E o \in Openers : ReadOauthSchema(o) \/ CopyWithoutCredentials(o) \/ applyStep(o) \/ syncEnterprises(o)
    \/ \E o \in Openers, t \in DbTables, row \in DbRows : InsertRow(o, t, row) \/ DeleteRow(o, t, row)
    \/ \E o \in Openers : StoreToken(o)

(***************************************************************************)
(* Properties                                                              *)
(***************************************************************************)
(* An upgrade loses no data: a row leaves a table, or the table that       *)
(* references it, only when a serving process deletes it, and a credential *)
(* that was stored after the upgrade survives a slower opener's upgrade.   *)
UpgradeKeepsData ==
    [][/\ \A t \in DbTables : children[t] \cap dbRows'[t] \subseteq children'[t]
       /\ \A t \in DbTables : dbRows'[t] # dbRows[t] => \E o \in Openers : Serving(o)
       /\ dbToken = "stored" => dbToken' = "stored"]_dbVars
=============================================================================

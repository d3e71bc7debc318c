--------------------------- MODULE MysqlMigrations ---------------------------
(***************************************************************************)
(* The upgrade of a single-enterprise (r4) Proxy database in MySQL by      *)
(* replicas that start at the same time (db/mysqlMigrations.ts,            *)
(* db/mysqlMigrationLock.ts, db/mysqlEnterpriseMigrations.ts,              *)
(* userPool/mysqlMigrations.ts and the opening of the pool store).  MySQL  *)
(* commits every DDL statement, so a replica that dies leaves any prefix   *)
(* of its statements behind; a named lock of its connection keeps other    *)
(* replicas out, but not the r4 replicas that still serve, nor the         *)
(* upgraded ones that already do.                                          *)
(*                                                                         *)
(* A replica runs the statements of Script in order; started[r] is the     *)
(* position of the next one, 0 while r is down.                            *)
(***************************************************************************)
EXTENDS Naturals, SequencesExt

CONSTANTS Replicas,      \* the upgraded Proxy replicas
          Identity,      \* per replica: the fingerprint of its enterprise profile
          PoolConfig,    \* per replica: the pool settings all replicas must share
          Registered,    \* per replica: the enterprises of its registry, "default" first
          MaxMembers,    \* bound on the pool members of an enterprise
          NoReplica, NoRow

MigratedEnterprises == {"default", "other"}

Pending == "pending"     \* the fingerprint the administrator's script leaves

(* No row is told apart from every row of the two tables. *)
ASSUME UpgradeAssumption ==
    /\ NoRow \notin [print: {Pending} \cup {Identity[r] : r \in Replicas}, count: Nat]
    /\ NoRow \notin [algorithm: {"r4", "r5"}, config: {PoolConfig[r] : r \in Replicas}]

VARIABLES schema,      \* the schema changes that are applied
          recorded,    \* the ids in schema_migrations
          enterpriseRow, \* proxy_enterprises: fingerprint and inventory_count, or NoRow
          members,     \* the rows of user_pool_accounts of each enterprise
          unowned,     \* whether some pool event has no enterprise_id
          poolSettings,    \* the stored pool fingerprint: algorithm and configuration, or NoRow
          lock,        \* the replica whose connection holds the migration lock
          started,     \* the position of a replica in Script
          seen         \* what a replica read: the recorded ids, a row

upgradeVars == <<schema, recorded, enterpriseRow, members, unowned, poolSettings, lock, started, seen>>

(***************************************************************************)
(* The steps and their statements                                          *)
(***************************************************************************)
MigrationStep(id, changes) == [id |-> id, changes |-> changes]

EnterprisesStep == MigrationStep("createEnterprises", <<"enterprises">>)
DefaultStep == MigrationStep("seedDefault", <<"default row">>)
AccountsStep ==
    MigrationStep("accounts", <<"accounts column", "accounts unique", "accounts index", "accounts foreign">>)
AccountGuardsStep == MigrationStep("accountGuards", <<"accounts required">>)
StatsStep ==
    MigrationStep("initializationsAndStats", <<"claims column", "claims index", "claims required",
                                               "stats column", "stats index", "stats required">>)
PoolAccountsStep ==
    MigrationStep("poolAccounts", <<"members column", "members index", "members foreign", "members required">>)
PoolEventsStep == MigrationStep("poolEvents", <<"events column", "events backfill", "events index">>)

BaseSteps == <<EnterprisesStep, DefaultStep, AccountsStep, AccountGuardsStep, StatsStep>>
PoolSteps == <<PoolAccountsStep, PoolEventsStep>>

Steps == BaseSteps \o PoolSteps
Ids(steps) == {steps[i].id : i \in DOMAIN steps}
Changes(steps) == UNION {ToSet(steps[i].changes) : i \in DOMAIN steps}
\* The changes whose trace is data: they are looked up in the rows.
DataChanges == {"default row", "events backfill"}

Statement(op, id, what) == [op |-> op, id |-> id, what |-> what]
Lone(op) == <<Statement(op, "none", "none")>>
Each(step) == [k \in DOMAIN step.changes |-> Statement("change", step.id, step.changes[k])]

(* Recording a step before its statements, as a bug would. *)
StepStatementsRecordFirst(step) == <<Statement("record", step.id, "none")>> \o Each(step)

(* A step is its changes and then its record. *)
StepStatements(step) == Each(step) \o <<Statement("record", step.id, "none")>>

BaseStatements ==
    StepStatements(BaseSteps[1]) \o StepStatements(BaseSteps[2]) \o StepStatements(BaseSteps[3])
    \o StepStatements(BaseSteps[4]) \o StepStatements(BaseSteps[5])
PoolStatements == StepStatements(PoolSteps[1]) \o StepStatements(PoolSteps[2])

Verify(e) == <<Statement("read", "none", e), Statement("rewrite", "none", e)>>

runMysqlMigrations ==
    Lone("lock") \o Lone("validate base") \o Lone("insert default") \o BaseStatements
    \o Verify("default") \o Lone("unlock")

syncMysqlEnterprises ==
    Lone("lock") \o <<Statement("insert draft", "none", "other")>> \o Verify("other") \o Lone("covers")
    \o Lone("unlock")

runMysqlPoolMigrations ==
    Lone("lock") \o Lone("validate pool") \o Lone("fence") \o PoolStatements
    \o Lone("fingerprint") \o <<Statement("record", "pool", "none")>> \o Lone("unlock")

openPoolStore == Lone("settings") \o Lone("open")

Script == runMysqlMigrations \o syncMysqlEnterprises \o runMysqlPoolMigrations \o openPoolStore

Running(r) == started[r] \in DOMAIN Script
Ready(r) == started[r] = Len(Script) + 1

UpgradeAt(r, op) == Running(r) /\ Script[started[r]].op = op
What(r) == Script[started[r]].what
GoOn(r) == started' = [started EXCEPT ![r] = @ + 1]
Fail(r) ==
    /\ started' = [started EXCEPT ![r] = 0]
    /\ lock' = IF lock = r THEN NoReplica ELSE lock
    /\ seen' = [seen EXCEPT ![r] = [ids |-> {}, row |-> NoRow]]

(***************************************************************************)
(* An r4 database with or without members, or one that the administrator's *)
(* script upgraded, which leaves the default row pending.                  *)
(***************************************************************************)
UpgradeInit ==
    /\ \E prepared \in BOOLEAN :
         /\ schema = IF prepared THEN Changes(Steps) \ DataChanges ELSE {}
         /\ recorded = IF prepared THEN Ids(Steps) ELSE {}
         /\ enterpriseRow = [e \in MigratedEnterprises |->
                               IF prepared /\ e = "default" THEN [print |-> Pending, count |-> 0] ELSE NoRow]
         /\ unowned = ~prepared
    /\ \E n \in 0..1 : members = [e \in MigratedEnterprises |-> IF e = "default" THEN n ELSE 0]
    /\ poolSettings \in {NoRow} \cup {[algorithm |-> "r4", config |-> c] : c \in {PoolConfig[r] : r \in Replicas}}
    /\ lock = NoReplica
    /\ started = [r \in Replicas |-> 0]
    /\ seen = [r \in Replicas |-> [ids |-> {}, row |-> NoRow]]

Start(r) ==
    /\ started[r] = 0
    /\ started' = [started EXCEPT ![r] = 1]
    /\ UNCHANGED <<schema, recorded, enterpriseRow, members, unowned, poolSettings, lock, seen>>

(***************************************************************************)
(* withMysqlMigrationLock.  A wait that times out, or whose answer is      *)
(* lost, ends the start of the replica; the connection is destroyed with   *)
(* the lock that it may hold.                                              *)
(***************************************************************************)
Lock(r) ==
    /\ UpgradeAt(r, "lock")
    /\ \/ lock = NoReplica /\ lock' = r /\ GoOn(r) /\ UNCHANGED seen
       \/ Fail(r)
    /\ UNCHANGED <<schema, recorded, enterpriseRow, members, unowned, poolSettings>>

UnlockUpgrade(r) ==
    /\ UpgradeAt(r, "unlock")
    /\ lock' = NoReplica
    /\ GoOn(r)
    /\ UNCHANGED <<schema, recorded, enterpriseRow, members, unowned, poolSettings, seen>>

(* The process dies, the connection is lost or the deadline passes. *)
Crash(r) ==
    /\ started[r] # 0
    /\ Fail(r)
    /\ UNCHANGED <<schema, recorded, enterpriseRow, members, unowned, poolSettings>>

(***************************************************************************)
(* validateMysqlSchema: once all steps are recorded, every part must be    *)
(* there; before that the parts of the upgrade may be missing.  The set of *)
(* recorded ids is read now and used for all the steps.                    *)
(***************************************************************************)
Validates(r, op, steps) ==
    /\ UpgradeAt(r, op)
    /\ IF Ids(steps) \subseteq recorded /\ ~(Changes(steps) \ DataChanges \subseteq schema)
       THEN Fail(r)
       ELSE GoOn(r) /\ seen' = [seen EXCEPT ![r].ids = recorded] /\ UNCHANGED lock
    /\ UNCHANGED <<schema, recorded, enterpriseRow, members, unowned, poolSettings>>

ValidateBase(r) == Validates(r, "validate base", BaseSteps)
ValidatePool(r) == Validates(r, "validate pool", PoolSteps)

(* isApplied of a change. *)
IsApplied(change) ==
    CASE change = "default row" -> enterpriseRow["default"] # NoRow
      [] change = "events backfill" -> ~unowned
      [] OTHER -> change \in schema

(***************************************************************************)
(* applyChanges: a statement is run unless its effect is there already;    *)
(* the statements of a recorded step are skipped.                          *)
(***************************************************************************)
ApplyChange(r) ==
    /\ UpgradeAt(r, "change")
    /\ IF Script[started[r]].id \in seen[r].ids \/ IsApplied(What(r))
       THEN UNCHANGED <<schema, enterpriseRow, unowned>>
       ELSE /\ schema' = schema \cup ({What(r)} \ DataChanges)
            /\ enterpriseRow' = IF What(r) = "default row"
                                THEN [enterpriseRow EXCEPT !["default"] = [print |-> Pending, count |-> 0]]
                                ELSE enterpriseRow
            /\ unowned' = (unowned /\ What(r) # "events backfill")
    /\ GoOn(r)
    /\ UNCHANGED <<recorded, members, poolSettings, lock, seen>>

recordMigration(r) ==
    /\ UpgradeAt(r, "record")
    /\ recorded' = recorded \cup {Script[started[r]].id}
    /\ GoOn(r)
    /\ UNCHANGED <<schema, enterpriseRow, members, unowned, poolSettings, lock, seen>>

(* INSERT IGNORE of the default enterprise, counted from the pool's rows. *)
InsertDefault(r) ==
    /\ UpgradeAt(r, "insert default")
    /\ schema' = schema \cup {"enterprises"}
    /\ enterpriseRow' = IF enterpriseRow["default"] # NoRow THEN enterpriseRow
                        ELSE [enterpriseRow EXCEPT !["default"] =
                                [print |-> Identity[r], count |-> members["default"]]]
    /\ GoOn(r)
    /\ UNCHANGED <<recorded, members, unowned, poolSettings, lock, seen>>

InsertDraft(r) ==
    /\ UpgradeAt(r, "insert draft")
    /\ enterpriseRow' = IF What(r) \notin Registered[r] \/ enterpriseRow[What(r)] # NoRow THEN enterpriseRow
                        ELSE [enterpriseRow EXCEPT ![What(r)] = [print |-> Identity[r], count |-> 0]]
    /\ GoOn(r)
    /\ UNCHANGED <<schema, recorded, members, unowned, poolSettings, lock, seen>>

(***************************************************************************)
(* verifyDefaultEnterprise and verifyIdentity: the row is read, and only   *)
(* then written; an enterprise with members keeps its fingerprint.         *)
(***************************************************************************)
ReadRow(r) ==
    /\ UpgradeAt(r, "read")
    /\ seen' = [seen EXCEPT ![r].row = IF What(r) \in Registered[r] THEN enterpriseRow[What(r)] ELSE NoRow]
    /\ GoOn(r)
    /\ UNCHANGED <<schema, recorded, enterpriseRow, members, unowned, poolSettings, lock>>

(* UPDATE ... WHERE id = ? AND inventory_count = 0. *)

Rewritten(e, print) ==
    IF enterpriseRow[e].count = 0 THEN [enterpriseRow EXCEPT ![e].print = print] ELSE enterpriseRow

(* completePendingEnterprise: UPDATE ... WHERE profile_fingerprint = ''. *)
Completed(e, print) ==
    IF enterpriseRow[e].print # Pending THEN enterpriseRow
    ELSE [enterpriseRow EXCEPT ![e] = [print |-> print, count |-> members[e]]]

RewriteRow(r) ==
    /\ UpgradeAt(r, "rewrite")
    /\ LET row == seen[r].row IN
       IF row # NoRow /\ row.print \notin {Pending, Identity[r]} /\ row.count > 0
       THEN Fail(r) /\ UNCHANGED enterpriseRow
       ELSE /\ enterpriseRow' = IF row = NoRow \/ row.print = Identity[r] THEN enterpriseRow
                                ELSE IF row.print = Pending THEN Completed(What(r), Identity[r])
                                ELSE Rewritten(What(r), Identity[r])
            /\ GoOn(r)
            /\ UNCHANGED <<lock, seen>>
    /\ UNCHANGED <<schema, recorded, members, unowned, poolSettings>>

(* assertRegistryCoversEnterprises. *)
RegistryCovers(r) ==
    /\ UpgradeAt(r, "covers")
    /\ IF \E e \in MigratedEnterprises \ Registered[r] :
            enterpriseRow[e] # NoRow /\ (enterpriseRow[e].count > 0 \/ members[e] > 0)
       THEN Fail(r)
       ELSE GoOn(r) /\ UNCHANGED <<lock, seen>>
    /\ UNCHANGED <<schema, recorded, enterpriseRow, members, unowned, poolSettings>>

(***************************************************************************)
(* runMysqlPoolMigrations: a fence that was installed once must be there.  *)
(***************************************************************************)
InstallFence(r) ==
    /\ UpgradeAt(r, "fence")
    /\ IF "pool" \in seen[r].ids /\ "fence" \notin schema
       THEN Fail(r) /\ UNCHANGED schema
       ELSE schema' = schema \cup {"fence"} /\ GoOn(r) /\ UNCHANGED <<lock, seen>>
    /\ UNCHANGED <<recorded, enterpriseRow, members, unowned, poolSettings>>

(* Step 08: the stored fingerprint of the same configuration is rewritten; a different one refuses. *)
migratePoolConfigFingerprint(r) ==
    /\ UpgradeAt(r, "fingerprint")
    /\ IF "fingerprint" \notin recorded /\ poolSettings # NoRow /\ poolSettings.config # PoolConfig[r]
       THEN Fail(r) /\ UNCHANGED <<poolSettings, recorded>>
       ELSE /\ poolSettings' = IF poolSettings = NoRow \/ "fingerprint" \in recorded THEN poolSettings
                           ELSE [poolSettings EXCEPT !.algorithm = "r5"]
            /\ recorded' = recorded \cup {"fingerprint"}
            /\ GoOn(r)
            /\ UNCHANGED <<lock, seen>>
    /\ UNCHANGED <<schema, enterpriseRow, members, unowned>>

(* MysqlPoolStore.initialize: INSERT IGNORE of the settings, outside the lock. *)
InsertSettings(r) ==
    /\ UpgradeAt(r, "settings")
    /\ poolSettings' = IF poolSettings # NoRow THEN poolSettings ELSE [algorithm |-> "r5", config |-> PoolConfig[r]]
    /\ GoOn(r)
    /\ UNCHANGED <<schema, recorded, enterpriseRow, members, unowned, lock, seen>>

(* Its transaction: the configuration must agree, and inventory_count is recounted. *)
OpenStore(r) ==
    /\ UpgradeAt(r, "open")
    /\ IF poolSettings # [algorithm |-> "r5", config |-> PoolConfig[r]]
       THEN Fail(r) /\ UNCHANGED enterpriseRow
       ELSE /\ enterpriseRow' = [e \in MigratedEnterprises |->
                                   IF enterpriseRow[e] = NoRow THEN NoRow
                                   ELSE [enterpriseRow[e] EXCEPT !.count = members[e]]]
            /\ GoOn(r)
            /\ UNCHANGED <<lock, seen>>
    /\ UNCHANGED <<schema, recorded, members, unowned, poolSettings>>

(***************************************************************************)
(* Replicas that serve                                                     *)
(***************************************************************************)
(* An upgraded one adds a member and counts it in one transaction. *)
AddMember(r, e) ==
    /\ Ready(r)
    /\ e \in Registered[r] /\ enterpriseRow[e] # NoRow /\ members[e] < MaxMembers
    /\ members' = [members EXCEPT ![e] = @ + 1]
    /\ enterpriseRow' = [enterpriseRow EXCEPT ![e].count = @ + 1]
    /\ UNCHANGED <<schema, recorded, unowned, poolSettings, lock, started, seen>>

(* An r4 replica inserts without enterprise_id: refused once the temporary default is dropped. *)
OldAddsMember ==
    /\ "members required" \notin schema
    /\ members["default"] < MaxMembers
    /\ members' = [members EXCEPT !["default"] = @ + 1]
    /\ UNCHANGED <<schema, recorded, enterpriseRow, unowned, poolSettings, lock, started, seen>>

(* Events keep a nullable column, so an r4 replica, or a global event, leaves it empty. *)
WriteEvent ==
    /\ ~unowned
    /\ unowned' = TRUE
    /\ UNCHANGED <<schema, recorded, enterpriseRow, members, poolSettings, lock, started, seen>>

UpgradeNext ==
    \/ \E r \in Replicas : Start(r) \/ Lock(r) \/ UnlockUpgrade(r) \/ Crash(r) \/ ValidateBase(r) \/ ValidatePool(r)
    \/ \E r \in Replicas : ApplyChange(r) \/ recordMigration(r) \/ InsertDefault(r) \/ InsertDraft(r)
    \/ \E r \in Replicas : ReadRow(r) \/ RewriteRow(r) \/ RegistryCovers(r) \/ InstallFence(r)
    \/ \E r \in Replicas : migratePoolConfigFingerprint(r) \/ InsertSettings(r) \/ OpenStore(r)
    \/ \E r \in Replicas, e \in MigratedEnterprises : AddMember(r, e)
    \/ OldAddsMember
    \/ WriteEvent

(***************************************************************************)
(* Properties                                                              *)
(***************************************************************************)
(* A recorded step is applied in full, whichever replicas died on the way. *)
RecordedMeansApplied ==
    \A i \in DOMAIN Steps :
        Steps[i].id \in recorded => ToSet(Steps[i].changes) \ DataChanges \subseteq schema

(* Once a replica serves, the counters the caps rest on agree with the rows: *)
(* the r4 replicas, which do not count, are shut out before the recount.     *)
InventoryAgrees ==
    (\E r \in Replicas : Ready(r)) =>
        \A e \in MigratedEnterprises : enterpriseRow[e] # NoRow => enterpriseRow[e].count = members[e]

(* Replicas that serve at the same time share one pool configuration. *)
ReplicasAgree == \A r, s \in Replicas : Ready(r) /\ Ready(s) => PoolConfig[r] = PoolConfig[s]

(* An enterprise with counted members never changes its identity, even when the *)
(* member is added between the check of a starting replica and its UPDATE.      *)
IdentityIsFixed ==
    [][\A e \in MigratedEnterprises :
         enterpriseRow[e] # NoRow /\ enterpriseRow[e].count > 0 =>
             enterpriseRow'[e].print = enterpriseRow[e].print \/ enterpriseRow[e].print = Pending]_upgradeVars
=============================================================================

----------------------------- MODULE PoolImport -----------------------------
(***************************************************************************)
(* The offline tools of upgrade/user-pool-mysql: the import of a pool from *)
(* a SQLite backup into MySQL (migrate.ts), the preparation of a legacy    *)
(* backup (legacy-copy.ts) and the change of the concurrency options of an *)
(* existing pool (reconfigure-concurrency.ts).  Several runs of the import *)
(* may overlap, a Proxy may be started on the target too early, statements *)
(* fail, and the answers of GET_LOCK, COMMIT and ROLLBACK can be lost.     *)
(*                                                                         *)
(* A backup is a record of what the validation tells apart.  The target is *)
(* its settings row and `history`, the origins of its rows in commit       *)
(* order; the uncommitted rows of a run are `copied` tables.               *)
(***************************************************************************)
EXTENDS Naturals, Sequences

CONSTANTS Imports,       \* the runs of the import tool
          Backups,       \* the backups they may be given
          CopyTables,    \* how many tables a run copies
          NoSettings,    \* the target has no settings row
          NoHolder       \* nobody holds the lock

\* What the validation tells apart of a backup, and the settings row of a target.
BackupRecord ==
    [journal: STRING, shape: {"single", "multi", "unsupported"}, fence: BOOLEAN,
     enterprises: SUBSET {"default", "other"}, counter: Nat,
     state: STRING, stage: STRING, oauth: STRING, uncertain: BOOLEAN, evidence: BOOLEAN,
     paused: BOOLEAN, live: BOOLEAN, holds: BOOLEAN, identity: STRING]
TargetRow == [version: Nat, paused: BOOLEAN, owner: BOOLEAN, print: {"old", "new"}]

ASSUME PoolImportAssumption ==
    /\ CopyTables \in Nat \ {0}
    /\ Imports \cap {"proxy", "tool"} = {}
    /\ NoHolder \notin Imports \cup {"proxy", "tool"}
    /\ Backups \subseteq BackupRecord
    /\ NoSettings \notin TargetRow

VARIABLES backup,    \* per run: the file it was given
          import,    \* per run: [at, copied, damaged]
          report,    \* per run: what it told the operator
          namedLock, \* the holder of ghcp_user_pool_offline_import
          target,    \* the settings row of the target
          history,   \* the origins of the rows of the target
          rowLocks,  \* the transaction that holds the settings row FOR UPDATE
          early,     \* the Proxy started on the target: "down", "up" or "owner"
          tool,      \* reconfigure-concurrency: its position
          told,      \* reconfigure-concurrency: its answer
          legacy     \* legacy-copy: [at, source, read, output]

poolImportVars == <<backup, import, report, namedLock, target, history, rowLocks, early, tool, told, legacy>>

Seed == [version |-> 1, paused |-> FALSE, owner |-> FALSE, print |-> "old"]

PoolImportInit ==
    /\ backup \in [Imports -> Backups]
    /\ import = [t \in Imports |-> [at |-> "start", copied |-> 0, damaged |-> FALSE]]
    /\ report = [t \in Imports |-> "none"]
    /\ namedLock = NoHolder /\ rowLocks = NoHolder
    /\ target = NoSettings /\ history = << >>
    /\ early = "down" /\ tool = "idle" /\ told = "none"
    /\ legacy = [at |-> "start", source |-> 1, read |-> 0, output |-> "absent"]

---------------------------------------------------------------------------
(* The validation of the backup. *)

Standalone(b) == b.journal = "rollback"

\* sourceShape, guardsMatch and readTable: the exact schema of the one or the other shape.
SchemaSupported(b) == b.shape \in {"single", "multi"} /\ b.fence

\* A migrated source has the one default enterprise, whose counter counts its members.
EnterprisesValid(b) == b.shape = "multi" => b.enterprises = {"default"} /\ b.counter = 1

\* Ready members must be proven, and a task or attempt is history only of a proven member.
Proven(b) == b.state \in {"ready", "cooling"} /\ b.stage = "ready" /\ b.oauth = "valid"

MembersSettled(b) ==
    /\ b.state \in {"ready", "cooling", "failed", "disabled"}
    /\ b.oauth # "refreshing" /\ ~b.uncertain
    /\ b.state \in {"ready", "cooling"} => Proven(b)
    /\ b.evidence => Proven(b)

PoolDrained(b) == b.paused /\ ~b.live /\ ~b.holds

ReadSnapshot(b) ==
    Standalone(b) /\ SchemaSupported(b) /\ EnterprisesValid(b) /\ PoolDrained(b) /\ MembersSettled(b)

\* Every member of a single-enterprise source is given to the default enterprise.
WithEnterprises(b) == [b EXCEPT !.shape = "multi", !.enterprises = {"default"}, !.counter = 1]

\* deploymentConfig and deploymentEnterprise: the identity the deployment would start with.
SourceIdentity(b) == b.shape = "multi" => b.identity = "deployment"

---------------------------------------------------------------------------
(* The import. *)

GotoImport(t, at) == import' = [import EXCEPT ![t].at = at]
Refuse(t) == GotoImport(t, "release") /\ report' = [report EXCEPT ![t] = "failed"]

ImportStart(t) ==
    /\ import[t].at = "start"
    /\ IF ReadSnapshot(backup[t]) /\ SourceIdentity(backup[t])
       THEN /\ GotoImport(t, "lock") /\ backup' = [backup EXCEPT ![t] = WithEnterprises(@)]
            /\ UNCHANGED report
       ELSE Refuse(t) /\ UNCHANGED backup
    /\ UNCHANGED <<namedLock, target, history, rowLocks, early, tool, told, legacy>>

\* A lost answer may hide an acquired lock, so the connection is destroyed, which frees it.
ImportLock(t) ==
    /\ import[t].at = "lock"
    /\ \/ namedLock = NoHolder /\ namedLock' = t /\ GotoImport(t, "inspect") /\ UNCHANGED report
       \/ Refuse(t) /\ UNCHANGED namedLock
    /\ UNCHANGED <<backup, target, history, rowLocks, early, tool, told, legacy>>

\* inspectTarget: no rows, and at most the unused settings of this deployment.
UnusedSettings == target # NoSettings => target = Seed
TargetUnused == history = << >> /\ UnusedSettings

ImportInspect(t) ==
    /\ import[t].at = "inspect"
    /\ IF TargetUnused THEN GotoImport(t, "schema") /\ UNCHANGED report ELSE Refuse(t)
    /\ UNCHANGED <<backup, namedLock, target, history, rowLocks, early, tool, told, legacy>>

\* runMysqlMigrations and MysqlPoolStore.initialize create the seed, or refuse another configuration.
ImportSchema(t) ==
    /\ import[t].at = "schema" /\ rowLocks = NoHolder
    /\ IF target = NoSettings \/ target.print = Seed.print
       THEN target' = (IF target = NoSettings THEN Seed ELSE target) /\ GotoImport(t, "begin") /\ UNCHANGED report
       ELSE Refuse(t) /\ UNCHANGED target
    /\ UNCHANGED <<backup, namedLock, history, rowLocks, early, tool, told, legacy>>

ImportBegin(t) ==
    /\ import[t].at = "begin" /\ rowLocks = NoHolder
    /\ rowLocks' = t /\ GotoImport(t, "again")
    /\ UNCHANGED <<backup, report, namedLock, target, history, early, tool, told, legacy>>

InspectAgainSkipped(t) == TRUE
\* The inspection is repeated under the locks of the transaction.
InspectAgain(t) == TargetUnused /\ target # NoSettings

ImportAgain(t) ==
    /\ import[t].at = "again"
    /\ GotoImport(t, IF InspectAgain(t) THEN "copy" ELSE "rollback")
    /\ UNCHANGED <<backup, report, namedLock, target, history, rowLocks, early, tool, told, legacy>>

\* A batch is written as given, is changed on its way (converted timestamps, collations), or fails.
ImportCopy(t) ==
    /\ import[t].at = "copy" /\ import[t].copied < CopyTables
    /\ \/ \E damaged \in BOOLEAN :
            import' = [import EXCEPT ![t].copied = @ + 1, ![t].damaged = @ \/ damaged]
       \/ GotoImport(t, "rollback")
    /\ UNCHANGED <<backup, report, namedLock, target, history, rowLocks, early, tool, told, legacy>>

\* verify reads every row back and compares it with the snapshot.
ImportVerify(t) ==
    /\ import[t].at = "copy" /\ import[t].copied = CopyTables
    /\ GotoImport(t, IF import[t].damaged THEN "rollback" ELSE "commit")
    /\ UNCHANGED <<backup, report, namedLock, target, history, rowLocks, early, tool, told, legacy>>

\* The settings row of the backup, paused, without an owner and with the fingerprint of initialize.
ImportedSettings == [version |-> 2, paused |-> TRUE, owner |-> FALSE, print |-> target.print]

Commits(t) ==
    /\ target' = ImportedSettings
    /\ history' = Append(history, [by |-> t, rows |-> backup[t], damaged |-> import[t].damaged])

\* A lost answer of COMMIT is reported as unknown, whatever the server did.
CommitReport(answered) == IF answered THEN "done" ELSE "unknown"

ImportCommit(t) ==
    /\ import[t].at = "commit"
    /\ \E committed, answered \in BOOLEAN :
         /\ answered => committed
         /\ IF committed THEN Commits(t) ELSE UNCHANGED <<target, history>>
         /\ report' = [report EXCEPT ![t] = CommitReport(answered)]
         \* the connection of a lost answer is destroyed and with it the named lock
         /\ import' = [import EXCEPT ![t].at = IF answered THEN "release" ELSE "over"]
         /\ namedLock' = IF answered THEN namedLock ELSE NoHolder
    /\ rowLocks' = NoHolder
    /\ UNCHANGED <<backup, early, tool, told, legacy>>

\* The server rolls back; the answer may be lost.
ImportRollback(t) ==
    /\ import[t].at = "rollback"
    /\ rowLocks' = NoHolder
    /\ \/ Refuse(t) /\ UNCHANGED namedLock
       \/ /\ report' = [report EXCEPT ![t] = "unconfirmed"] /\ GotoImport(t, "over")
          /\ namedLock' = NoHolder
    /\ UNCHANGED <<backup, target, history, early, tool, told, legacy>>

\* RELEASE_LOCK, or the end of the connection when it is not confirmed.
ImportRelease(t) ==
    /\ import[t].at = "release"
    /\ namedLock' = IF namedLock = t THEN NoHolder ELSE namedLock
    /\ GotoImport(t, "over")
    /\ UNCHANGED <<backup, report, target, history, rowLocks, early, tool, told, legacy>>

\* The process dies: the server ends its transaction and frees its lock.
ImportDies(t) ==
    /\ import[t].at \notin {"start", "over"}
    /\ GotoImport(t, "over")
    /\ namedLock' = IF namedLock = t THEN NoHolder ELSE namedLock
    /\ rowLocks' = IF rowLocks = t THEN NoHolder ELSE rowLocks
    /\ UNCHANGED <<backup, report, target, history, early, tool, told, legacy>>

---------------------------------------------------------------------------
(* A Proxy on the target, which the operator attested to be stopped. *)

EarlyProxy ==
    /\ rowLocks = NoHolder
    /\ \/ /\ early = "down" /\ early' = "up"
          /\ \E print \in {"old", "new"} :
               /\ target # NoSettings => target.print = print
               /\ target' = IF target = NoSettings THEN [Seed EXCEPT !.print = print] ELSE target
          /\ UNCHANGED history
       \/ /\ early = "up" /\ early' = "owner"
          /\ target' = [target EXCEPT !.owner = TRUE] /\ UNCHANGED history
       \/ /\ early = "owner" /\ ~target.paused /\ Len(history) < 2
          /\ history' = Append(history, [by |-> "proxy", rows |-> "member", damaged |-> FALSE])
          /\ UNCHANGED <<target, early>>
       \/ /\ early # "down" /\ early' = "down"
          /\ target' = [target EXCEPT !.owner = FALSE] /\ UNCHANGED history
    /\ UNCHANGED <<backup, import, report, namedLock, rowLocks, tool, told, legacy>>

---------------------------------------------------------------------------
(* reconfigure-concurrency.ts: one transaction that locks everything. *)

\* explicitConfig and the expected settings: the old fingerprint, a paused pool.
Reconfigurable == target # NoSettings /\ target.paused /\ target.print = "old" /\ ~target.owner

ReconfigureBegin ==
    /\ tool = "idle" /\ rowLocks = NoHolder /\ target # NoSettings
    /\ rowLocks' = "tool" /\ tool' = "checking"
    /\ UNCHANGED <<backup, import, report, namedLock, target, history, early, told, legacy>>

\* Only members that are ready with a proven credential: not the reservations of a Proxy.
ImportedQuiescent ==
    \A i \in DOMAIN history :
        history[i].by # "proxy" /\ history[i].rows.state = "ready" /\ Proven(history[i].rows)

ReconfigureCheck ==
    /\ tool = "checking"
    /\ tool' = IF Reconfigurable /\ ImportedQuiescent THEN "committing" ELSE "rolling back"
    /\ UNCHANGED <<backup, import, report, namedLock, target, history, rowLocks, early, told, legacy>>

ReconfigureCommit ==
    /\ tool = "committing"
    /\ \E committed, answered \in BOOLEAN :
         /\ answered => committed
         /\ target' = IF committed THEN [target EXCEPT !.print = "new"] ELSE target
         /\ told' = CommitReport(answered)
    /\ tool' = "over" /\ rowLocks' = NoHolder
    /\ UNCHANGED <<backup, import, report, namedLock, history, early, legacy>>

ReconfigureRollback ==
    /\ tool = "rolling back"
    /\ \E confirmed \in BOOLEAN : told' = IF confirmed THEN "failed" ELSE "unconfirmed"
    /\ tool' = "over" /\ rowLocks' = NoHolder
    /\ UNCHANGED <<backup, import, report, namedLock, target, history, early, legacy>>

---------------------------------------------------------------------------
(* legacy-copy.ts: a new file with the cooldown table, never the source. *)

\* Existing output paths are refused; the source is read once, into memory.
LegacyRead ==
    /\ legacy.at = "start"
    /\ legacy' = IF legacy.output = "absent" THEN [legacy EXCEPT !.at = "changed", !.read = legacy.source]
                                             ELSE [legacy EXCEPT !.at = "refused"]

\* The table is added in memory; the source must still have the bytes that were read.
SourceUnchanged == legacy.source = legacy.read

\* The file is created exclusively; a crash or a full disk leaves a part of it.
LegacyWrite ==
    /\ legacy.at = "changed"
    /\ \/ SourceUnchanged /\ legacy.output = "absent"
          /\ \/ legacy' = [legacy EXCEPT !.at = "written", !.output = "whole"]
             \/ legacy' = [legacy EXCEPT !.at = "refused", !.output = "part"]
       \/ ~(SourceUnchanged /\ legacy.output = "absent") /\ legacy' = [legacy EXCEPT !.at = "refused"]

\* The importer's own validation of the new file, the rows again, and the source again.
LegacyApprove ==
    /\ legacy.at = "written"
    /\ legacy' = [legacy EXCEPT !.at = IF legacy.output = "whole" /\ SourceUnchanged THEN "approved" ELSE "refused"]

\* A writer changes the source, or another process the output, while the tool runs.
LegacyDisturbed ==
    /\ legacy.at \in {"start", "changed", "written"}
    /\ \/ legacy.source = 1 /\ legacy' = [legacy EXCEPT !.source = 2]
       \/ legacy.output = "absent" /\ legacy' = [legacy EXCEPT !.output = "foreign"]

LegacyStep ==
    /\ LegacyRead \/ LegacyWrite \/ LegacyApprove \/ LegacyDisturbed
    /\ UNCHANGED <<backup, import, report, namedLock, target, history, rowLocks, early, tool, told>>

---------------------------------------------------------------------------

ImportStep(t) ==
    \/ ImportStart(t) \/ ImportLock(t) \/ ImportInspect(t) \/ ImportSchema(t) \/ ImportBegin(t)
    \/ ImportAgain(t) \/ ImportCopy(t) \/ ImportVerify(t) \/ ImportCommit(t) \/ ImportRollback(t)
    \/ ImportRelease(t) \/ ImportDies(t)

ReconfigureStep == ReconfigureBegin \/ ReconfigureCheck \/ ReconfigureCommit \/ ReconfigureRollback

TargetNext == (\E t \in Imports : ImportStep(t)) \/ EarlyProxy \/ ReconfigureStep

PoolImportNext == TargetNext \/ LegacyStep

PoolImportSpec == PoolImportInit /\ [][PoolImportNext]_poolImportVars

---------------------------------------------------------------------------

ImportedRows(t) == \E i \in DOMAIN history : history[i].by = t

\* An import never merges: its rows are the first rows of the target, complete and undamaged, whatever
\* another run or an early Proxy did between the two inspections.
ImportsNeverMerge ==
    \A i \in DOMAIN history : history[i].by # "proxy" => i = 1 /\ ~history[i].damaged

\* A run that says it failed has written nothing, and one that says it is done has written its backup
\* (a lost COMMIT is neither).
ImportReportIsTrue ==
    \A t \in Imports : /\ report[t] = "failed" => ~ImportedRows(t)
                       /\ report[t] = "done" => ImportedRows(t)

\* The pool of an import is quiescent: it stays paused, so no Proxy grows it, and its ready members hold
\* a credential.
ImportedPoolIsQuiet ==
    (history # << >> /\ history[1].by # "proxy") =>
        /\ target.paused /\ Len(history) = 1
        /\ history[1].rows.state \in {"ready", "cooling"} => history[1].rows.oauth = "valid"

\* An approved legacy copy is a whole file of the source as it was when it was approved.
ApprovedCopyIsWhole == legacy.at = "approved" => legacy.output = "whole" /\ legacy.read = legacy.source

(***************************************************************************)
(* The offline tools (upgrade/user-pool-mysql) leave a target that is      *)
(* either untouched or the whole verified backup, paused, and never report *)
(* a failure for a copy that was committed.                                *)
(***************************************************************************)
OfflineToolsAreSafe ==
    ImportsNeverMerge /\ ImportReportIsTrue /\ ImportedPoolIsQuiet /\ ApprovedCopyIsWhole
=============================================================================

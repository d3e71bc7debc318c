---------------------------- MODULE DirectImport ----------------------------
(***************************************************************************)
(* upgrade/sqlite-to-mysql: the copy of a direct-mode database from SQLite *)
(* to MySQL.  The target is found empty before the transaction begins; the *)
(* transaction copies the enterprise, the accounts and the statistics in   *)
(* batches and counts the rows again before it commits.  A Proxy that was  *)
(* not stopped, or a second run of the tool, may write at any point.       *)
(*                                                                         *)
(* A row is its key.  A consistent read of a transaction sees the          *)
(* committed rows and its own; an INSERT waits for the uncommitted row of  *)
(* another transaction with the same key, and fails on a committed one.    *)
(***************************************************************************)
EXTENDS Naturals, FiniteSets

CONSTANTS Runs,         \* the runs of the tool
          RunRows,      \* per run: the rows of its source
          RunSource,    \* per run: [shape, enterprises, print, members]
          ProxyRows     \* the rows a running Proxy may add

ASSUME DirectImportAssumption ==
    /\ Runs \cap {"none", "seed"} = {}
    /\ \A r \in Runs : IsFiniteSet(RunRows[r])

VARIABLES run,         \* per run: [at, written, found]
          answer,      \* per run: what the operator is told
          stored,      \* the committed rows
          policyBy,    \* who wrote the policy of the default enterprise
          policyLock   \* the transaction that changed the enterprise row

directVars == <<run, answer, stored, policyBy, policyLock>>

DirectInit ==
    /\ run = [r \in Runs |-> [at |-> "start", written |-> {}, found |-> {}]]
    /\ answer = [r \in Runs |-> "none"]
    /\ stored = {} /\ policyBy = "seed" /\ policyLock = "none"

\* A completed migration of the source, or none of it; never a part.
DirectShape(r) == RunSource[r].shape \in {"single", "multi"}

\* requireDefaultRows and readSourceEnterprise: only the default enterprise of this deployment, without members.
SourceEnterprise(r) ==
    RunSource[r].shape = "multi" => /\ RunSource[r].enterprises = {"default"}
                                    /\ RunSource[r].print = "deployment"
                                    /\ RunSource[r].members = 0

ReadSource(r) == DirectShape(r) /\ SourceEnterprise(r)

RunAt(r, at) == run[r].at = at
MoveRun(r, at) == run' = [run EXCEPT ![r].at = at]
Ends(r, text) == answer' = [answer EXCEPT ![r] = text]

\* A dry run only inspects.
DirectStart(r) ==
    /\ RunAt(r, "start")
    /\ \/ ReadSource(r) /\ MoveRun(r, "inspect") /\ UNCHANGED answer
       \/ ReadSource(r) /\ MoveRun(r, "over") /\ Ends(r, "dry run")
       \/ ~ReadSource(r) /\ MoveRun(r, "over") /\ Ends(r, "failed")
    /\ UNCHANGED <<stored, policyBy, policyLock>>

\* inspectTarget counts outside a transaction.
EmptyTarget == stored = {}

DirectInspect(r) ==
    /\ RunAt(r, "inspect")
    /\ \/ EmptyTarget /\ MoveRun(r, "policy") /\ UNCHANGED answer
       \/ ~EmptyTarget /\ MoveRun(r, "over") /\ Ends(r, "failed")
    /\ UNCHANGED <<stored, policyBy, policyLock>>

\* copyEnterprise locks the row until the transaction ends.
DirectPolicy(r) ==
    /\ RunAt(r, "policy")
    /\ \/ RunSource[r].shape = "single" /\ UNCHANGED policyLock
       \/ RunSource[r].shape = "multi" /\ policyLock = "none" /\ policyLock' = r
    /\ MoveRun(r, "copy")
    /\ UNCHANGED <<answer, stored, policyBy>>

Uncommitted(r) == UNION {run[q].written : q \in Runs \ {r}}

\* One batch: its rows appear, or a duplicate or any other error rolls back.
DirectCopy(r) ==
    /\ RunAt(r, "copy")
    /\ \E key \in RunRows[r] \ run[r].written :
         /\ key \notin Uncommitted(r)
         /\ IF key \in stored THEN MoveRun(r, "rollback")
            ELSE run' = [run EXCEPT ![r].written = @ \cup {key}]
    /\ UNCHANGED <<answer, stored, policyBy, policyLock>>

DirectFails(r) ==
    /\ run[r].at \in {"copy", "commit"}
    /\ MoveRun(r, "rollback")
    /\ UNCHANGED <<answer, stored, policyBy, policyLock>>

Visible(r) == stored \cup run[r].written

\* verifyTargetCounts: the counts of the transaction are the counts of the source.
CountsMatch(r) == Cardinality(Visible(r)) = Cardinality(RunRows[r])

DirectVerify(r) ==
    /\ RunAt(r, "copy") /\ run[r].written = RunRows[r]
    /\ run' = [run EXCEPT ![r].at = IF CountsMatch(r) THEN "commit" ELSE "rollback", ![r].found = stored]
    /\ UNCHANGED <<answer, stored, policyBy, policyLock>>

Unlock(r) == policyLock' = IF policyLock = r THEN "none" ELSE policyLock

\* A lost answer of COMMIT: the rollback that follows fails too, and the error says nothing of the outcome.
DirectCommit(r) ==
    /\ RunAt(r, "commit")
    /\ \E committed, answered \in BOOLEAN :
         /\ answered => committed
         /\ stored' = IF committed THEN Visible(r) ELSE stored
         /\ policyBy' = IF committed /\ policyLock = r THEN r ELSE policyBy
         /\ Ends(r, IF answered THEN "done" ELSE "error")
    /\ run' = [run EXCEPT ![r].at = "over", ![r].written = {}]
    /\ Unlock(r)

DirectRollback(r) ==
    /\ RunAt(r, "rollback")
    /\ run' = [run EXCEPT ![r].at = "over", ![r].written = {}]
    /\ Unlock(r) /\ Ends(r, "failed")
    /\ UNCHANGED <<stored, policyBy>>

\* A Proxy that was left running creates an account or records a request; it waits like DirectCopy.
ProxyWrites ==
    /\ \E key \in ProxyRows \ stored :
         /\ \A r \in Runs : key \notin run[r].written
         /\ stored' = stored \cup {key}
    /\ UNCHANGED <<run, answer, policyBy, policyLock>>

DirectStep(r) ==
    \/ DirectStart(r) \/ DirectInspect(r) \/ DirectPolicy(r) \/ DirectCopy(r) \/ DirectFails(r)
    \/ DirectVerify(r) \/ DirectCommit(r) \/ DirectRollback(r)

DirectNext == (\E r \in Runs : DirectStep(r)) \/ ProxyWrites

DirectSpec == DirectInit /\ [][DirectNext]_directVars

---------------------------------------------------------------------------

(***************************************************************************)
(* The copy into MySQL (migrateSqliteToMysql) is all or nothing: a run     *)
(* that says it is done left every row of its source in a target that held *)
(* nothing else when the rows were counted inside the transaction,         *)
(* whatever was written after the target was found empty; and the rows of  *)
(* a run are never stored in part.                                         *)
(***************************************************************************)
DirectCopyIsWhole ==
    \A r \in Runs :
        /\ answer[r] = "done" => RunRows[r] \subseteq stored /\ run[r].found = {}
        /\ answer[r] = "done" /\ RunSource[r].shape = "multi" => policyBy # "seed"
        /\ (stored \cap RunRows[r]) \ (ProxyRows \cup UNION {RunRows[q] : q \in Runs \ {r}}) # {}
             => RunRows[r] \subseteq stored
=============================================================================

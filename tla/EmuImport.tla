----------------------------- MODULE EmuImport ------------------------------
(***************************************************************************)
(* Import of GitHub's SCIM users into the SSO service.  A plan compares a  *)
(* snapshot of GitHub with the local users; applying it hashes passwords   *)
(* first and then writes all rows in one transaction.  Users are created,  *)
(* bound, deleted and renamed between the preview, the hashing and the     *)
(* write, and two requests may apply one plan.                             *)
(***************************************************************************)
EXTENDS Integers, FiniteSets

CONSTANTS
  ScimIds,    \* SCIM users of GitHub
  SsoNames,   \* local names, as numbers in their order
  Appliers,   \* requests that apply the plan
  SsoLimit,   \* max_sso_users
  MaxOthers,  \* bound: changes made by others
  Nobody      \* no user, no id, no row

ASSUME EmuImportAssumption ==
  /\ SsoNames \subseteq Nat /\ IsFiniteSet(SsoNames) /\ Nobody \notin ScimIds
  /\ SsoLimit \in Nat /\ MaxOthers \in Nat

VARIABLES
  local,    \* local user of each name: its SCIM id, pool marker, data
  remote,   \* external: name and data of each SCIM user
  seen,     \* the snapshot of GitHub that the plan is built from
  plan,     \* none, reading, planned, applied, deleted
  planRows, \* rows of the plan, by SCIM id
  applier,  \* what each apply request is doing
  others    \* changes made by others so far

importVars == <<local, remote, seen, plan, planRows, applier, others>>

Pending == {"pending_create", "pending_update"}
Final == {"created", "updated", "skipped", "conflict", "failed"}
NoPlanRow == [name |-> Nobody, status |-> "none", data |-> 0]

ImportTypeOK ==
  /\ local \in [SsoNames -> {Nobody} \cup
                [id: ScimIds \cup {Nobody}, pool: BOOLEAN, data: 0..2]]
  /\ remote \in [ScimIds -> {Nobody} \cup [name: SsoNames, data: 1..2]]
  /\ plan \in {"none", "reading", "planned", "applied", "deleted"}
  /\ planRows \in [ScimIds -> [name: SsoNames \cup {Nobody}, status: Pending \cup Final \cup {"none"}, data: 0..2]]
  /\ applier \in [Appliers -> [phase: {"idle", "hashing", "done", "failed"}, hashed: SUBSET ScimIds]]
  /\ others \in 0..MaxOthers

ImportInit ==
  /\ local = [n \in SsoNames |-> Nobody]
  /\ remote \in [ScimIds -> {[name |-> n, data |-> 1] : n \in SsoNames}]
  /\ seen = [i \in ScimIds |-> Nobody]
  /\ plan = "none"
  /\ planRows = [i \in ScimIds |-> NoPlanRow]
  /\ applier = [a \in Appliers |-> [phase |-> "idle", hashed |-> {}]]
  /\ others = 0

BoundTo(i) == {n \in SsoNames : local[n] # Nobody /\ local[n].id = i}
LocalUsers == {n \in SsoNames : local[n] # Nobody}

-----------------------------------------------------------------------------
(* loadScimUsersForImport and listCopilotSeatAssignments. *)
ReadGitHub ==
  /\ plan = "none"
  /\ plan' = "reading" /\ seen' = remote
  /\ UNCHANGED <<local, remote, planRows, applier, others>>

(* localUserIndex: of several users with one id the last is found. *)
ByScimId(i) == CHOOSE n \in BoundTo(i) : \A k \in BoundTo(i) : k <= n

(* planConflict, staleConflictForRow: the id belongs to another user, or the
   user has another id. *)
Binds(i, n) ==
  \/ BoundTo(i) # {} /\ ByScimId(i) # n
  \/ local[n] # Nobody /\ local[n].id \notin {Nobody, i}

(* isAlreadyAligned. *)
Aligned(i, n) == local[n].id = i /\ local[n].data = seen[i].data

(* planCandidate of one SCIM user. *)
PlannedRow(i) ==
  LET n == seen[i].name IN
    [name |-> n, data |-> seen[i].data,
     status |-> IF \/ \E j \in ScimIds \ {i} : seen[j] # Nobody /\ seen[j].name = n
                   \/ Binds(i, n) THEN "conflict"
                ELSE IF local[n] = Nobody THEN "pending_create"
                ELSE IF Aligned(i, n) THEN "skipped" ELSE "pending_update"]

(* buildEmuImportPlan and createEmuImportPlanRecord. *)
CreatePlan ==
  /\ plan = "reading"
  /\ plan' = "planned"
  /\ planRows' = [i \in ScimIds |-> IF seen[i] = Nobody THEN NoPlanRow ELSE PlannedRow(i)]
  /\ UNCHANGED <<local, remote, seen, applier, others>>

(* deleteEmuImportPlanRecord. *)
DeletePlan ==
  /\ plan \in {"planned", "applied"}
  /\ plan' = "deleted" /\ planRows' = [i \in ScimIds |-> NoPlanRow]
  /\ UNCHANGED <<local, remote, seen, applier, others>>

PendingRows == {i \in ScimIds : planRows[i].status \in Pending}

(* hashNewUserPasswords: one await per row to create. *)
HashPasswords(a) ==
  /\ plan \in {"planned", "applied"} /\ applier[a].phase = "idle"
  /\ applier' = [applier EXCEPT ![a] = [phase |-> "hashing",
       hashed |-> {i \in PendingRows : planRows[i].status = "pending_create"}]]
  /\ UNCHANGED <<local, remote, seen, plan, planRows, others>>

(* Mutant: a row is applied as it was previewed. *)
StaleConflictNever(i) == FALSE

(* staleConflictForRow, on the users as the transaction finds them. *)
StaleConflict(i) ==
  LET n == planRows[i].name IN
    \/ Binds(i, n)
    \/ planRows[i].status = "pending_create" /\ local[n] # Nobody
    \/ planRows[i].status = "pending_update" /\ local[n] = Nobody

(* updateUser refuses a pool user, which undoes the whole transaction. *)
Aborts == \E i \in PendingRows : ~StaleConflict(i) /\ local[planRows[i].name] # Nobody
                                  /\ local[planRows[i].name].pool

(* createImportedUser and updateImportedUser. *)
ImportedUser(i) == [id |-> i, pool |-> FALSE, data |-> planRows[i].data]

(* The users to create for which a password was hashed and there is room. *)
Creations(a) == {i \in PendingRows : planRows[i].status = "pending_create"
                                      /\ ~StaleConflict(i) /\ i \in applier[a].hashed}
Updates == {i \in PendingRows : planRows[i].status = "pending_update" /\ ~StaleConflict(i)}

Written(rows) ==
  [n \in SsoNames |->
     IF \E i \in rows : planRows[i].name = n
     THEN ImportedUser(CHOOSE i \in rows : planRows[i].name = n) ELSE local[n]]

AppliedRow(i, rows) ==
  [planRows[i] EXCEPT !.status =
     IF i \in rows THEN IF @ = "pending_create" THEN "created" ELSE "updated"
     ELSE IF StaleConflict(i) THEN "conflict" ELSE "failed"]

(* applyEmuImportPlan: the transaction reads the pending rows again; a plan
   deleted meanwhile, or a pool user among the updates, writes nothing.  Rows
   are applied in order until the limit is reached. *)
Apply(a) ==
  /\ applier[a].phase = "hashing"
  /\ IF plan = "deleted" \/ Aborts
     THEN /\ applier' = [applier EXCEPT ![a] = [phase |-> "failed", hashed |-> {}]]
          /\ UNCHANGED <<local, plan, planRows>>
     ELSE \E fit \in SUBSET Creations(a) :
            /\ LET room == SsoLimit - Cardinality(LocalUsers) IN
                 \/ fit = Creations(a) /\ Cardinality(fit) <= room
                 \/ fit # Creations(a) /\ Cardinality(fit) = IF room < 0 THEN 0 ELSE room
            /\ LET rows == fit \cup Updates IN
                 /\ local' = Written(rows)
                 /\ planRows' = [i \in ScimIds |->
                      IF i \in PendingRows THEN AppliedRow(i, rows) ELSE planRows[i]]
            /\ plan' = "applied"
            /\ applier' = [applier EXCEPT ![a] = [phase |-> "done", hashed |-> {}]]
  /\ UNCHANGED <<remote, seen, others>>

-----------------------------------------------------------------------------
(* What others do: create a direct or a pool user, sync one with the SCIM user
   of its name, delete one; rename and change users at GitHub. *)
Other == others < MaxOthers /\ others' = others + 1 /\ UNCHANGED <<seen, plan, planRows, applier>>

CreateLocal(n, pool) ==
  /\ Other /\ local[n] = Nobody /\ Cardinality(LocalUsers) < SsoLimit
  /\ local' = [local EXCEPT ![n] = [id |-> Nobody, pool |-> pool, data |-> 0]]
  /\ UNCHANGED remote

BindLocal(n) ==
  /\ Other /\ local[n] # Nobody
  /\ \E i \in ScimIds : /\ remote[i] # Nobody /\ remote[i].name = n
                        /\ local' = [local EXCEPT ![n].id = i, ![n].data = remote[i].data]
  /\ UNCHANGED remote

DeleteLocal(n) ==
  /\ Other /\ local[n] # Nobody /\ ~local[n].pool
  /\ local' = [local EXCEPT ![n] = Nobody]
  /\ remote' = [i \in ScimIds |-> IF remote[i] # Nobody /\ remote[i].name = n THEN Nobody ELSE remote[i]]

ChangeRemote(i) ==
  /\ Other /\ remote[i] # Nobody
  /\ \E n \in SsoNames : remote' = [remote EXCEPT ![i] = [name |-> n, data |-> 2]]
  /\ UNCHANGED local

ImportNext ==
  \/ ReadGitHub \/ CreatePlan \/ DeletePlan
  \/ \E a \in Appliers : HashPasswords(a) \/ Apply(a)
  \/ \E n \in SsoNames : BindLocal(n) \/ DeleteLocal(n) \/ \E pool \in BOOLEAN : CreateLocal(n, pool)
  \/ \E i \in ScimIds : ChangeRemote(i)

ImportSpec == ImportInit /\ [][ImportNext]_importVars

-----------------------------------------------------------------------------
Applied(a) == applier[a].phase = "hashing" /\ applier'[a].phase # "hashing"

(* An import never binds a SCIM user to a second local user, although users
   are renamed at GitHub and bound locally after the preview
   (staleConflictForRow looks again when the plan is applied). *)
OneUserPerScimUser ==
  [][(\E a \in Appliers : Applied(a)) =>
       \A i \in ScimIds : Cardinality(BoundTo(i)') > 1 => BoundTo(i)' \subseteq BoundTo(i)]_importVars

(* A row is applied once and the import undoes nobody's work: a row that has
   been decided keeps its outcome though a second request applies the plan,
   and an apply never replaces a pool user, nor a user bound to another SCIM
   user, nor brings back one that was deleted after its row was applied. *)
RowsAreFinal ==
  [][/\ \A i \in ScimIds : (planRows[i].status \in Final /\ plan' # "deleted") => planRows'[i] = planRows[i]
     /\ \A a \in Appliers : Applied(a) =>
          \A n \in SsoNames : local'[n] # local[n] =>
            /\ \E i \in ScimIds : planRows[i].status \in Pending /\ planRows[i].name = n
            /\ local[n] # Nobody => ~local[n].pool /\ local[n].id \in {Nobody, local'[n].id}]_importVars

(* Applying a plan that has become stale does no harm. *)
ImportIsSafe == OneUserPerScimUser /\ RowsAreFinal
=============================================================================

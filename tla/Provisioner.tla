----------------------------- MODULE Provisioner -----------------------------
(***************************************************************************)
(* Building a pool member: the worker's steps call SSO and Login, which    *)
(* have no idempotency keys.  A checkpoint is written before each side     *)
(* effect, and a step that finds such a checkpoint only looks.             *)
(*                                                                         *)
(* One worker at a time (PoolOwner).  A step ends by its patch, a failure, *)
(* a fence or a crash; the call it sent may still be executed later.       *)
(* Requests, holds and the calls of the warmup are in UserPool.            *)
(***************************************************************************)
EXTENDS Integers, FiniteSets

CONSTANTS
  Members,      \* identities of pool members
  LoginLimit,   \* loginMaxPending
  MaxLogins,    \* bound: OAuth attempts per member
  MaxEpochs,    \* bound: operator interventions per member
  NoStep

ASSUME ProvisionerAssumption ==
  LoginLimit \in Nat \ {0} /\ MaxLogins \in Nat \ {0} /\ MaxEpochs \in Nat

VARIABLES
  row,      \* user_pool_accounts
  step,     \* the worker's running step of each member
  sso,      \* external: the side effects asked of SSO
  loginTask,     \* external: the Login task of each OAuth attempt
  account,  \* proxy_accounts: OAuth status and attempt (0: NULL)
  posts,    \* history: how often each side effect was sent to SSO
  logins    \* history: how often each OAuth attempt was sent to Login

provisionVars == <<row, step, sso, loginTask, account, posts, logins>>

Effects == {"user", "scim", "seat"}
Logins == 1..MaxLogins

(* The checkpoint written before an effect, the stage it starts from and
   the stage it leads to. *)
Sending == [user |-> "sso-creating", scim |-> "scim-syncing", seat |-> "seat-assigning"]
From == [user |-> "new", scim |-> "sso-created", seat |-> "scim-synced"]
To == [user |-> "sso-created", scim |-> "scim-synced", seat |-> "synced"]

Reserved == {"oauth-dispatch", "oauth-wait"}
Stages == {Sending[k] : k \in Effects} \cup {From[k] : k \in Effects}
            \cup {"synced", "oauth-starting", "warmup", "ready"} \cup Reserved

Inventory == [state: {"provisioning", "failed", "ready", "disabled"}, stage: Stages, attempts: 0..3,
              error: {"none", "manual", "other"}, epoch: 0..MaxEpochs, oauth: 0..MaxLogins]

ProvisionTypeOK ==
  /\ row \in [Members -> Inventory]
  /\ step \in [Members -> {NoStep} \cup
                [stage: Stages, epoch: 0..MaxEpochs, mode: {"look", "sent", "failing"}]]
  /\ sso \in [Members -> [Effects -> {"none", "sent", "done"}]]
  /\ loginTask \in [Members -> [Logins -> {"none", "sent", "live", "success", "failed", "cancelled"}]]
  /\ account \in [Members -> [status: {"missing", "refreshing", "valid", "failed", "expired"},
                              attempt: 0..MaxLogins]]
  /\ posts \in [Members -> [Effects -> Nat]]
  /\ logins \in [Members -> [Logins -> Nat]]

ProvisionInit ==
  /\ row = [m \in Members |-> [state |-> "provisioning", stage |-> "new", attempts |-> 0,
                               error |-> "none", epoch |-> 0, oauth |-> 0]]
  /\ step = [m \in Members |-> NoStep]
  /\ sso = [m \in Members |-> [k \in Effects |-> "none"]]
  /\ loginTask = [m \in Members |-> [n \in Logins |-> "none"]]
  /\ account = [m \in Members |-> [status |-> "missing", attempt |-> 0]]
  /\ posts = [m \in Members |-> [k \in Effects |-> 0]]
  /\ logins = [m \in Members |-> [n \in Logins |-> 0]]

-----------------------------------------------------------------------------
(* The worker's context. *)

Occupied == Cardinality({m \in Members : row[m].stage \in Reserved})

(* pending() and the start of advance(). *)
Begin(m) ==
  /\ step[m] = NoStep
  /\ \/ row[m].state = "provisioning"
     \/ row[m].state = "failed" /\ row[m].attempts < 3 /\ row[m].error # "manual"
  /\ row[m].stage = "oauth-starting" => Occupied < LoginLimit
  /\ row' = [row EXCEPT ![m].state = "provisioning"]
  /\ step' = [step EXCEPT ![m] = [stage |-> row[m].stage, epoch |-> row[m].epoch, mode |-> "look"]]
  /\ UNCHANGED <<sso, loginTask, account, posts, logins>>

(* readCurrent: the row is still the one the step works on. *)
StepCurrent(m) ==
  /\ step[m] # NoStep
  /\ row[m].state = "provisioning" /\ row[m].epoch = step[m].epoch /\ row[m].stage = step[m].stage

At(m, stage, mode) == StepCurrent(m) /\ step[m].stage = stage /\ step[m].mode = mode

(* checkpoint: the step goes on from the stage it wrote. *)
Checkpoint(m, stage, mode) ==
  /\ row' = [row EXCEPT ![m].stage = stage]
  /\ step' = [step EXCEPT ![m].stage = stage, ![m].mode = mode]

(* The patch a step returns is its last checkpoint. *)
StepDone(m, stage) ==
  /\ row' = [row EXCEPT ![m].stage = stage]
  /\ step' = [step EXCEPT ![m] = NoStep]

Forget(m) ==
  /\ row' = [row EXCEPT ![m].stage = "synced", ![m].oauth = 0]
  /\ step' = [step EXCEPT ![m].stage = "synced", ![m].mode = "failing"]

(* A fenced step ends without a trace. *)
Fenced(m) ==
  /\ step[m] # NoStep /\ ~StepCurrent(m)
  /\ step' = [step EXCEPT ![m] = NoStep]
  /\ UNCHANGED <<row, sso, loginTask, account, posts, logins>>

(* fail(): the error is charged to the row; a terminal one exhausts it. *)
Failed(m, terminal, error) ==
  /\ row' = [row EXCEPT ![m].state = "failed", ![m].error = error,
                        ![m].attempts = IF terminal \/ @ = 3 THEN 3 ELSE @ + 1]
  /\ step' = [step EXCEPT ![m] = NoStep]

(* Time-outs, refusals and unexpected answers. *)
StepFails(m) ==
  /\ StepCurrent(m)
  /\ \E terminal \in BOOLEAN : Failed(m, terminal, "other")
  /\ UNCHANGED <<sso, loginTask, account, posts, logins>>

-----------------------------------------------------------------------------
(* SSO: user, EMU sync and seat. *)

(* Mutant: a checkpoint that was not confirmed is sent again. *)
SendAgain(m, k) ==
  /\ At(m, From[k], "look") \/ (At(m, Sending[k], "look") /\ k # "user")
  /\ sso[m][k] # "done"
  /\ Checkpoint(m, Sending[k], "sent")
  /\ sso' = [sso EXCEPT ![m][k] = "sent"]
  /\ posts' = [posts EXCEPT ![m][k] = @ + 1]
  /\ UNCHANGED <<loginTask, account, logins>>

(* The checkpoint precedes the POST. *)
Send(m, k) ==
  /\ At(m, From[k], "look")
  /\ sso[m][k] # "done"
  /\ Checkpoint(m, Sending[k], "sent")
  /\ sso' = [sso EXCEPT ![m][k] = "sent"]
  /\ posts' = [posts EXCEPT ![m][k] = @ + 1]
  /\ UNCHANGED <<loginTask, account, logins>>

(* A name that is taken, or a creation that was not answered, is left to
   an operator, even if the user can be seen. *)
Ambiguous(m) ==
  /\ At(m, "new", "look") \/ At(m, "sso-creating", "look") \/ At(m, "sso-creating", "sent")
  /\ Failed(m, TRUE, "manual")
  /\ UNCHANGED <<sso, loginTask, account, posts, logins>>

(* The step that sent the effect reads its answer; later ones read the user,
   except where a creation is in doubt. *)
Reads(m, k) ==
  \/ At(m, Sending[k], "sent")
  \/ k # "user" /\ (At(m, Sending[k], "look") \/ At(m, From[k], "look"))

(* The effect is seen, in the answer or by a later read; the account is
   linked with the last one. *)
Confirm(m, k) ==
  /\ Reads(m, k)
  /\ sso[m][k] = "done"
  /\ StepDone(m, To[k])
  /\ UNCHANGED <<sso, loginTask, account, posts, logins>>

-----------------------------------------------------------------------------
(* Login: one task per OAuth attempt. *)

StartOauth(m) ==
  /\ At(m, "synced", "look")
  /\ \E n \in Logins :
       /\ logins[m][n] = 0 /\ account[m].attempt # n
       /\ row' = [row EXCEPT ![m].stage = "oauth-starting", ![m].oauth = n]
  /\ step' = [step EXCEPT ![m] = NoStep]
  /\ UNCHANGED <<sso, loginTask, account, posts, logins>>

BeginAuthorization(m) ==
  /\ At(m, "oauth-starting", "look")
  /\ account[m] # [status |-> "refreshing", attempt |-> row[m].oauth]
  /\ account' = [account EXCEPT ![m] = [status |-> "refreshing", attempt |-> row[m].oauth]]
  /\ UNCHANGED <<row, step, sso, loginTask, posts, logins>>

(* Mutant: the limit is off by one. *)
ClaimDispatchOver(m) ==
  /\ At(m, "oauth-starting", "look")
  /\ account[m] = [status |-> "refreshing", attempt |-> row[m].oauth]
  /\ Occupied <= LoginLimit
  /\ Checkpoint(m, "oauth-dispatch", "sent")
  /\ loginTask' = [loginTask EXCEPT ![m][row[m].oauth] = "sent"]
  /\ logins' = [logins EXCEPT ![m][row[m].oauth] = @ + 1]
  /\ UNCHANGED <<sso, account, posts>>

(* claimLoginDispatch, then POST /tasks; a full Login ends the step. *)
ClaimDispatch(m) ==
  /\ At(m, "oauth-starting", "look")
  /\ account[m] = [status |-> "refreshing", attempt |-> row[m].oauth]
  /\ \/ /\ Occupied < LoginLimit
        /\ Checkpoint(m, "oauth-dispatch", "sent")
        /\ loginTask' = [loginTask EXCEPT ![m][row[m].oauth] = "sent"]
        /\ logins' = [logins EXCEPT ![m][row[m].oauth] = @ + 1]
     \/ /\ Occupied >= LoginLimit
        /\ step' = [step EXCEPT ![m] = NoStep]
        /\ UNCHANGED <<row, loginTask, logins>>
  /\ UNCHANGED <<sso, account, posts>>

(* The answer of the POST, or findTask by a later step. *)
TaskSeen(m) ==
  /\ At(m, "oauth-dispatch", "sent") \/ At(m, "oauth-dispatch", "look")
  /\ loginTask[m][row[m].oauth] \notin {"none", "sent"}
  /\ StepDone(m, "oauth-wait")
  /\ UNCHANGED <<sso, loginTask, account, posts, logins>>

(* A dispatch that is not found is never repeated: it may still arrive. *)
DispatchUnconfirmed(m) ==
  /\ At(m, "oauth-dispatch", "look")
  /\ loginTask[m][row[m].oauth] \in {"none", "sent"}
  /\ Failed(m, FALSE, "other")
  /\ UNCHANGED <<sso, loginTask, account, posts, logins>>

(* One look at the awaited task: it goes on, was cancelled, failed (the
   attempt is forgotten before the failure is charged) or succeeded. *)
AwaitTask(m) ==
  /\ At(m, "oauth-wait", "look")
  /\ LET status == loginTask[m][row[m].oauth] IN
       \/ status = "live" /\ (StepDone(m, "oauth-wait") \/ Failed(m, TRUE, "other"))
       \/ status = "cancelled" /\ Failed(m, TRUE, "manual")
       \/ status = "failed" /\ Forget(m)
       \/ /\ status = "success"
          /\ IF account[m].status = "valid" /\ account[m].attempt = 0
             THEN StepDone(m, "warmup") ELSE Failed(m, FALSE, "other")
  /\ UNCHANGED <<sso, loginTask, account, posts, logins>>

(* The failure that follows a forgotten attempt. *)
ChargeFailure(m) ==
  /\ step[m] # NoStep /\ At(m, step[m].stage, "failing")
  /\ Failed(m, FALSE, "other")
  /\ UNCHANGED <<sso, loginTask, account, posts, logins>>

(* The warmup proves the token, or erases it after a 401. *)
Warmup(m) ==
  /\ At(m, "warmup", "look")
  /\ \/ /\ account[m].status = "valid"
        /\ row' = [row EXCEPT ![m].stage = "ready", ![m].state = "ready",
                              ![m].error = "none", ![m].attempts = 0]
        /\ step' = [step EXCEPT ![m] = NoStep]
        /\ UNCHANGED account
     \/ /\ Forget(m)
        /\ account' = IF account[m].status = "valid"
                      THEN [account EXCEPT ![m] = [status |-> "expired", attempt |-> 0]] ELSE account
  /\ UNCHANGED <<sso, loginTask, posts, logins>>

(* recoverUnauthorized: a request found the token rejected. *)
Unauthorized(m) ==
  /\ row[m].state = "ready" /\ account[m].status = "valid" /\ account[m].attempt = 0
  /\ row' = [row EXCEPT ![m].state = "provisioning", ![m].stage = "synced", ![m].oauth = 0]
  /\ account' = [account EXCEPT ![m].status = "expired"]
  /\ UNCHANGED <<step, sso, loginTask, posts, logins>>

-----------------------------------------------------------------------------
(* Login reservations whose row is exhausted are only observed. *)

Exhausted(m) ==
  /\ row[m].stage \in Reserved
  /\ row[m].state = "disabled" \/ (row[m].state = "failed" /\ row[m].attempts >= 3)

(* releaseLoginReservation: the slot is free, the member goes on from what the
   login left. *)
ReleasedRow(m) ==
  [row EXCEPT ![m].oauth = 0,
              ![m].stage = IF loginTask[m][row[m].oauth] = "success" THEN "warmup" ELSE "synced"]

(* reconcileLoginReservations: released by a compare of the whole row once
   the task has ended; the row stays failed or disabled. *)
ReleaseReservation(m) ==
  /\ Exhausted(m) /\ step[m] = NoStep
  /\ loginTask[m][row[m].oauth] \in {"success", "failed"}
  /\ row' = ReleasedRow(m)
  /\ UNCHANGED <<step, sso, loginTask, account, posts, logins>>

-----------------------------------------------------------------------------
(* Operators. *)

Disable(m) ==
  /\ row[m].state # "disabled" /\ row[m].epoch < MaxEpochs
  /\ row' = [row EXCEPT ![m].state = "disabled", ![m].epoch = @ + 1]
  /\ UNCHANGED <<step, sso, loginTask, account, posts, logins>>

(* retry(): uncertain stages are kept for the provisioner to reconcile. *)
Retry(m) ==
  /\ row[m].state \in {"failed", "disabled"} /\ row[m].error # "manual" /\ row[m].epoch < MaxEpochs
  /\ row' = [row EXCEPT ![m].state = "provisioning", ![m].attempts = 0, ![m].error = "none",
               ![m].epoch = @ + 1, ![m].stage = IF @ = "ready" THEN "warmup" ELSE @]
  /\ UNCHANGED <<step, sso, loginTask, account, posts, logins>>

(* The worker's process dies; the calls it made live on. *)
WorkerDies ==
  /\ \E m \in Members : step[m] # NoStep
  /\ step' = [m \in Members |-> NoStep]
  /\ UNCHANGED <<row, sso, loginTask, account, posts, logins>>

-----------------------------------------------------------------------------
(* The services, as the Proxy meets them. *)

SsoExecutes(m, k) ==
  /\ sso[m][k] = "sent"
  /\ sso' = [sso EXCEPT ![m][k] = "done"]
  /\ UNCHANGED <<row, step, loginTask, account, posts, logins>>

TaskArrives(m, n) ==
  /\ loginTask[m][n] = "sent"
  /\ loginTask' = [loginTask EXCEPT ![m][n] = "live"]
  /\ UNCHANGED <<row, step, sso, account, posts, logins>>

(* A success has stored its token; a failure or a cancel may have been
   reported or not. *)
TaskEnds(m, n) ==
  /\ loginTask[m][n] = "live"
  /\ \/ /\ account[m] = [status |-> "refreshing", attempt |-> n]
        /\ loginTask' = [loginTask EXCEPT ![m][n] = "success"]
        /\ account' = [account EXCEPT ![m] = [status |-> "valid", attempt |-> 0]]
     \/ /\ \E s \in {"failed", "cancelled"} : loginTask' = [loginTask EXCEPT ![m][n] = s]
        /\ \/ UNCHANGED account
           \/ /\ account[m].attempt = n
              /\ account' = [account EXCEPT ![m].status = "failed"]
  /\ UNCHANGED <<row, step, sso, posts, logins>>

-----------------------------------------------------------------------------
StepNext(m) ==
  \/ Fenced(m) \/ StepFails(m) \/ Ambiguous(m) \/ StartOauth(m) \/ BeginAuthorization(m)
  \/ ClaimDispatch(m) \/ TaskSeen(m) \/ DispatchUnconfirmed(m) \/ AwaitTask(m) \/ ChargeFailure(m)
  \/ Warmup(m)
  \/ \E k \in Effects : Send(m, k) \/ Confirm(m, k)

ProvisionNext ==
  \/ \E m \in Members :
       \/ Begin(m) \/ StepNext(m) \/ ReleaseReservation(m)
       \/ Unauthorized(m) \/ Disable(m) \/ Retry(m)
       \/ \E k \in Effects : SsoExecutes(m, k)
       \/ \E n \in Logins : TaskArrives(m, n) \/ TaskEnds(m, n)
  \/ WorkerDies

ProvisionSpec == ProvisionInit /\ [][ProvisionNext]_provisionVars

(* The worker polls: steps are bounded by their deadline, and exhausted
   reservations are observed in rotation. *)
ProvisionFairSpec == ProvisionSpec /\ \A m \in Members : WF_provisionVars(StepNext(m)) /\ WF_provisionVars(ReleaseReservation(m))

-----------------------------------------------------------------------------
(* No side effect is sent twice, whatever crashes, times out or is retried
   by an operator: SSO has no idempotency key and a second POST /tasks of
   an attempt would start a second browser (provisioner.ts:270, :343). *)
NothingIsReplayed ==
  \A m \in Members : /\ \A k \in Effects : posts[m][k] <= 1
                     /\ \A n \in Logins : logins[m][n] <= 1

Working(m, n) == loginTask[m][n] \in {"sent", "live"}

(* A member never has two logins on their way or running: a new attempt is
   dispatched only after the previous task is known to have ended. *)
OneLoginPerMember == \A m \in Members : \A n, o \in Logins : Working(m, n) /\ Working(m, o) => n = o

(* loginMaxPending bounds the logins that really run, not only the rows that
   claim to: no release of a reservation comes before the end of its task. *)
LoginsAreBounded == Cardinality({x \in Members \X Logins : Working(x[1], x[2])}) <= LoginLimit

(* A login is dispatched only for a user SSO has created, synchronized and
   given a seat, by whichever step and after whichever crash. *)
EntitledBeforeLogin ==
  \A m \in Members : (\E n \in Logins : loginTask[m][n] # "none") => \A k \in Effects : sso[m][k] = "done"

(* What a member's build never does, whatever crashes or is retried. *)
BuildIsSafe == ProvisionTypeOK /\ NothingIsReplayed /\ OneLoginPerMember /\ EntitledBeforeLogin

(* The slot of an exhausted member whose task has ended is given back. *)
EndedReservation(m) == Exhausted(m) /\ loginTask[m][row[m].oauth] \in {"success", "failed"}
ReservationEnds == \A m \in Members : EndedReservation(m) ~> ~EndedReservation(m)
=============================================================================

------------------------------ MODULE UserPool ------------------------------
(***************************************************************************)
(* The user pool of the Proxy: a set of Copilot accounts ("members") that  *)
(* callers borrow one at a time.  Every operation of UserPoolStore is one  *)
(* immediate transaction, so it is one action here; the requests that the  *)
(* Proxy serves, the steps of the prewarm worker and the Login callbacks   *)
(* are the actors whose transactions interleave.                           *)
(*                                                                         *)
(* Time is the database clock.  The order in which idle members and        *)
(* enterprises are ranked is left open (any idle member may be chosen),    *)
(* and so are the worker's ownership and the pause switch: both only       *)
(* remove worker steps, and no property here relies on them.               *)
(***************************************************************************)
EXTENDS Integers, FiniteSets

CONSTANTS
  Callers,            \* normalized caller ids
  Members,            \* identities of the pool's members
  Requests,           \* request slots, each serving one HTTP request at a time
  Enterprises,        \* enterprise ids
  EnterpriseOf,       \* the enterprise of each member, fixed at reservation
  NoLease, NoHold, NoHandle, NoJob,   \* absent rows
  ProvisionalTTL,     \* life of a lease before its first success
  LeaseTTL,           \* settings.lease_seconds
  RequestTimeout,     \* absolute deadline of a request
  HoldDrain,          \* HOLD_DRAIN_MS
  CoolTime,           \* an upstream Retry-After
  RetryDelay,         \* the delay before a failed member is picked again
  ReauthWindow,       \* REAUTH_WINDOW_MS
  ReauthMaxCycles,    \* REAUTH_MAX_CYCLES
  MaxTime,            \* bound: last instant of the clock
  LastAdmission,      \* bound: last instant at which requests are admitted
  MaxGeneration,      \* bound: generation up to which a member is reworked
  WorkedMembers       \* bound: members whose credential and worker steps are explored

ASSUME DurationAssumption ==
  /\ ProvisionalTTL \in Nat \ {0} /\ LeaseTTL \in Nat \ {0}
  /\ RequestTimeout \in Nat \ {0} /\ HoldDrain \in Nat \ {0}
  /\ CoolTime \in Nat \ {0} /\ RetryDelay \in Nat
  /\ ReauthWindow \in Nat /\ ReauthMaxCycles \in Nat

ASSUME BoundAssumption ==
  MaxTime \in Nat /\ LastAdmission \in Nat /\ MaxGeneration \in Nat /\ WorkedMembers \subseteq Members

ASSUME EnterpriseAssumption == EnterpriseOf \in [Members -> Enterprises]

MemberStates == {"provisioning", "ready", "cooling", "failed", "disabled"}

(***************************************************************************)
(* "login" stands for every stage before the credential exists (new ..     *)
(* oauth-wait); the Login dispatch itself is a component of its own.       *)
(***************************************************************************)
Stages == {"login", "warmup", "ready"}

OauthStatuses == {"missing", "refreshing", "valid", "failed", "expired"}

AttemptLimit == 3

(* A row of user_pool_leases; its key is the caller.  "born" is a history
   field: the member's generation when the lease was inserted. *)
LeaseRow == [member: Members, phase: {"provisional", "active"},
             assigned: Nat, expires: Nat, born: Nat]

(* A row of user_pool_holds or user_pool_catalog_holds.  deadline_at is
   expires - HoldDrain. *)
HoldRow == [kind: {"lease", "catalog"}, caller: Callers, member: Members,
            expires: Nat, generation: Nat]

(* The HeldLease a running request keeps in memory, with the credential it
   sent upstream (0: none yet). *)
Handle == [kind: {"lease", "catalog"}, caller: Callers, member: Members,
           expires: Nat, token: Nat]

(* A worker step: the inventory row it was picked with, how far it got, and
   the token its warmup request carried. *)
JobSteps == {"picked", "claimed", "pinned", "warming", "warmed", "rejected", "failing"}

Job == [attempt: Nat, generation: Nat, stage: Stages, step: JobSteps, token: Nat]

ASSUME AbsentAssumption ==
  /\ NoLease \notin LeaseRow /\ NoHold \notin HoldRow
  /\ NoHandle \notin Handle /\ NoJob \notin Job

(* The lease and hold tables. *)
LeaseTable == [Callers -> LeaseRow \cup {NoLease}]
HoldTable == [Requests -> HoldRow \cup {NoHold}]

VARIABLES
  now,
  \* user_pool_accounts
  state, stage, generation, attempt, attempts, manual, retryAt, coolUntil,
  verified, reauthCount, reauthAt,
  \* proxy_accounts: the OAuth credential of each member (token 0: NULL)
  status, token,
  \* user_pool_leases, user_pool_holds + user_pool_catalog_holds, cooldowns
  lease, hold, cooldown,
  \* proxy_enterprises.state
  enterprise,
  \* memory of the running requests and of the worker's steps
  handle, job,
  \* history: the token that the last successful warmup proved
  proven

memberVars == <<state, stage, generation, attempt, attempts, manual, retryAt,
                coolUntil, verified, reauthCount, reauthAt>>
credVars == <<status, token>>
leaseVars == <<lease, hold, cooldown>>
vars == <<now, memberVars, credVars, leaseVars, enterprise, handle, job, proven>>

(* Types of the rows, and what they bound: reclaim and recoverUnauthorized keep
   the reauthorization counter within its limit. *)
TypeOK ==
  /\ now \in Nat
  /\ state \in [Members -> MemberStates]
  /\ stage \in [Members -> Stages]
  /\ generation \in [Members -> Nat]
  /\ attempt \in [Members -> Nat]
  /\ attempts \in [Members -> Nat]
  /\ manual \in [Members -> BOOLEAN]
  /\ retryAt \in [Members -> Nat]
  /\ coolUntil \in [Members -> Nat]
  /\ verified \in [Members -> BOOLEAN]
  /\ reauthCount \in [Members -> 0..ReauthMaxCycles]
  /\ reauthAt \in [Members -> Nat]
  /\ status \in [Members -> OauthStatuses]
  /\ token \in [Members -> Nat]
  /\ lease \in LeaseTable
  /\ hold \in HoldTable
  /\ cooldown \in [Callers -> Nat]
  /\ enterprise \in [Enterprises -> {"draft", "active", "draining"}]
  /\ handle \in [Requests -> Handle \cup {NoHandle}]
  /\ job \in [Members -> Job \cup {NoJob}]
  /\ proven \in [Members -> Nat]

(***************************************************************************)
(* A pool whose members have all been provisioned and verified.            *)
(***************************************************************************)
Init ==
  /\ now = 1
  /\ state = [m \in Members |-> "ready"]
  /\ stage = [m \in Members |-> "ready"]
  /\ generation = [m \in Members |-> 1]
  /\ attempt = [m \in Members |-> 0]
  /\ attempts = [m \in Members |-> 0]
  /\ manual = [m \in Members |-> FALSE]
  /\ retryAt = [m \in Members |-> 0]
  /\ coolUntil = [m \in Members |-> 0]
  /\ verified = [m \in Members |-> TRUE]
  /\ reauthCount = [m \in Members |-> 0]
  /\ reauthAt = [m \in Members |-> 0]
  /\ status = [m \in Members |-> "valid"]
  /\ token = [m \in Members |-> 1]
  /\ lease = [c \in Callers |-> NoLease]
  /\ hold = [r \in Requests |-> NoHold]
  /\ cooldown = [c \in Callers |-> 0]
  /\ enterprise = [e \in Enterprises |-> "active"]
  /\ handle = [r \in Requests |-> NoHandle]
  /\ job = [m \in Members |-> NoJob]
  /\ proven = [m \in Members |-> 1]

-----------------------------------------------------------------------------
(* Predicates on the stored rows. *)

CredentialValid(m) == status[m] = "valid" /\ token[m] # 0

HeldBy(hs, m) == {r \in Requests : hs[r] # NoHold /\ hs[r].member = m}

(* Mutant: a hold stops counting at its deadline, before the drain window. *)
HasHoldsUntilDeadline(hs, m) == \E r \in HeldBy(hs, m) : hs[r].expires - HoldDrain > now

HasHolds(hs, m) == \E r \in HeldBy(hs, m) : hs[r].expires > now

(***************************************************************************)
(* The hold that a request-originated report is fenced with: it still      *)
(* exists, its deadline is ahead, and neither the member nor its           *)
(* credential changed since admission.                                     *)
(***************************************************************************)
CurrentHold(r) ==
  /\ hold[r] # NoHold
  /\ handle[r] # NoHandle
  /\ hold[r].expires - HoldDrain > now
  /\ LET m == hold[r].member IN
       /\ generation[m] = hold[r].generation
       /\ state[m] \in {"ready", "cooling"}
       /\ CredentialValid(m)

Earlier(a, b) == IF a < b THEN a ELSE b

Later(a, b) == IF a > b THEN a ELSE b

(* What an invalidating update does to the lease on member m. *)
CutLeases(ls, M) ==
  [c \in Callers |->
    IF ls[c] # NoLease /\ ls[c].member \in M
    THEN [ls[c] EXCEPT !.expires = Earlier(@, now)] ELSE ls[c]]

-----------------------------------------------------------------------------
(* reclaim(): values of the rows after the transaction's housekeeping, for
   the lease and hold tables ls and hs it finds. *)

Thawed(m) == state[m] = "cooling" /\ coolUntil[m] <= now

ReclaimFails(m) ==
  /\ state[m] \in {"ready", "cooling"}
  /\ \/ ~CredentialValid(m)
     \/ (state[m] = "ready" \/ Thawed(m)) /\ ~verified[m]

FailedByReclaim == {m \in Members : ReclaimFails(m)}

ReclaimedState == [m \in Members |->
  IF ReclaimFails(m) THEN "failed" ELSE IF Thawed(m) THEN "ready" ELSE state[m]]

ReclaimedHolds(hs) == [r \in Requests |->
  IF hs[r] # NoHold /\ hs[r].expires <= now THEN NoHold ELSE hs[r]]

ReclaimedCooldown == [c \in Callers |-> IF cooldown[c] <= now THEN 0 ELSE cooldown[c]]

(* Mutant: only leases that never succeeded are deleted. *)
ReclaimedProvisionalLeases(ls, hs) ==
  LET cut == CutLeases(ls, FailedByReclaim) IN
    [c \in Callers |->
      IF /\ cut[c] # NoLease
         /\ cut[c].phase = "provisional"
         /\ cut[c].expires <= now
         /\ ~HasHolds(hs, cut[c].member)
      THEN NoLease ELSE cut[c]]

ReclaimedLeases(ls, hs) ==
  LET cut == CutLeases(ls, FailedByReclaim) IN
    [c \in Callers |->
      IF /\ cut[c] # NoLease
         /\ cut[c].expires <= now
         /\ ReclaimedState[cut[c].member] # "cooling"
         /\ ~HasHolds(hs, cut[c].member)
      THEN NoLease ELSE cut[c]]

ReclaimedGeneration == [m \in Members |->
  IF ReclaimFails(m) THEN generation[m] + 1 ELSE generation[m]]

ReclaimedStage == [m \in Members |->
  IF ReclaimFails(m) /\ CredentialValid(m) THEN "warmup" ELSE stage[m]]

ReclaimedRetryAt == [m \in Members |->
  IF ReclaimFails(m) THEN (IF CredentialValid(m) THEN now ELSE now + RetryDelay)
  ELSE retryAt[m]]

(* The member rows after reclaim(). *)
ReclaimMembers ==
  /\ state' = ReclaimedState
  /\ generation' = ReclaimedGeneration
  /\ stage' = ReclaimedStage
  /\ retryAt' = ReclaimedRetryAt
  /\ coolUntil' = [m \in Members |-> IF Thawed(m) THEN 0 ELSE coolUntil[m]]
  /\ manual' = [m \in Members |-> manual[m] /\ ~ReclaimFails(m)]
  /\ UNCHANGED <<attempt, attempts, verified, reauthCount, reauthAt>>

(***************************************************************************)
(* The whole transaction.  It also stands for every refused admission:     *)
(* admit() keeps the reclamation when the admission itself is rolled back. *)
(***************************************************************************)
Reclaim ==
  /\ ReclaimMembers
  /\ hold' = ReclaimedHolds(hold)
  /\ lease' = ReclaimedLeases(lease, hold)
  /\ cooldown' = ReclaimedCooldown
  /\ UNCHANGED <<now, credVars, enterprise, handle, job, proven>>

-----------------------------------------------------------------------------
(* Admission. *)

(* assertReady, after reclaim() *)
AssertReady(m) == ReclaimedState[m] = "ready" /\ verified[m] /\ CredentialValid(m)

EnterpriseActive(m) == enterprise[EnterpriseOf[m]] = "active"

(* Mutants: a member that is only leased, or only held for discovery, passes
   for idle. *)
IdleDespiteCatalog(ls, hs, m) ==
  /\ EnterpriseActive(m)
  /\ AssertReady(m)
  /\ \A c \in Callers : ls[c] # NoLease => ls[c].member # m

IdleDespiteLease(ls, hs, m) ==
  /\ EnterpriseActive(m)
  /\ AssertReady(m)
  /\ \A r \in HeldBy(hs, m) : hs[r].kind # "catalog"

IdleMember(ls, hs, m) ==
  /\ EnterpriseActive(m)
  /\ AssertReady(m)
  /\ \A c \in Callers : ls[c] # NoLease => ls[c].member # m
  /\ \A r \in HeldBy(hs, m) : hs[r].kind # "catalog"

(* A catalog hold of the caller decides the member, else any idle one. *)
AvailableMembers(ls, hs, c) ==
  LET mine == {r \in Requests : hs[r] # NoHold /\ hs[r].kind = "catalog" /\ hs[r].caller = c}
  IN IF mine # {} THEN {hs[r].member : r \in {q \in mine : EnterpriseActive(hs[q].member)}}
     ELSE {m \in Members : IdleMember(ls, hs, m)}

NewHold(kind, c, m) ==
  [kind |-> kind, caller |-> c, member |-> m,
   expires |-> now + RequestTimeout + HoldDrain, generation |-> ReclaimedGeneration[m]]

NewHandle(kind, c, m) ==
  [kind |-> kind, caller |-> c, member |-> m,
   expires |-> now + RequestTimeout + HoldDrain, token |-> 0]

NewLease(m) ==
  [member |-> m, phase |-> "provisional", assigned |-> now,
   expires |-> now + ProvisionalTTL, born |-> ReclaimedGeneration[m]]

(* The part of admit() that both kinds of admission share. *)
Admit(kind, c, r, m) ==
  /\ now <= LastAdmission
  /\ handle[r] = NoHandle /\ hold[r] = NoHold
  /\ ReclaimMembers
  /\ ReclaimedCooldown[c] = 0
  /\ AssertReady(m)
  /\ hold' = [ReclaimedHolds(hold) EXCEPT ![r] = NewHold(kind, c, m)]
  /\ handle' = [handle EXCEPT ![r] = NewHandle(kind, c, m)]
  /\ cooldown' = ReclaimedCooldown
  /\ UNCHANGED <<now, credVars, enterprise, job, proven>>

(* Mutant: an expired lease that is still pinned admits more requests. *)
AcquireDraining(c, r) ==
  LET ls == ReclaimedLeases(lease, hold) IN
    /\ ls[c] # NoLease
    /\ Admit("lease", c, r, ls[c].member)
    /\ lease' = ls

(* acquire() by a caller that has a lease: it must be unexpired. *)
AcquireLeased(c, r) ==
  LET ls == ReclaimedLeases(lease, hold) IN
    /\ ls[c] # NoLease
    /\ ls[c].expires > now
    /\ Admit("lease", c, r, ls[c].member)
    /\ lease' = ls

(* acquire() by a caller without one. *)
AcquireNew(c, r) ==
  LET ls == ReclaimedLeases(lease, hold) IN
    /\ ls[c] = NoLease
    /\ \E m \in AvailableMembers(ls, ReclaimedHolds(hold), c) :
         /\ Admit("lease", c, r, m)
         /\ lease' = [ls EXCEPT ![c] = NewLease(m)]

(* acquireCatalog(): pins a member for one request, creates no lease. *)
AcquireCatalog(c, r) ==
  LET ls == ReclaimedLeases(lease, hold) IN
    /\ \/ /\ ls[c] # NoLease
          /\ EnterpriseActive(ls[c].member)
          /\ ls[c].expires > now
          /\ Admit("catalog", c, r, ls[c].member)
       \/ /\ ls[c] = NoLease
          /\ \E m \in AvailableMembers(ls, ReclaimedHolds(hold), c) : Admit("catalog", c, r, m)
    /\ lease' = ls

-----------------------------------------------------------------------------
(* Requests. *)

(* leaseAuth(): the route reads the member's credential between two
   heartbeats, which see the same generation, and sends it upstream. *)
Authorize(r) ==
  /\ handle[r] # NoHandle
  /\ handle[r].token = 0
  /\ CurrentHold(r)
  /\ handle' = [handle EXCEPT ![r].token = token[handle[r].member]]
  /\ UNCHANGED <<now, memberVars, credVars, leaseVars, enterprise, job, proven>>

(***************************************************************************)
(* Assigning a credential column fires user_pool_credential_fence, which   *)
(* moves the member to a new generation and forgets its verification.      *)
(***************************************************************************)
CredentialFence(m, newStatus, newToken) ==
  /\ status' = [status EXCEPT ![m] = newStatus]
  /\ token' = [token EXCEPT ![m] = newToken]

(* Mutant: every cycle is counted, the exhausted one too. *)
RecoverUncapped(r) ==
  LET m == handle[r].member
      reset == reauthAt[m] = 0 \/ now - reauthAt[m] >= ReauthWindow
      count == IF reset THEN 0 ELSE reauthCount[m] IN
    /\ handle[r] # NoHandle
    /\ CurrentHold(r)
    /\ handle[r].token # 0
    /\ token[m] = handle[r].token
    /\ CredentialFence(m, "expired", 0)
    /\ state' = [state EXCEPT ![m] = "failed"]
    /\ stage' = [stage EXCEPT ![m] = "login"]
    /\ generation' = [generation EXCEPT ![m] = @ + 2]
    /\ attempt' = [attempt EXCEPT ![m] = @ + 1]
    /\ attempts' = [attempts EXCEPT ![m] = 0]
    /\ retryAt' = [retryAt EXCEPT ![m] = now]
    /\ verified' = [verified EXCEPT ![m] = FALSE]
    /\ reauthCount' = [reauthCount EXCEPT ![m] = count + 1]
    /\ reauthAt' = [reauthAt EXCEPT ![m] = IF reset THEN now ELSE @]
    /\ lease' = CutLeases(lease, {m})
    /\ UNCHANGED <<now, manual, coolUntil, hold, cooldown, enterprise, handle, job, proven>>

(* recoverUnauthorized(): the upstream answered 401 to the token sent. *)
RecoverUnauthorized(r) ==
  LET m == handle[r].member
      reset == reauthAt[m] = 0 \/ now - reauthAt[m] >= ReauthWindow
      count == IF reset THEN 0 ELSE reauthCount[m]
      exhausted == count >= ReauthMaxCycles IN
    /\ handle[r] # NoHandle
    /\ CurrentHold(r)
    /\ handle[r].token # 0
    /\ token[m] = handle[r].token
    /\ CredentialFence(m, "expired", 0)
    /\ state' = [state EXCEPT ![m] = "failed"]
    /\ stage' = [stage EXCEPT ![m] = "login"]
    /\ generation' = [generation EXCEPT ![m] = @ + 2]
    /\ attempt' = [attempt EXCEPT ![m] = @ + 1]
    /\ attempts' = [attempts EXCEPT ![m] = IF exhausted THEN AttemptLimit ELSE 0]
    /\ manual' = [manual EXCEPT ![m] = FALSE]
    /\ retryAt' = [retryAt EXCEPT ![m] = now]
    /\ verified' = [verified EXCEPT ![m] = FALSE]
    /\ reauthCount' = [reauthCount EXCEPT ![m] = IF exhausted THEN count ELSE count + 1]
    /\ reauthAt' = [reauthAt EXCEPT ![m] = IF reset THEN now ELSE @]
    /\ lease' = CutLeases(lease, {m})
    /\ UNCHANGED <<now, coolUntil, hold, cooldown, enterprise, handle, job, proven>>

(* cool(): the upstream answered 429.  Callers that only hold the member
   for discovery are cooled themselves, since no lease remembers them. *)
Cool(r) ==
  LET m == handle[r].member
      until == Later(coolUntil[m], now + CoolTime) IN
    /\ now + CoolTime <= MaxTime
    /\ handle[r] # NoHandle
    /\ CurrentHold(r)
    /\ state' = [state EXCEPT ![m] = "cooling"]
    /\ coolUntil' = [coolUntil EXCEPT ![m] = until]
    /\ cooldown' = [c \in Callers |->
         IF \E q \in HeldBy(hold, m) : hold[q].kind = "catalog" /\ hold[q].caller = c
         THEN Later(cooldown[c], until) ELSE cooldown[c]]
    /\ UNCHANGED <<now, stage, generation, attempt, attempts, manual, retryAt, verified,
                   reauthCount, reauthAt, credVars, lease, hold, enterprise, handle, job, proven>>

(* quarantine() with the request's hold as fence. *)
Quarantine(r) ==
  LET m == handle[r].member IN
    /\ handle[r] # NoHandle
    /\ CurrentHold(r)
    /\ state' = [state EXCEPT ![m] = "failed"]
    /\ generation' = [generation EXCEPT ![m] = @ + 1]
    /\ attempts' = [attempts EXCEPT ![m] = AttemptLimit]
    /\ manual' = [manual EXCEPT ![m] = FALSE]
    /\ retryAt' = [retryAt EXCEPT ![m] = now + RetryDelay]
    /\ lease' = CutLeases(lease, {m})
    /\ UNCHANGED <<now, stage, attempt, coolUntil, verified, reauthCount, reauthAt,
                   credVars, hold, cooldown, enterprise, handle, job, proven>>

(* Mutant: any success renews, whatever happened to the hold. *)
RenewedByAnySuccess(r, success) ==
  IF success /\ handle[r].kind = "lease" /\ lease[handle[r].caller] # NoLease
  THEN [lease EXCEPT ![handle[r].caller].phase = "active",
                     ![handle[r].caller].expires = now + LeaseTTL]
  ELSE lease

(* The lease of a request that succeeded under a current hold. *)
RenewedLeases(r, success) ==
  IF /\ success /\ handle[r].kind = "lease" /\ CurrentHold(r)
     /\ lease[handle[r].caller] # NoLease /\ state[handle[r].member] = "ready"
  THEN [lease EXCEPT ![handle[r].caller].phase = "active",
                     ![handle[r].caller].expires = now + LeaseTTL]
  ELSE lease

(* finish(): renew, drop the hold, reclaim.  A hold that is gone makes the
   completion a no-op. *)
Finish(r, success) ==
  /\ handle[r] # NoHandle
  /\ handle' = [handle EXCEPT ![r] = NoHandle]
  /\ IF hold[r] = NoHold
     THEN UNCHANGED <<memberVars, leaseVars>>
     ELSE LET hs == [hold EXCEPT ![r] = NoHold] IN
            /\ ReclaimMembers
            /\ hold' = ReclaimedHolds(hs)
            /\ lease' = ReclaimedLeases(RenewedLeases(r, success), hs)
            /\ cooldown' = ReclaimedCooldown
  /\ UNCHANGED <<now, credVars, enterprise, job, proven>>

(* The Proxy process dies, or its call of finish() fails: the handle is
   lost and the hold row stays behind. *)
LoseHandle(r) ==
  /\ handle[r] # NoHandle
  /\ handle' = [handle EXCEPT ![r] = NoHandle]
  /\ UNCHANGED <<now, memberVars, credVars, leaseVars, enterprise, job, proven>>

-----------------------------------------------------------------------------
(* Administration. *)

(* Deleting a lease row deletes its holds (ON DELETE CASCADE). *)
DeleteLeases(C) ==
  /\ lease' = [c \in Callers |-> IF c \in C THEN NoLease ELSE lease[c]]
  /\ hold' = [r \in Requests |->
       IF hold[r] # NoHold /\ hold[r].kind = "lease" /\ hold[r].caller \in C
       THEN NoHold ELSE hold[r]]

LeasedTo(m) == {c \in Callers : lease[c] # NoLease /\ lease[c].member = m}

(* release(): 409 while a request uses the member. *)
Release(c) ==
  /\ lease[c] # NoLease
  /\ ~HasHolds(hold, lease[c].member)
  /\ DeleteLeases({c})
  /\ UNCHANGED <<now, memberVars, credVars, cooldown, enterprise, handle, job, proven>>

Disable(m) ==
  /\ state[m] # "disabled"
  /\ state' = [state EXCEPT ![m] = "disabled"]
  /\ attempt' = [attempt EXCEPT ![m] = @ + 1]
  /\ generation' = [generation EXCEPT ![m] = @ + 1]
  /\ IF HasHolds(hold, m)
     THEN lease' = CutLeases(lease, {m}) /\ UNCHANGED hold
     ELSE DeleteLeases(LeasedTo(m))
  /\ UNCHANGED <<now, stage, attempts, manual, retryAt, coolUntil, verified, reauthCount,
                 reauthAt, credVars, cooldown, enterprise, handle, job, proven>>

(* retry(): the only way out of "disabled". *)
Retry(m) ==
  /\ generation[m] < MaxGeneration
  /\ ~HasHolds(hold, m)
  /\ state[m] \in {"failed", "disabled"}
  /\ ~manual[m]
  /\ DeleteLeases(LeasedTo(m))
  /\ state' = [state EXCEPT ![m] = "provisioning"]
  /\ stage' = [stage EXCEPT ![m] = IF @ = "ready" THEN "warmup" ELSE @]
  /\ attempts' = [attempts EXCEPT ![m] = 0]
  /\ retryAt' = [retryAt EXCEPT ![m] = 0]
  /\ coolUntil' = [coolUntil EXCEPT ![m] = 0]
  /\ verified' = [verified EXCEPT ![m] = FALSE]
  /\ generation' = [generation EXCEPT ![m] = @ + 1]
  /\ attempt' = [attempt EXCEPT ![m] = @ + 1]
  /\ UNCHANGED <<now, manual, reauthCount, reauthAt, credVars, cooldown, enterprise,
                 handle, job, proven>>

(* updateEnterprisePolicy(): the lifecycle transitions it allows. *)
SetEnterprise(e, s) ==
  /\ <<enterprise[e], s>> \in {<<"draft", "active">>, <<"active", "draining">>, <<"draining", "active">>}
  /\ enterprise' = [enterprise EXCEPT ![e] = s]
  /\ UNCHANGED <<now, memberVars, credVars, leaseVars, handle, job, proven>>

-----------------------------------------------------------------------------
(***************************************************************************)
(* Writers of proxy_accounts.  Login callbacks come whenever they come,    *)
(* whatever the pool is doing with the member.  A Proxy in direct mode on  *)
(* the same database does not know the pool (poolGuard finds no pool), so  *)
(* reauthorizations and imports may hit a member in any state.             *)
(***************************************************************************)

(* Mutant: a new credential keeps the verification of the old one. *)
WriteCredentialVerified(m, newStatus, newToken) ==
  /\ generation[m] < MaxGeneration
  /\ CredentialFence(m, newStatus, newToken)
  /\ generation' = [generation EXCEPT ![m] = @ + 1]
  /\ UNCHANGED <<now, state, stage, attempt, attempts, manual, retryAt, coolUntil, verified,
                 reauthCount, reauthAt, leaseVars, enterprise, handle, job, proven>>

WriteCredential(m, newStatus, newToken) ==
  /\ generation[m] < MaxGeneration
  /\ CredentialFence(m, newStatus, newToken)
  /\ generation' = [generation EXCEPT ![m] = @ + 1]
  /\ verified' = [verified EXCEPT ![m] = FALSE]
  /\ UNCHANGED <<now, state, stage, attempt, attempts, manual, retryAt, coolUntil,
                 reauthCount, reauthAt, leaseVars, enterprise, handle, job, proven>>

(* A login attempt starts, by the worker or by a reauthorization; the old
   token stays in its column. *)
BeginLogin(m) == WriteCredential(m, "refreshing", token[m])

(* The attempt delivers a new token, named by the generation it creates. *)
SaveToken(m) == status[m] = "refreshing" /\ WriteCredential(m, "valid", generation[m] + 1)

(* The attempt fails. *)
FailLogin(m) == status[m] = "refreshing" /\ WriteCredential(m, "failed", token[m])

(* An operator imports a token: no attempt is involved. *)
ImportToken(m) == WriteCredential(m, "valid", generation[m] + 1)

-----------------------------------------------------------------------------
(* The prewarm worker: one step at a time per member. *)

(* pending(): reclaim, then a member that is due and has no hold row. *)
Pick(m) ==
  /\ job[m] = NoJob
  /\ ReclaimMembers
  /\ hold' = ReclaimedHolds(hold)
  /\ lease' = ReclaimedLeases(lease, hold)
  /\ cooldown' = ReclaimedCooldown
  /\ retryAt'[m] <= now
  /\ \/ state'[m] = "provisioning"
     \/ state'[m] = "failed" /\ attempts[m] < AttemptLimit /\ ~manual'[m]
  /\ HeldBy(hold', m) = {}
  /\ job' = [job EXCEPT ![m] = [attempt |-> attempt[m], generation |-> generation'[m],
                                stage |-> stage'[m], step |-> "picked", token |-> 0]]
  /\ UNCHANGED <<now, credVars, enterprise, handle, proven>>

(* advance() re-reads the row it was given and claims a failed member. *)
Claim(m) ==
  /\ job[m] # NoJob
  /\ job[m].step = "picked"
  /\ job[m].attempt = attempt[m] /\ job[m].generation = generation[m] /\ job[m].stage = stage[m]
  /\ ~HasHolds(hold, m)
  /\ \/ /\ state[m] = "failed"
        /\ generation[m] < MaxGeneration
        /\ state' = [state EXCEPT ![m] = "provisioning"]
        /\ generation' = [generation EXCEPT ![m] = @ + 1]
        /\ lease' = CutLeases(lease, {m})
     \/ state[m] = "provisioning" /\ UNCHANGED <<state, generation, lease>>
  /\ job' = [job EXCEPT ![m].step = "claimed", ![m].generation = generation'[m]]
  /\ UNCHANGED <<now, stage, attempt, attempts, manual, retryAt, coolUntil, verified,
                 reauthCount, reauthAt, credVars, hold, cooldown, enterprise, handle, proven>>

(* readCurrent(): the step may go on.  The generation counts once pinned. *)
JobCurrent(m, steps) ==
  /\ job[m] # NoJob
  /\ job[m].step \in steps
  /\ state[m] = "provisioning"
  /\ job[m].attempt = attempt[m]
  /\ job[m].stage = stage[m]
  /\ ~HasHolds(hold, m)
  /\ job[m].step \in {"pinned", "warming", "warmed", "rejected", "failing"}
       => job[m].generation = generation[m]

(* oauth-wait with a finished task and a stored token. *)
LoginConfirmed(m) ==
  /\ JobCurrent(m, {"claimed"})
  /\ stage[m] = "login"
  /\ CredentialValid(m)
  /\ stage' = [stage EXCEPT ![m] = "warmup"]
  /\ retryAt' = [retryAt EXCEPT ![m] = now]
  /\ job' = [job EXCEPT ![m] = NoJob]
  /\ UNCHANGED <<now, state, generation, attempt, attempts, manual, coolUntil, verified,
                 reauthCount, reauthAt, credVars, leaseVars, enterprise, handle, proven>>

(* Another step of the login stages: it moved on, and the member is due at
   once, or it made no progress, and the member is due later. *)
LoginStep(m) ==
  /\ JobCurrent(m, {"claimed"})
  /\ stage[m] = "login"
  /\ \E due \in {now, now + RetryDelay} : retryAt' = [retryAt EXCEPT ![m] = due]
  /\ job' = [job EXCEPT ![m] = NoJob]
  /\ UNCHANGED <<now, state, stage, generation, attempt, attempts, manual, coolUntil, verified,
                 reauthCount, reauthAt, credVars, leaseVars, enterprise, handle, proven>>

(* mutateWorkerCredential({link}): the GitHub login is written to the account,
   which the credential fence counts as a change. *)
LinkAccount(m) ==
  /\ JobCurrent(m, {"claimed"})
  /\ stage[m] = "login"
  /\ WriteCredential(m, status[m], token[m])

(* warmup: pinCredentials() fixes the generation before the token is read. *)
PinCredentials(m) ==
  /\ JobCurrent(m, {"claimed"})
  /\ stage[m] \in {"warmup", "ready"}
  /\ job' = [job EXCEPT ![m].step = "pinned", ![m].generation = generation[m]]
  /\ UNCHANGED <<now, memberVars, credVars, leaseVars, enterprise, handle, proven>>

(* The account is read without a fence: the token may be newer than the pin. *)
ReadAccount(m) ==
  /\ job[m] # NoJob
  /\ job[m].step = "pinned"
  /\ CredentialValid(m)
  /\ job' = [job EXCEPT ![m].step = "warming", ![m].token = token[m]]
  /\ UNCHANGED <<now, memberVars, credVars, leaseVars, enterprise, handle, proven>>

(* Warmup falls back to the login stages: no usable credential when it was
   read, or a 401 to the token it sent. *)
ResetStage(m) ==
  /\ JobCurrent(m, {"pinned", "warming"})
  /\ job[m].step = "pinned" => ~CredentialValid(m)
  /\ stage' = [stage EXCEPT ![m] = "login"]
  /\ job' = [job EXCEPT ![m].stage = "login",
                        ![m].step = IF @ = "pinned" THEN "failing" ELSE "rejected"]
  /\ UNCHANGED <<now, state, generation, attempt, attempts, manual, retryAt, coolUntil, verified,
                 reauthCount, reauthAt, credVars, leaseVars, enterprise, handle, proven>>

(* mutateWorkerCredential({invalidate}) after the 401. *)
InvalidateRejected(m) ==
  /\ JobCurrent(m, {"rejected"})
  /\ status[m] = "valid" /\ token[m] = job[m].token
  /\ CredentialFence(m, "expired", 0)
  /\ generation' = [generation EXCEPT ![m] = @ + 1]
  /\ verified' = [verified EXCEPT ![m] = FALSE]
  /\ job' = [job EXCEPT ![m].step = "failing", ![m].generation = @ + 1]
  /\ UNCHANGED <<now, state, stage, attempt, attempts, manual, retryAt, coolUntil,
                 reauthCount, reauthAt, leaseVars, enterprise, handle, proven>>

(* The upstream accepted the warmup request and the account, read again,
   still has the token that was sent. *)
Warmed(m) ==
  /\ job[m] # NoJob
  /\ job[m].step = "warming"
  /\ CredentialValid(m) /\ token[m] = job[m].token
  /\ job' = [job EXCEPT ![m].step = "warmed"]
  /\ UNCHANGED <<now, memberVars, credVars, leaseVars, enterprise, handle, proven>>

(* The final checkpoint of a warmup. *)
Promote(m) ==
  /\ JobCurrent(m, {"warmed"})
  /\ state' = [state EXCEPT ![m] = "ready"]
  /\ stage' = [stage EXCEPT ![m] = "ready"]
  /\ verified' = [verified EXCEPT ![m] = TRUE]
  /\ attempts' = [attempts EXCEPT ![m] = 0]
  /\ manual' = [manual EXCEPT ![m] = FALSE]
  /\ retryAt' = [retryAt EXCEPT ![m] = 0]
  /\ job' = [job EXCEPT ![m] = NoJob]
  /\ proven' = [proven EXCEPT ![m] = job[m].token]
  /\ UNCHANGED <<now, generation, attempt, coolUntil, reauthCount, reauthAt, credVars, leaseVars,
                 enterprise, handle>>

(* fail(): the step threw.  A terminal failure exhausts the attempts; some
   of them wait for an operator (MANUAL_ERRORS). *)
StepFail(m, kind) ==
  LET n == IF kind = "transient" THEN attempts[m] + 1 ELSE Later(AttemptLimit, attempts[m] + 1) IN
    /\ JobCurrent(m, JobSteps \ {"picked"})
    /\ kind = "manual" => stage[m] = "login"
    /\ state' = [state EXCEPT ![m] = "failed"]
    /\ generation' = [generation EXCEPT ![m] = @ + 1]
    /\ attempts' = [attempts EXCEPT ![m] = n]
    /\ manual' = [manual EXCEPT ![m] = (kind = "manual")]
    /\ retryAt' = [retryAt EXCEPT ![m] = now + RetryDelay]
    /\ lease' = CutLeases(lease, {m})
    /\ job' = [job EXCEPT ![m] = NoJob]
    /\ UNCHANGED <<now, stage, attempt, coolUntil, verified, reauthCount, reauthAt, credVars,
                   hold, cooldown, enterprise, handle, proven>>

(* The step is fenced, aborted, or its process dies. *)
LoseJob(m) ==
  /\ job[m] # NoJob
  /\ job' = [job EXCEPT ![m] = NoJob]
  /\ UNCHANGED <<now, memberVars, credVars, leaseVars, enterprise, handle, proven>>

-----------------------------------------------------------------------------
Tick ==
  /\ now < MaxTime
  /\ now' = now + 1
  /\ UNCHANGED <<memberVars, credVars, leaseVars, enterprise, handle, job, proven>>

RequestNext ==
  \E r \in Requests :
    \/ \E c \in Callers : AcquireLeased(c, r) \/ AcquireNew(c, r) \/ AcquireCatalog(c, r)
    \/ \E m \in WorkedMembers :
         /\ handle[r] # NoHandle /\ handle[r].member = m
         /\ Authorize(r) \/ RecoverUnauthorized(r)
    \/ Cool(r)
    \/ Quarantine(r)
    \/ \E success \in BOOLEAN : Finish(r, success)
    \/ LoseHandle(r)

AdminNext ==
  \/ \E c \in Callers : Release(c)
  \/ \E m \in Members : Disable(m)
  \/ \E m \in WorkedMembers : Retry(m)
  \/ \E e \in Enterprises, s \in {"active", "draining"} : SetEnterprise(e, s)

LoginNext == \E m \in WorkedMembers : BeginLogin(m) \/ SaveToken(m) \/ FailLogin(m) \/ ImportToken(m)

WorkerNext ==
  \E m \in WorkedMembers :
    \/ Pick(m) \/ Claim(m) \/ LoginConfirmed(m) \/ LoginStep(m) \/ LinkAccount(m)
    \/ PinCredentials(m) \/ ReadAccount(m) \/ ResetStage(m) \/ InvalidateRejected(m)
    \/ Warmed(m) \/ Promote(m) \/ LoseJob(m)
    \/ \E kind \in {"transient", "terminal", "manual"} : StepFail(m, kind)

Next == Tick \/ Reclaim \/ RequestNext \/ AdminNext \/ LoginNext \/ WorkerNext

Spec == Init /\ [][Next]_vars

(***************************************************************************)
(* The clock runs, and every worker poll (schedule()) begins with a        *)
(* reclaim() whatever the requests do.                                     *)
(***************************************************************************)
FairSpec == Spec /\ WF_vars(Tick) /\ WF_vars(Reclaim)

-----------------------------------------------------------------------------
(* Safety properties. *)

(* A request is in flight until its hold would lapse, whether or not the
   database still has the row. *)
InFlight(r) == handle[r] # NoHandle /\ handle[r].expires > now

(* Two requests in flight use the same member exactly when they belong to
   the same caller: acquire() and acquireCatalog() never share a member
   between callers nor spread a caller over members. *)
OneCallerPerMember ==
  \A r, q \in Requests : InFlight(r) /\ InFlight(q)
    => (handle[r].member = handle[q].member <=> handle[r].caller = handle[q].caller)

(* While a request is in flight its hold row, and for inference the lease it
   was admitted under, stay in the database: reclaim(), release(), disable()
   and retry() only delete what nobody uses. *)
InFlightIsPinned ==
  \A r \in Requests : InFlight(r) =>
    /\ hold[r] # NoHold
    /\ handle[r].kind = "lease" => lease[handle[r].caller] # NoLease
                                   /\ lease[handle[r].caller].member = handle[r].member

(* The UNIQUE(member_identity) constraint of user_pool_leases is never hit:
   an insert cannot fail with a constraint error. *)
LeasesAreExclusive ==
  \A c, d \in Callers : lease[c] # NoLease /\ lease[d] # NoLease
    => (lease[c].member = lease[d].member => c = d)

(* The worker never rebuilds a member that a caller still has: while a
   member is provisioning it has no lease and no request in flight. *)
RebuiltMemberIsUnused ==
  \A m \in Members : state[m] = "provisioning" =>
    /\ LeasedTo(m) = {}
    /\ \A r \in Requests : InFlight(r) => handle[r].member # m

(* Every request of a lease is admitted under the generation the lease was
   created in: a lease never outlives its member's credential. *)
LeaseHasOneGeneration ==
  \A r \in Requests : hold[r] # NoHold /\ hold[r].kind = "lease"
    => hold[r].generation = lease[hold[r].caller].born

(* A caller that never succeeds cannot keep a member by starting requests:
   each was admitted before the provisional lease expired. *)
ProvisionalLeaseIsBounded ==
  \A r \in Requests : hold[r] # NoHold /\ hold[r].kind = "lease" =>
    LET l == lease[hold[r].caller] IN
      l.phase = "provisional"
        => hold[r].expires < l.assigned + ProvisionalTTL + RequestTimeout + HoldDrain

(* A caller that discovers models through a cooling member is cooled for as
   long as the member, so it cannot hop to another one when its hold ends. *)
CooldownFollowsCaller ==
  \A r \in Requests : hold[r] # NoHold /\ hold[r].kind = "catalog" /\ state[hold[r].member] = "cooling"
    => cooldown[hold[r].caller] >= coolUntil[hold[r].member]

(* A member counts as verified only for the very credential its last warmup
   request succeeded with. *)
VerifiedMeansProven ==
  \A m \in Members : verified[m] => CredentialValid(m) /\ token[m] = proven[m]

(* A lease is only prolonged while its member is ready in the generation the
   lease was created in; a cut lease is never revived by a late success. *)
RenewalNeedsItsGeneration ==
  [][\A c \in Callers :
       /\ lease[c] # NoLease /\ lease'[c] # NoLease
       /\ lease'[c].born = lease[c].born /\ lease'[c].assigned = lease[c].assigned
       /\ lease'[c].member = lease[c].member
       /\ lease'[c].expires > lease[c].expires
       => generation[lease[c].member] = lease[c].born /\ state[lease[c].member] = "ready"]_vars

(* While an enterprise is not active none of its members gets a new lease or
   a new catalog hold; requests on existing leases go on. *)
DrainingEnterpriseAdmitsNobody ==
  [][\A m \in Members : enterprise[EnterpriseOf[m]] # "active" =>
       /\ \A c \in Callers : lease[c] = NoLease => lease'[c] = NoLease \/ lease'[c].member # m
       /\ \A r \in Requests : hold[r] = NoHold /\ hold'[r] # NoHold /\ hold'[r].member = m
            => hold'[r].kind = "lease" /\ lease[hold'[r].caller] # NoLease]_vars

(* A stored token is erased only because the upstream rejected that token,
   never because of a late answer to an older one. *)
ErasedTokenWasRejected ==
  [][\A m \in Members : token[m] # 0 /\ token'[m] = 0 =>
       \/ \E r \in Requests : handle[r] # NoHandle /\ handle[r].member = m /\ handle[r].token = token[m]
       \/ job[m] # NoJob /\ job[m].token = token[m]]_vars

(* A member that needs manual reconciliation stays out of the pool: neither
   the worker nor retry() brings it back. *)
ManualErrorIsFinal ==
  [][\A m \in Members : manual[m] => manual'[m] /\ state'[m] \in {"failed", "disabled"}]_vars

(* Nobody keeps a member beyond its time, and nobody escapes a cooling one. *)
LeaseTimesAreKept == ProvisionalLeaseIsBounded /\ CooldownFollowsCaller

(* A member is served under the credential it was proven with, and rebuilt
   only when nobody has it. *)
CredentialsAreSound == RebuiltMemberIsUnused /\ LeaseHasOneGeneration /\ VerifiedMeansProven

(* What no step of a request, an operator or the worker does. *)
PoolStepsAreLegal ==
  /\ RenewalNeedsItsGeneration
  /\ DrainingEnterpriseAdmitsNobody
  /\ ErasedTokenWasRejected
  /\ ManualErrorIsFinal

-----------------------------------------------------------------------------
(* The inductive invariant behind the sharing properties. *)

(* Caller c has member m, by a lease or by a hold, in the tables ls and hs. *)
BoundIn(ls, hs, c, m) ==
  \/ ls[c] # NoLease /\ ls[c].member = m
  \/ \E r \in Requests : hs[r] # NoHold /\ hs[r].caller = c /\ hs[r].member = m

(* The rows pair callers and members one to one. *)
OneToOneIn(ls, hs) ==
  \A c, d \in Callers, m, n \in Members :
    BoundIn(ls, hs, c, m) /\ BoundIn(ls, hs, d, n) => (c = d <=> m = n)

(* The foreign key from inference holds to leases. *)
HoldHasLeaseIn(ls, hs) ==
  \A r \in Requests : hs[r] # NoHold /\ hs[r].kind = "lease"
    => ls[hs[r].caller] # NoLease /\ ls[hs[r].caller].member = hs[r].member

(* The row of a request in flight says what its handle says. *)
HandleHasHold ==
  \A r \in Requests : InFlight(r) =>
    /\ hold[r] # NoHold
    /\ hold[r].kind = handle[r].kind /\ hold[r].caller = handle[r].caller
    /\ hold[r].member = handle[r].member /\ hold[r].expires = handle[r].expires

SharingInv ==
  /\ TypeOK
  /\ OneToOneIn(lease, hold)
  /\ HoldHasLeaseIn(lease, hold)
  /\ HandleHasHold

-----------------------------------------------------------------------------
(* The inductive invariant behind the lease times, the credentials and the
   legality of the steps, on top of SharingInv. *)

(* Nobody has the member: no lease names it and no request in flight uses it. *)
Detached(m) ==
  /\ LeasedTo(m) = {}
  /\ \A r \in Requests : InFlight(r) => handle[r].member # m

(* A lease row against the member row it names.  It is as old as the member's
   generation or older; in its own generation nothing has cut it below its
   insertion; unexpired, its member still serves, and in the lease's generation
   unless the credential was written since. *)
RowAges(l) ==
  LET m == l.member IN
    /\ l.assigned <= now
    /\ l.born <= generation[m]
    /\ l.born = generation[m] => l.expires > l.assigned
    /\ l.expires > now => l.born = generation[m] \/ ~verified[m]
    /\ l.expires > now => state[m] \in {"ready", "cooling"}
    /\ l.phase = "provisional" => l.expires <= l.assigned + ProvisionalTTL

LeasesAge == \A c \in Callers : lease[c] # NoLease => RowAges(lease[c])

(* A hold row and a handle of the same slot are of the same admission. *)
HandleAgrees ==
  \A r \in Requests : handle[r] # NoHandle /\ hold[r] # NoHold =>
    /\ hold[r].kind = handle[r].kind /\ hold[r].caller = handle[r].caller
    /\ hold[r].member = handle[r].member /\ hold[r].expires = handle[r].expires

(* What a worker step that still has the member's generation may rely on. *)
JobIsBacked(m) ==
  job[m] # NoJob =>
    /\ job[m].generation <= generation[m]
    /\ ~manual[m]
    /\ job[m].step = "picked" /\ job[m].generation = generation[m]
         => Detached(m) /\ state[m] \in {"failed", "provisioning"}
    /\ job[m].step = "warmed" /\ job[m].generation = generation[m]
         => CredentialValid(m) /\ token[m] = job[m].token

MemberIsSound(m) ==
  /\ manual[m] => state[m] \in {"failed", "disabled"}
  /\ JobIsBacked(m)
  /\ state[m] = "provisioning" => Detached(m)
  /\ verified[m] => CredentialValid(m) /\ token[m] = proven[m]

ReworkInv ==
  /\ SharingInv
  /\ LeasesAge
  /\ HandleAgrees
  /\ \A m \in Members : MemberIsSound(m)
  /\ LeaseHasOneGeneration
  /\ ProvisionalLeaseIsBounded
  /\ CooldownFollowsCaller

-----------------------------------------------------------------------------
(* Liveness. *)

(* The hold a dead Proxy left behind does not pin its member for ever. *)
OrphanHoldIsDropped ==
  \A r \in Requests : (hold[r] # NoHold /\ handle[r] = NoHandle) ~> hold[r] = NoHold

(* A draining lease (503 lease_draining) ends: it is deleted or renewed. *)
ExpiredLeaseEnds ==
  \A c \in Callers : (lease[c] # NoLease /\ lease[c].expires <= now)
                       ~> (lease[c] = NoLease \/ lease[c].expires > now)

(* No row of a caller that went away stays for ever. *)
RowsEnd == OrphanHoldIsDropped /\ ExpiredLeaseEnds

=============================================================================

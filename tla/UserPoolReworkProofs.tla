------------------------- MODULE UserPoolReworkProofs -------------------------
(***************************************************************************)
(* Lease times, credentials and the legality of the steps of UserPool, for *)
(* every set of callers, members and requests and every duration.          *)
(*                                                                         *)
(* The argument rests on the generation of a member.  Whatever takes a     *)
(* member away from its callers (an error, disable(), retry(), a failed    *)
(* reclaim) raises the generation and cuts the member's leases, so an      *)
(* unexpired lease is of its member's generation; a worker step compares   *)
(* the generation it was picked or pinned with, so what it found then      *)
(* (nobody has the member, this token was accepted) is still so.           *)
(***************************************************************************)
EXTENDS UserPoolProofs, MCPoolRework, SequenceTheorems

-----------------------------------------------------------------------------
(* What the steps do to the rows of the tables. *)

CutRow(l) == [l EXCEPT !.expires = Earlier(@, now)]

(* The step removes rows, renews or cuts leases and ends requests, but it
   adds no row. *)
RowsShrink ==
  /\ now <= now'
  /\ \A c \in Callers : lease'[c] # NoLease =>
       /\ lease[c] # NoLease
       /\ lease'[c].member = lease[c].member /\ lease'[c].born = lease[c].born
       /\ lease'[c].assigned = lease[c].assigned
       /\ lease'[c].phase = "provisional" => lease[c].phase = "provisional"
  /\ \A r \in Requests : hold'[r] # NoHold => hold'[r] = hold[r]
  /\ \A r \in Requests : handle'[r] # NoHandle =>
       /\ handle[r] # NoHandle
       /\ handle'[r].kind = handle[r].kind /\ handle'[r].caller = handle[r].caller
       /\ handle'[r].member = handle[r].member /\ handle'[r].expires = handle[r].expires

(* The three ways to be admitted: on an unexpired lease, on a member for
   discovery only, on a member under a new lease. *)
Admission(kind, c, r, m) ==
  LET ls == ReclaimedLeases(lease, hold) IN
    /\ Admit(kind, c, r, m)
    /\ \/ ls[c] # NoLease /\ ls[c].member = m /\ ls[c].expires > now /\ lease' = ls
       \/ ls[c] = NoLease /\ kind = "catalog" /\ lease' = ls
       \/ ls[c] = NoLease /\ kind = "lease" /\ EnterpriseActive(m) /\ lease' = [ls EXCEPT ![c] = NewLease(m)]
    /\ kind = "catalog" => EnterpriseActive(m)

(* An invalidating update touches the rows of its members only. *)
LEMMA CutLeasesRows ==
  ASSUME now \in Nat, NEW ls \in LeaseTable, NEW M, NEW c \in Callers, ls[c] # NoLease
  PROVE  /\ CutLeases(ls, M)[c] = IF ls[c].member \in M THEN CutRow(ls[c]) ELSE ls[c]
         /\ ls[c] \in LeaseRow /\ CutRow(ls[c]) \in LeaseRow
<1>1. ls[c] \in LeaseRow
  BY DEF LeaseTable
<1>2. Earlier(ls[c].expires, now) \in Nat
  BY <1>1 DEF Earlier, LeaseRow
<1> QED
  BY <1>1, <1>2 DEF CutLeases, CutRow, LeaseRow

(* A cut row is the row, expired. *)
LEMMA CutRowFacts ==
  ASSUME now \in Nat, NEW l \in LeaseRow
  PROVE  /\ CutRow(l) \in LeaseRow
         /\ CutRow(l).member = l.member /\ CutRow(l).phase = l.phase
         /\ CutRow(l).assigned = l.assigned /\ CutRow(l).born = l.born
         /\ CutRow(l).expires <= now /\ CutRow(l).expires <= l.expires
BY DEF CutRow, LeaseRow, Earlier

(* reclaim() leaves a lease row alone, cuts it, or deletes it. *)
LEMMA ReclaimedRows ==
  ASSUME now \in Nat, NEW ls \in LeaseTable, NEW hs \in HoldTable, NEW c \in Callers
  PROVE  /\ ReclaimedLeases(ls, hs)[c] # NoLease =>
              /\ ls[c] # NoLease /\ ls[c] \in LeaseRow
              /\ ReclaimedLeases(ls, hs)[c]
                   = IF ReclaimFails(ls[c].member) THEN CutRow(ls[c]) ELSE ls[c]
         /\ ReclaimedLeases(ls, hs)[c] # NoLease /\ ReclaimedLeases(ls, hs)[c].expires <= now
              => ReclaimedState[ls[c].member] = "cooling" \/ HasHolds(hs, ls[c].member)
<1> DEFINE cut == CutLeases(ls, FailedByReclaim)
           rl == ReclaimedLeases(ls, hs)
<1>1. cut[c] = NoLease <=> ls[c] = NoLease
  BY CutLeasesFacts
<1>2. ASSUME ls[c] # NoLease
      PROVE  /\ ls[c] \in LeaseRow
             /\ cut[c] = IF ReclaimFails(ls[c].member) THEN CutRow(ls[c]) ELSE ls[c]
  BY <1>2, CutLeasesRows DEF FailedByReclaim, LeaseTable, LeaseRow
<1> HIDE DEF cut
<1>3. rl[c] = IF /\ cut[c] # NoLease
                 /\ cut[c].expires <= now
                 /\ ReclaimedState[cut[c].member] # "cooling"
                 /\ ~HasHolds(hs, cut[c].member)
              THEN NoLease ELSE cut[c]
  BY DEF ReclaimedLeases, cut
<1> HIDE DEF rl
<1>4. rl[c] # NoLease => ls[c] # NoLease /\ rl[c] = cut[c]
  BY <1>1, <1>3
<1>5. ASSUME rl[c] # NoLease, rl[c].expires <= now
      PROVE  ReclaimedState[ls[c].member] = "cooling" \/ HasHolds(hs, ls[c].member)
  <2>1. ls[c] # NoLease /\ rl[c] = cut[c] /\ cut[c].member = ls[c].member
    BY <1>2, <1>4, <1>5, CutRowFacts
  <2> QED
    BY <1>3, <1>5, <2>1
<1> QED
  <2>1. rl[c] # NoLease =>
          /\ ls[c] # NoLease /\ ls[c] \in LeaseRow
          /\ rl[c] = IF ReclaimFails(ls[c].member) THEN CutRow(ls[c]) ELSE ls[c]
    BY <1>2, <1>4
  <2> QED
    BY <1>5, <2>1 DEF rl

(* Every admission is one of the three. *)
LEMMA AcquireIsAdmission ==
  ASSUME TypeOK, NEW c \in Callers, NEW r \in Requests,
         AcquireLeased(c, r) \/ AcquireNew(c, r) \/ AcquireCatalog(c, r)
  PROVE  \E kind \in {"lease", "catalog"}, m \in Members : Admission(kind, c, r, m)
<1> DEFINE ls == ReclaimedLeases(lease, hold)
           rh == ReclaimedHolds(hold)
<1>1. ls \in LeaseTable /\ rh \in HoldTable
  BY ReclaimTablesType
<1>2. ls[c] # NoLease => ls[c].member \in Members
  BY <1>1 DEF LeaseTable, LeaseRow
<1>3. ASSUME NEW m \in AvailableMembers(ls, rh, c) PROVE m \in Members /\ EnterpriseActive(m)
  <2>1. m \in Members
    BY <1>1, AvailableAreMembers
  <2> QED
    BY <2>1 DEF AvailableMembers, IdleMember
<1> HIDE DEF ls, rh
<1>4. CASE AcquireLeased(c, r)
  <2>1. Admission("lease", c, r, ls[c].member)
    BY <1>4 DEF AcquireLeased, Admission, ls
  <2> QED
    BY <1>2, <1>4, <2>1 DEF AcquireLeased, ls
<1>5. CASE AcquireNew(c, r)
  <2>1. PICK m \in AvailableMembers(ls, rh, c) :
           Admit("lease", c, r, m) /\ lease' = [ls EXCEPT ![c] = NewLease(m)] /\ ls[c] = NoLease
    BY <1>5 DEF AcquireNew, ls, rh
  <2>2. Admission("lease", c, r, m)
    BY <1>3, <2>1 DEF Admission, ls
  <2> QED
    BY <1>3, <2>2
<1>6. CASE AcquireCatalog(c, r)
  <2>1. CASE /\ ls[c] # NoLease /\ EnterpriseActive(ls[c].member) /\ ls[c].expires > now
             /\ Admit("catalog", c, r, ls[c].member) /\ lease' = ls
    <3>1. Admission("catalog", c, r, ls[c].member)
      BY <2>1 DEF Admission, ls
    <3> QED
      BY <1>2, <2>1, <3>1
  <2>2. ASSUME NEW m \in AvailableMembers(ls, rh, c), ls[c] = NoLease,
               Admit("catalog", c, r, m), lease' = ls
        PROVE  Admission("catalog", c, r, m)
    BY <1>3, <2>2 DEF Admission, ls
  <2> QED
    BY <1>3, <1>6, <2>1, <2>2 DEF AcquireCatalog, ls, rh
<1> QED
  BY <1>4, <1>5, <1>6

(* A step of RequestNext, whoever makes it. *)
LEMMA RequestCases ==
  ASSUME RequestNext
  PROVE  \E r \in Requests :
           \/ \E c \in Callers : AcquireLeased(c, r) \/ AcquireNew(c, r) \/ AcquireCatalog(c, r)
           \/ Authorize(r) \/ RecoverUnauthorized(r) \/ Cool(r) \/ Quarantine(r)
           \/ \E success \in BOOLEAN : Finish(r, success)
           \/ LoseHandle(r)
BY DEF RequestNext

(* A step of WorkerNext, for the member it works on. *)
LEMMA WorkerCases ==
  ASSUME WorkerNext
  PROVE  \E m \in Members :
           \/ Pick(m) \/ Claim(m) \/ LoginConfirmed(m) \/ LoginStep(m) \/ LinkAccount(m)
           \/ PinCredentials(m) \/ ReadAccount(m) \/ ResetStage(m) \/ InvalidateRejected(m)
           \/ Warmed(m) \/ Promote(m) \/ LoseJob(m)
           \/ \E kind \in {"transient", "terminal", "manual"} : StepFail(m, kind)
BY BoundAssumption DEF WorkerNext

(* A renewal keeps what identifies the lease. *)
LEMMA RenewedRows ==
  ASSUME TypeOK, NEW r \in Requests, NEW success, handle[r] # NoHandle
  PROVE  /\ RenewedLeases(r, success) \in LeaseTable
         /\ \A c \in Callers :
              \/ RenewedLeases(r, success)[c] = lease[c]
              \/ /\ lease[c] # NoLease /\ lease[c] \in LeaseRow /\ c = handle[r].caller
                 /\ success /\ handle[r].kind = "lease" /\ CurrentHold(r)
                 /\ state[handle[r].member] = "ready"
                 /\ RenewedLeases(r, success)[c] # NoLease
                 /\ RenewedLeases(r, success)[c] \in LeaseRow
                 /\ RenewedLeases(r, success)[c].member = lease[c].member
                 /\ RenewedLeases(r, success)[c].assigned = lease[c].assigned
                 /\ RenewedLeases(r, success)[c].born = lease[c].born
                 /\ RenewedLeases(r, success)[c].phase = "active"
                 /\ RenewedLeases(r, success)[c].expires = now + LeaseTTL
<1> DEFINE rn == RenewedLeases(r, success)
           d == handle[r].caller
           new == [lease[d] EXCEPT !.phase = "active", !.expires = now + LeaseTTL]
<1>1. lease \in LeaseTable /\ now + LeaseTTL \in Nat /\ d \in Callers
  BY DurationAssumption DEF TypeOK, Handle
<1>2. CASE rn = lease
  BY <1>1, <1>2
<1>3. CASE rn # lease
  <2>1. /\ rn = [lease EXCEPT ![d] = new] /\ lease[d] # NoLease
        /\ success /\ handle[r].kind = "lease" /\ CurrentHold(r) /\ state[handle[r].member] = "ready"
    BY <1>3 DEF RenewedLeases
  <2>2. lease[d] \in LeaseRow
    BY <1>1, <2>1 DEF LeaseTable
  <2>3. /\ new \in LeaseRow
        /\ new.member = lease[d].member /\ new.assigned = lease[d].assigned
        /\ new.born = lease[d].born /\ new.phase = "active" /\ new.expires = now + LeaseTTL
    BY <1>1, <2>2 DEF LeaseRow
  <2>4. new # NoLease
    BY <2>3, AbsentAssumption
  <2> HIDE DEF new, rn, d
  <2>5. rn \in LeaseTable
    BY <1>1, <2>1, <2>3 DEF LeaseTable
  <2>6. rn[d] = new /\ \A c \in Callers : c # d => rn[c] = lease[c]
    BY <1>1, <2>1 DEF LeaseTable
  <2>7. ASSUME NEW c \in Callers, c # d PROVE rn[c] = lease[c]
    BY ONLY <2>6, <2>7
  <2>8. /\ d = handle[r].caller /\ rn[d] # NoLease /\ rn[d] \in LeaseRow
        /\ rn[d].member = lease[d].member /\ rn[d].assigned = lease[d].assigned
        /\ rn[d].born = lease[d].born /\ rn[d].phase = "active" /\ rn[d].expires = now + LeaseTTL
    <3>1. d = handle[r].caller
      BY DEF d
    <3>2. rn[d] = new
      BY ONLY <2>6
    <3> QED
      BY ONLY <2>3, <2>4, <3>1, <3>2
  <2>9. ASSUME NEW c \in Callers
        PROVE  \/ rn[c] = lease[c]
               \/ /\ lease[c] # NoLease /\ lease[c] \in LeaseRow /\ c = handle[r].caller
                  /\ success /\ handle[r].kind = "lease" /\ CurrentHold(r)
                  /\ state[handle[r].member] = "ready"
                  /\ rn[c] # NoLease /\ rn[c] \in LeaseRow
                  /\ rn[c].member = lease[c].member /\ rn[c].assigned = lease[c].assigned
                  /\ rn[c].born = lease[c].born /\ rn[c].phase = "active" /\ rn[c].expires = now + LeaseTTL
    BY ONLY <2>1, <2>2, <2>7, <2>8, <2>9
  <2>10. rn = RenewedLeases(r, success)
    BY DEF rn
  <2> QED
    BY ONLY <2>5, <2>9, <2>10
<1> QED
  BY <1>2, <1>3

(* Only admissions add rows. *)
LEMMA OtherStepsShrink ==
  ASSUME TypeOK, [Next]_vars,
         ~\E c \in Callers, r \in Requests : AcquireLeased(c, r) \/ AcquireNew(c, r) \/ AcquireCatalog(c, r)
  PROVE  RowsShrink
<1>1. /\ now \in Nat /\ lease \in LeaseTable /\ hold \in HoldTable
      /\ handle \in [Requests -> Handle \cup {NoHandle}]
  BY DEF TypeOK
<1>2. ASSUME now' \in {now, now + 1}, UNCHANGED <<lease, hold, handle>> PROVE RowsShrink
  BY <1>1, <1>2 DEF RowsShrink
<1>3. ASSUME NEW M, lease' = CutLeases(lease, M), UNCHANGED <<now, hold, handle>> PROVE RowsShrink
  <2>1. ASSUME NEW c \in Callers, lease'[c] # NoLease
        PROVE  /\ lease[c] # NoLease
               /\ lease'[c].member = lease[c].member /\ lease'[c].born = lease[c].born
               /\ lease'[c].assigned = lease[c].assigned /\ lease'[c].phase = lease[c].phase
    <3>1. lease[c] # NoLease
      BY <1>1, <1>3, <2>1, CutLeasesFacts
    <3>2. lease[c] \in LeaseRow /\ (lease'[c] = lease[c] \/ lease'[c] = CutRow(lease[c]))
      BY <1>1, <1>3, <3>1, CutLeasesRows
    <3> QED
      BY <1>1, <3>1, <3>2, CutRowFacts
  <2> QED
    BY <1>1, <1>3, <2>1 DEF RowsShrink
<1>4. ASSUME NEW C, DeleteLeases(C), UNCHANGED <<now, handle>> PROVE RowsShrink
  BY <1>1, <1>4 DEF DeleteLeases, RowsShrink
<1>5. ASSUME NEW ls \in LeaseTable, NEW hs \in HoldTable, now' = now,
             lease' = ReclaimedLeases(ls, hs), hold' = ReclaimedHolds(hs),
             \A c \in Callers : ls[c] # NoLease =>
               /\ lease[c] # NoLease
               /\ ls[c].member = lease[c].member /\ ls[c].born = lease[c].born
               /\ ls[c].assigned = lease[c].assigned
               /\ ls[c].phase = "provisional" => lease[c].phase = "provisional",
             \A r \in Requests : hs[r] # NoHold => hs[r] = hold[r],
             \A r \in Requests : handle'[r] # NoHandle => handle'[r] = handle[r]
      PROVE  RowsShrink
  <2>1. ASSUME NEW c \in Callers, lease'[c] # NoLease
        PROVE  /\ ls[c] # NoLease
               /\ lease'[c].member = ls[c].member /\ lease'[c].born = ls[c].born
               /\ lease'[c].assigned = ls[c].assigned /\ lease'[c].phase = ls[c].phase
    <3>1. ls[c] # NoLease /\ ls[c] \in LeaseRow /\ (lease'[c] = ls[c] \/ lease'[c] = CutRow(ls[c]))
      BY <1>1, <1>5, <2>1, ReclaimedRows
    <3> QED
      BY <1>1, <3>1, CutRowFacts
  <2>2. \A r \in Requests : hold'[r] # NoHold => hold'[r] = hs[r]
    BY <1>1, <1>5, ReclaimedHoldsFacts
  <2> QED
    BY <1>1, <1>5, <2>1, <2>2 DEF RowsShrink
<1>6. CASE Tick
  BY <1>2, <1>6 DEF Tick, leaseVars
<1>7. CASE Reclaim
  BY <1>1, <1>5, <1>7 DEF Reclaim
<1>8. CASE RequestNext
  <2>1. PICK r \in Requests :
      \/ Authorize(r) \/ RecoverUnauthorized(r) \/ Cool(r) \/ Quarantine(r)
      \/ \E success \in BOOLEAN : Finish(r, success)
      \/ LoseHandle(r)
    BY <1>8, RequestCases
  <2>2. CASE Authorize(r)
    <3>1. handle[r] \in Handle
      BY <1>1, <2>2 DEF Authorize
    <3>2. handle' = [handle EXCEPT ![r] = [handle[r] EXCEPT !.token = token[handle[r].member]]]
          /\ lease' = lease /\ hold' = hold /\ now' = now /\ handle[r] # NoHandle
      BY <2>2 DEF Authorize, leaseVars
    <3>3. \A q \in Requests : handle'[q] # NoHandle =>
            /\ handle[q] # NoHandle
            /\ handle'[q].kind = handle[q].kind /\ handle'[q].caller = handle[q].caller
            /\ handle'[q].member = handle[q].member /\ handle'[q].expires = handle[q].expires
      BY <1>1, <3>1, <3>2 DEF Handle
    <3> QED
      BY <1>1, <3>2, <3>3 DEF RowsShrink
  <2>3. CASE RecoverUnauthorized(r)
    <3>1. lease' = CutLeases(lease, {handle[r].member}) /\ UNCHANGED <<now, hold, handle>>
      BY <2>3 DEF RecoverUnauthorized
    <3> QED
      BY <1>3, <3>1
  <2>4. CASE Cool(r)
    BY <1>2, <2>4 DEF Cool
  <2>5. CASE Quarantine(r)
    <3>1. lease' = CutLeases(lease, {handle[r].member}) /\ UNCHANGED <<now, hold, handle>>
      BY <2>5 DEF Quarantine
    <3> QED
      BY <1>3, <3>1
  <2>6. ASSUME NEW success \in BOOLEAN, Finish(r, success) PROVE RowsShrink
    <3> DEFINE hs == [hold EXCEPT ![r] = NoHold]
               rn == RenewedLeases(r, success)
    <3>1. handle[r] # NoHandle /\ now' = now /\ handle' = [handle EXCEPT ![r] = NoHandle]
      BY <2>6 DEF Finish
    <3>2. \A q \in Requests : handle'[q] # NoHandle => handle'[q] = handle[q]
      BY <1>1, <3>1
    <3>3. CASE hold[r] = NoHold
      <4>1. lease' = lease /\ hold' = hold
        BY <2>6, <3>3 DEF Finish, leaseVars
      <4> QED
        BY <1>1, <3>1, <3>2, <4>1 DEF RowsShrink
    <3>4. CASE hold[r] # NoHold
      <4>1. lease' = ReclaimedLeases(rn, hs) /\ hold' = ReclaimedHolds(hs)
        BY <2>6, <3>4 DEF Finish
      <4>2. hs \in HoldTable /\ \A q \in Requests : hs[q] # NoHold => hs[q] = hold[q]
        BY <1>1 DEF HoldTable
      <4>3. rn \in LeaseTable /\ \A c \in Callers : rn[c] # NoLease =>
              /\ lease[c] # NoLease
              /\ rn[c].member = lease[c].member /\ rn[c].born = lease[c].born
              /\ rn[c].assigned = lease[c].assigned
              /\ rn[c].phase = "provisional" => lease[c].phase = "provisional"
        <5>1. rn \in LeaseTable /\ \A c \in Callers :
                \/ rn[c] = lease[c]
                \/ /\ lease[c] # NoLease /\ lease[c] \in LeaseRow
                   /\ rn[c].member = lease[c].member /\ rn[c].born = lease[c].born
                   /\ rn[c].assigned = lease[c].assigned /\ rn[c].phase = "active"
          BY <3>1, RenewedRows
        <5> HIDE DEF rn
        <5> QED
          BY <5>1
      <4> HIDE DEF hs, rn
      <4> QED
        BY <1>5, <3>1, <3>2, <4>1, <4>2, <4>3
    <3> QED
      BY <3>3, <3>4
  <2>7. CASE LoseHandle(r)
    BY <1>1, <2>7 DEF LoseHandle, leaseVars, RowsShrink
  <2> QED
    BY <2>1, <2>2, <2>3, <2>4, <2>5, <2>6, <2>7
<1>9. CASE AdminNext
  <2>1. ASSUME NEW c, Release(c) PROVE RowsShrink
    BY <1>4, <2>1 DEF Release
  <2>2. ASSUME NEW m, Disable(m) PROVE RowsShrink
    BY <1>3, <1>4, <2>2 DEF Disable
  <2>3. ASSUME NEW m, Retry(m) PROVE RowsShrink
    BY <1>4, <2>3 DEF Retry
  <2>4. ASSUME NEW e, NEW s, SetEnterprise(e, s) PROVE RowsShrink
    BY <1>2, <2>4 DEF SetEnterprise, leaseVars
  <2> QED
    BY <1>9, <2>1, <2>2, <2>3, <2>4 DEF AdminNext
<1>10. CASE LoginNext
  BY <1>2, <1>10 DEF LoginNext, BeginLogin, SaveToken, FailLogin, ImportToken, WriteCredential, leaseVars
<1>11. CASE WorkerNext
  <2>1. PICK m \in Members :
           \/ Pick(m) \/ Claim(m) \/ LoginConfirmed(m) \/ LoginStep(m) \/ LinkAccount(m)
           \/ PinCredentials(m) \/ ReadAccount(m) \/ ResetStage(m) \/ InvalidateRejected(m)
           \/ Warmed(m) \/ Promote(m) \/ LoseJob(m)
           \/ \E kind \in {"transient", "terminal", "manual"} : StepFail(m, kind)
    BY <1>11, WorkerCases
  <2>2. CASE Pick(m)
    BY <1>1, <1>5, <2>2 DEF Pick
  <2>3. CASE Claim(m)
    BY <1>2, <1>3, <2>3 DEF Claim
  <2>4. CASE \E kind \in {"transient", "terminal", "manual"} : StepFail(m, kind)
    <3>1. lease' = CutLeases(lease, {m}) /\ UNCHANGED <<now, hold, handle>>
      BY <2>4 DEF StepFail
    <3> QED
      BY <1>3, <3>1
  <2>5. CASE \/ LoginConfirmed(m) \/ LoginStep(m) \/ LinkAccount(m) \/ PinCredentials(m) \/ ReadAccount(m)
             \/ ResetStage(m) \/ InvalidateRejected(m) \/ Warmed(m) \/ Promote(m) \/ LoseJob(m)
    BY <1>2, <2>5 DEF LoginConfirmed, LoginStep, LinkAccount, WriteCredential, PinCredentials, ReadAccount,
                      ResetStage, InvalidateRejected, Warmed, Promote, LoseJob, leaseVars
  <2> QED
    BY <2>1, <2>2, <2>3, <2>4, <2>5
<1>12. CASE UNCHANGED vars
  BY <1>2, <1>12 DEF vars, leaseVars
<1> QED
  BY <1>6, <1>7, <1>8, <1>9, <1>10, <1>11, <1>12 DEF Next

-----------------------------------------------------------------------------
(* Ages of the lease rows. *)

(* A row that is kept keeps its age, unless its member stops serving in its
   generation or turns verified. *)
LEMMA KeptRowAges ==
  ASSUME TypeOK, TypeOK', now <= now', NEW l \in LeaseRow, RowAges(l),
         generation[l.member] <= generation'[l.member],
         verified'[l.member] => verified[l.member] /\ generation'[l.member] = generation[l.member],
         state[l.member] \in {"ready", "cooling"} => state'[l.member] \in {"ready", "cooling"}
  PROVE  RowAges(l)'
<1>1. /\ l.member \in Members /\ l.assigned \in Nat /\ l.born \in Nat /\ l.expires \in Nat
      /\ now \in Nat /\ now' \in Nat /\ ProvisionalTTL \in Nat
  BY DurationAssumption DEF LeaseRow, TypeOK
<1>2. generation[l.member] \in Nat /\ generation'[l.member] \in Nat
  BY <1>1 DEF TypeOK
<1>3. verified[l.member] \in BOOLEAN /\ verified'[l.member] \in BOOLEAN
  BY <1>1 DEF TypeOK
<1>4. RowAges(l)
  OBVIOUS
<1>5. l.assigned <= now' /\ l.born <= generation'[l.member]
      /\ (l.phase = "provisional" => l.expires <= l.assigned + ProvisionalTTL)
  BY <1>1, <1>2, <1>4 DEF RowAges
<1>6. l.born = generation'[l.member] => l.expires > l.assigned
  BY <1>1, <1>2, <1>4 DEF RowAges
<1>7. l.expires > now' => l.expires > now
  BY <1>1
<1>8. l.expires > now' => l.born = generation'[l.member] \/ ~verified'[l.member]
  BY <1>3, <1>4, <1>7 DEF RowAges
<1>9. l.expires > now' => state'[l.member] \in {"ready", "cooling"}
  BY <1>4, <1>7 DEF RowAges
<1> QED
  BY <1>5, <1>6, <1>8, <1>9 DEF RowAges

(* So does a row that is cut while its member moves to a new generation. *)
LEMMA CutRowAges ==
  ASSUME TypeOK, TypeOK', now' = now, NEW l \in LeaseRow, RowAges(l),
         generation[l.member] < generation'[l.member],
         NEW k, k = CutRow(l)
  PROVE  RowAges(k)'
<1>1. /\ l.member \in Members /\ l.assigned \in Nat /\ l.born \in Nat /\ l.expires \in Nat
      /\ now \in Nat /\ ProvisionalTTL \in Nat
  BY DurationAssumption DEF LeaseRow, TypeOK
<1>2. generation[l.member] \in Nat /\ generation'[l.member] \in Nat
  BY <1>1 DEF TypeOK
<1>3. /\ k \in LeaseRow /\ k.member = l.member /\ k.phase = l.phase
      /\ k.assigned = l.assigned /\ k.born = l.born /\ k.expires <= now /\ k.expires <= l.expires
  BY <1>1, CutRowFacts
<1>4. k.expires \in Nat
  BY <1>3 DEF LeaseRow
<1> QED
  BY <1>1, <1>2, <1>3, <1>4 DEF RowAges

(* A step that keeps, cuts or deletes leases keeps the ages. *)
LEMMA AgesPreserved ==
  ASSUME TypeOK, TypeOK', LeasesAge, now <= now',
         \A c \in Callers : lease'[c] # NoLease =>
           /\ lease[c] # NoLease
           /\ \/ /\ lease'[c] = lease[c]
                 /\ generation[lease[c].member] <= generation'[lease[c].member]
                 /\ verified'[lease[c].member] =>
                      verified[lease[c].member] /\ generation'[lease[c].member] = generation[lease[c].member]
                 /\ state[lease[c].member] \in {"ready", "cooling"}
                      => state'[lease[c].member] \in {"ready", "cooling"}
              \/ /\ lease'[c] = CutRow(lease[c]) /\ now' = now
                 /\ generation[lease[c].member] < generation'[lease[c].member]
  PROVE  LeasesAge'
<1> SUFFICES ASSUME NEW c \in Callers, lease'[c] # NoLease PROVE RowAges(lease[c])'
  BY DEF LeasesAge
<1>1. lease[c] # NoLease /\ lease[c] \in LeaseRow /\ RowAges(lease[c])
  BY DEF LeasesAge, TypeOK, LeaseTable
<1>2. ASSUME NEW l \in LeaseRow, RowAges(l), NEW k,
             \/ /\ k = l
                /\ generation[l.member] <= generation'[l.member]
                /\ verified'[l.member] => verified[l.member] /\ generation'[l.member] = generation[l.member]
                /\ state[l.member] \in {"ready", "cooling"} => state'[l.member] \in {"ready", "cooling"}
             \/ k = CutRow(l) /\ now' = now /\ generation[l.member] < generation'[l.member]
      PROVE  RowAges(k)'
  BY <1>2, KeptRowAges, CutRowAges
<1> QED
  BY <1>1, <1>2 DEF RowAges

(* What reclaim() does to one member. *)
LEMMA ReclaimedMember ==
  ASSUME TypeOK, ReclaimMembers, NEW m \in Members
  PROVE  /\ verified'[m] = verified[m] /\ attempts'[m] = attempts[m]
         /\ ReclaimFails(m) =>
              /\ generation'[m] = generation[m] + 1 /\ state'[m] = "failed"
              /\ state[m] \in {"ready", "cooling"} /\ ~manual'[m]
         /\ ~ReclaimFails(m) =>
              /\ generation'[m] = generation[m] /\ manual'[m] = manual[m]
              /\ state'[m] = state[m] \/ (state[m] = "cooling" /\ state'[m] = "ready")
              /\ state'[m] = "cooling" => ~Thawed(m) /\ coolUntil'[m] = coolUntil[m]
         /\ state'[m] = ReclaimedState[m] /\ generation'[m] = ReclaimedGeneration[m]
<1>1. /\ state'[m] = IF ReclaimFails(m) THEN "failed" ELSE IF Thawed(m) THEN "ready" ELSE state[m]
      /\ generation'[m] = IF ReclaimFails(m) THEN generation[m] + 1 ELSE generation[m]
      /\ manual'[m] = (manual[m] /\ ~ReclaimFails(m))
      /\ verified' = verified /\ attempts' = attempts
      /\ coolUntil'[m] = IF Thawed(m) THEN 0 ELSE coolUntil[m]
  BY DEF ReclaimMembers, ReclaimedState, ReclaimedGeneration
<1>2. ReclaimFails(m) => state[m] \in {"ready", "cooling"}
  BY DEF ReclaimFails
<1>3. Thawed(m) => state[m] = "cooling"
  BY DEF Thawed
<1>4. state'[m] = ReclaimedState[m] /\ generation'[m] = ReclaimedGeneration[m]
  BY DEF ReclaimMembers
<1>5. manual[m] \in BOOLEAN
  BY DEF TypeOK
<1> QED
  BY <1>1, <1>2, <1>3, <1>4, <1>5

(* A member that assertReady() accepts keeps its generation and serves. *)
LEMMA AssertedMember ==
  ASSUME TypeOK, ReclaimMembers, NEW m \in Members, AssertReady(m)
  PROVE  /\ ~ReclaimFails(m) /\ verified[m] /\ state'[m] = "ready" /\ generation'[m] = generation[m]
         /\ ReclaimedGeneration[m] = generation[m] /\ state[m] \in {"ready", "cooling"}
<1>1. ReclaimedState[m] = "ready" /\ verified[m]
  BY DEF AssertReady
<1> QED
  BY <1>1, ReclaimedMember

(* reclaim() keeps the ages. *)
LEMMA ReclaimAges ==
  ASSUME TypeOK, TypeOK', ReclaimMembers, now' = now, NEW ls \in LeaseTable, NEW hs \in HoldTable,
         \A c \in Callers : ls[c] # NoLease => RowAges(ls[c]),
         NEW rl, rl = ReclaimedLeases(ls, hs), NEW c \in Callers, rl[c] # NoLease
  PROVE  RowAges(rl[c])'
<1>1. /\ ls[c] \in LeaseRow /\ RowAges(ls[c])
      /\ rl[c] = IF ReclaimFails(ls[c].member) THEN CutRow(ls[c]) ELSE ls[c]
      /\ now \in Nat
  BY ReclaimedRows DEF TypeOK
<1>2. ls[c].member \in Members
  BY <1>1 DEF LeaseRow
<1>3. generation[ls[c].member] \in Nat
  BY <1>2 DEF TypeOK
<1>4. CASE ReclaimFails(ls[c].member)
  <2>1. generation[ls[c].member] < generation'[ls[c].member]
    BY <1>2, <1>3, <1>4, ReclaimedMember
  <2> QED
    BY <1>1, <1>4, <2>1, CutRowAges
<1>5. CASE ~ReclaimFails(ls[c].member)
  <2>1. /\ generation'[ls[c].member] = generation[ls[c].member]
        /\ verified'[ls[c].member] = verified[ls[c].member]
        /\ state[ls[c].member] \in {"ready", "cooling"} => state'[ls[c].member] \in {"ready", "cooling"}
    BY <1>2, <1>5, ReclaimedMember
  <2> QED
    BY <1>1, <1>3, <1>5, <2>1, KeptRowAges
<1> QED
  BY <1>4, <1>5

(* Admissions keep the ages. *)
LEMMA AdmissionAges ==
  ASSUME ReworkInv, TypeOK', NEW kind \in {"lease", "catalog"}, NEW c \in Callers, NEW r \in Requests,
         NEW m \in Members, Admission(kind, c, r, m)
  PROVE  LeasesAge'
<1> DEFINE ls == ReclaimedLeases(lease, hold)
<1>1. TypeOK /\ LeasesAge /\ now \in Nat /\ lease \in LeaseTable /\ hold \in HoldTable
  BY DEF ReworkInv, SharingInv, TypeOK
<1>2. ReclaimMembers /\ AssertReady(m) /\ now' = now
  BY DEF Admission, Admit
<1>3. ls \in LeaseTable
  BY <1>1, ReclaimTablesType
<1>4. ASSUME NEW d \in Callers, NEW l, l = ls[d], l # NoLease PROVE RowAges(l)'
  <2>1. ASSUME NEW rl, rl = ls, rl[d] # NoLease PROVE RowAges(rl[d])'
    BY <1>1, <1>2, <2>1, ReclaimAges DEF LeasesAge
  <2> QED
    BY <1>4, <2>1
<1>5. ASSUME NEW l, l = NewLease(m) PROVE RowAges(l)'
  <2>1. /\ l.member = m /\ l.assigned = now /\ l.expires = now + ProvisionalTTL
        /\ l.born = generation'[m] /\ l.phase = "provisional"
    BY <1>1, <1>2, <1>5, AssertedMember DEF NewLease
  <2>2. state'[m] = "ready" /\ generation'[m] \in Nat
    BY <1>1, <1>2, AssertedMember DEF TypeOK
  <2> QED
    BY <1>1, <1>2, <2>1, <2>2, DurationAssumption DEF RowAges
<1>6. \A d \in Callers : lease'[d] = ls[d] \/ lease'[d] = NewLease(m)
  <2>1. lease' = ls \/ lease' = [ls EXCEPT ![c] = NewLease(m)]
    BY DEF Admission
  <2> HIDE DEF ls
  <2> QED
    BY <1>3, <2>1 DEF LeaseTable
<1> HIDE DEF ls
<1> SUFFICES ASSUME NEW d \in Callers, lease'[d] # NoLease PROVE RowAges(lease[d])'
  BY DEF LeasesAge
<1> QED
  BY <1>4, <1>5, <1>6 DEF RowAges

(* finish() keeps the ages: a lease is renewed in its own generation. *)
LEMMA FinishAges ==
  ASSUME ReworkInv, TypeOK', NEW r \in Requests, NEW success \in BOOLEAN, Finish(r, success)
  PROVE  LeasesAge'
<1> DEFINE hs == [hold EXCEPT ![r] = NoHold]
           rn == RenewedLeases(r, success)
<1>1. TypeOK /\ LeasesAge /\ now \in Nat /\ lease \in LeaseTable /\ hold \in HoldTable
  BY DEF ReworkInv, SharingInv, TypeOK
<1>2. handle[r] # NoHandle /\ now' = now
  BY DEF Finish
<1>3. CASE hold[r] = NoHold
  <2>1. UNCHANGED <<lease, generation, verified, state>>
    BY <1>3 DEF Finish, memberVars, leaseVars
  <2> QED
    BY <1>1, <1>2, <2>1 DEF LeasesAge, RowAges
<1>4. CASE hold[r] # NoHold
  <2>1. lease' = ReclaimedLeases(rn, hs) /\ ReclaimMembers
    BY <1>4 DEF Finish
  <2>2. hs \in HoldTable
    BY <1>1 DEF HoldTable
  <2>3. rn \in LeaseTable
    BY <1>1, <1>2, RenewedRows
  <2>4. ASSUME NEW c \in Callers, NEW l, l = rn[c], l # NoLease PROVE RowAges(l)
    <3>1. CASE l = lease[c]
      BY <1>1, <2>4, <3>1 DEF LeasesAge
    <3>2. CASE l # lease[c]
      <4>1. /\ lease[c] # NoLease /\ lease[c] \in LeaseRow /\ c = handle[r].caller
            /\ handle[r].kind = "lease" /\ CurrentHold(r) /\ state[handle[r].member] = "ready"
            /\ l.member = lease[c].member /\ l.assigned = lease[c].assigned
            /\ l.born = lease[c].born /\ l.phase = "active" /\ l.expires = now + LeaseTTL
        BY <1>1, <1>2, <2>4, <3>2, RenewedRows
      <4>2. /\ hold[r].kind = "lease" /\ hold[r].caller = c /\ hold[r].member = handle[r].member
            /\ generation[hold[r].member] = hold[r].generation
        BY <1>2, <1>4, <4>1 DEF ReworkInv, HandleAgrees, CurrentHold
      <4>3. lease[c].member = hold[r].member /\ hold[r].generation = lease[c].born
        BY <1>4, <4>2 DEF ReworkInv, SharingInv, HoldHasLeaseIn, LeaseHasOneGeneration
      <4>4. lease[c].assigned <= now /\ lease[c].assigned \in Nat /\ lease[c].born \in Nat
        BY <1>1, <4>1 DEF LeasesAge, RowAges, LeaseRow
      <4> QED
        BY <1>1, <4>1, <4>2, <4>3, <4>4, DurationAssumption DEF RowAges
    <3> QED
      BY <3>1, <3>2
  <2>5. \A c \in Callers : rn[c] # NoLease => RowAges(rn[c])
    BY <2>4
  <2> HIDE DEF hs, rn
  <2>6. ASSUME NEW rl, rl = ReclaimedLeases(rn, hs), NEW c \in Callers, rl[c] # NoLease
        PROVE  RowAges(rl[c])'
    BY <1>1, <1>2, <2>1, <2>2, <2>3, <2>5, <2>6, ReclaimAges
  <2> SUFFICES ASSUME NEW c \in Callers, lease'[c] # NoLease PROVE RowAges(lease[c])'
    BY DEF LeasesAge
  <2> QED
    BY <2>1, <2>6 DEF RowAges
<1> QED
  BY <1>3, <1>4

(* Every step keeps the ages. *)
LEMMA NextAges ==
  ASSUME ReworkInv, [Next]_vars, TypeOK'
  PROVE  LeasesAge'
<1>1. /\ TypeOK /\ LeasesAge /\ now \in Nat /\ lease \in LeaseTable /\ hold \in HoldTable
      /\ generation \in [Members -> Nat]
  BY DEF ReworkInv, SharingInv, TypeOK
<1>2. ASSUME now' \in {now, now + 1}, UNCHANGED <<lease, generation, verified, state>> PROVE LeasesAge'
  <2>1. \A c \in Callers : lease[c] # NoLease => generation[lease[c].member] \in Nat
    BY <1>1 DEF LeaseTable, LeaseRow
  <2> QED
    BY <1>1, <1>2, <2>1, AgesPreserved
<1>3. ASSUME NEW m \in Members, now' = now,
             \A c \in Callers : lease'[c] # NoLease =>
               /\ lease[c] # NoLease
               /\ IF lease[c].member = m THEN lease'[c] = CutRow(lease[c]) ELSE lease'[c] = lease[c],
             generation[m] < generation'[m],
             \A n \in Members : n # m =>
               generation'[n] = generation[n] /\ verified'[n] = verified[n] /\ state'[n] = state[n]
      PROVE  LeasesAge'
  <2>1. \A c \in Callers : lease[c] # NoLease => lease[c].member \in Members
    BY <1>1 DEF LeaseTable, LeaseRow
  <2>2. \A n \in Members : generation[n] <= generation[n]
    BY <1>1
  <2> QED
    BY <1>1, <1>3, <2>1, <2>2, AgesPreserved
<1>4. ASSUME NEW m \in Members, lease' = CutLeases(lease, {m}) PROVE
        \A c \in Callers : lease'[c] # NoLease =>
               /\ lease[c] # NoLease
               /\ IF lease[c].member = m THEN lease'[c] = CutRow(lease[c]) ELSE lease'[c] = lease[c]
  BY <1>1, <1>4, CutLeasesFacts, CutLeasesRows
<1>5. ASSUME NEW m \in Members,
              \E k \in {1, 2} : generation' = [generation EXCEPT ![m] = @ + k],
              verified' = verified \/ verified' = [verified EXCEPT ![m] = FALSE],
              state' = state \/ \E x : state' = [state EXCEPT ![m] = x]
       PROVE  /\ generation[m] < generation'[m]
              /\ verified'[m] => verified[m]
              /\ \A n \in Members : n # m =>
                   generation'[n] = generation[n] /\ verified'[n] = verified[n] /\ state'[n] = state[n]
  <2>1. generation[m] \in Nat /\ verified \in [Members -> BOOLEAN] /\ state \in [Members -> MemberStates]
    BY <1>1 DEF TypeOK
  <2>2. generation[m] < generation'[m] /\ \A n \in Members : n # m => generation'[n] = generation[n]
    BY <1>1, <1>5, <2>1
  <2>3. (verified'[m] => verified[m]) /\ \A n \in Members : n # m => verified'[n] = verified[n]
    BY <1>5, <2>1
  <2>4. \A n \in Members : n # m => state'[n] = state[n]
    BY <1>5, <2>1
  <2> QED
    BY <2>2, <2>3, <2>4
<1>6. ASSUME NEW m \in Members, DeleteLeases(LeasedTo(m)) PROVE
        \A c \in Callers : lease'[c] # NoLease =>
               lease[c] # NoLease /\ lease[c].member # m /\ lease'[c] = lease[c]
  BY <1>6 DEF DeleteLeases, LeasedTo
<1>7. ASSUME NEW r \in Requests, handle[r] # NoHandle PROVE handle[r].member \in Members
  BY <1>1, <1>7 DEF TypeOK, Handle
<1>8. ASSUME NEW m \in Members, now' = now, lease' = lease,
             generation[m] <= generation'[m], verified'[m] => verified[m] /\ generation'[m] = generation[m],
             state[m] \in {"ready", "cooling"} => state'[m] \in {"ready", "cooling"},
             \A n \in Members : n # m =>
               generation'[n] = generation[n] /\ verified'[n] = verified[n] /\ state'[n] = state[n]
      PROVE  LeasesAge'
  <2>1. \A c \in Callers : lease[c] # NoLease => lease[c].member \in Members
    BY <1>1 DEF LeaseTable, LeaseRow
  <2>2. \A n \in Members : generation[n] <= generation[n]
    BY <1>1
  <2> QED
    BY <1>1, <1>8, <2>1, <2>2, AgesPreserved
<1>9. CASE Tick
  BY <1>2, <1>9 DEF Tick, memberVars, leaseVars
<1>10. CASE Reclaim
  <2>1. /\ lease' = ReclaimedLeases(lease, hold) /\ ReclaimMembers /\ now' = now
    BY <1>10 DEF Reclaim
  <2>2. ASSUME NEW rl, rl = ReclaimedLeases(lease, hold), NEW c \in Callers, rl[c] # NoLease
        PROVE  RowAges(rl[c])'
    BY <1>1, <2>1, <2>2, ReclaimAges DEF LeasesAge
  <2> QED
    BY <2>1, <2>2 DEF LeasesAge, RowAges
<1>11. CASE RequestNext
  <2>1. PICK r \in Requests :
           \/ \E c \in Callers : AcquireLeased(c, r) \/ AcquireNew(c, r) \/ AcquireCatalog(c, r)
           \/ Authorize(r) \/ RecoverUnauthorized(r) \/ Cool(r) \/ Quarantine(r)
           \/ \E success \in BOOLEAN : Finish(r, success)
           \/ LoseHandle(r)
    BY <1>11, RequestCases
  <2>2. CASE \E c \in Callers : AcquireLeased(c, r) \/ AcquireNew(c, r) \/ AcquireCatalog(c, r)
    BY <1>1, <2>2, AcquireIsAdmission, AdmissionAges
  <2>3. CASE Authorize(r) \/ LoseHandle(r)
    BY <1>2, <2>3 DEF Authorize, LoseHandle, memberVars, leaseVars
  <2>4. CASE RecoverUnauthorized(r)
    <3> DEFINE m == handle[r].member
    <3>1. m \in Members
      BY <1>7, <2>4 DEF RecoverUnauthorized
    <3>2. /\ now' = now /\ lease' = CutLeases(lease, {m}) /\ generation' = [generation EXCEPT ![m] = @ + 2]
          /\ verified' = [verified EXCEPT ![m] = FALSE] /\ state' = [state EXCEPT ![m] = "failed"]
      BY <2>4 DEF RecoverUnauthorized
    <3> HIDE DEF m
    <3>3. /\ generation[m] < generation'[m]
          /\ \A n \in Members : n # m =>
               generation'[n] = generation[n] /\ verified'[n] = verified[n] /\ state'[n] = state[n]
      BY <1>5, <3>1, <3>2
    <3> QED
      BY <1>3, <1>4, <3>1, <3>2, <3>3
  <2>5. CASE Cool(r)
    <3> DEFINE m == handle[r].member
    <3>1. m \in Members
      BY <1>7, <2>5 DEF Cool
    <3>2. /\ UNCHANGED <<now, lease, generation, verified>> /\ state' = [state EXCEPT ![m] = "cooling"]
      BY <2>5 DEF Cool
    <3> HIDE DEF m
    <3> QED
      BY <1>1, <1>8, <3>1, <3>2 DEF TypeOK
  <2>6. CASE Quarantine(r)
    <3> DEFINE m == handle[r].member
    <3>1. m \in Members
      BY <1>7, <2>6 DEF Quarantine
    <3>2. /\ now' = now /\ lease' = CutLeases(lease, {m}) /\ generation' = [generation EXCEPT ![m] = @ + 1]
          /\ verified' = verified /\ state' = [state EXCEPT ![m] = "failed"]
      BY <2>6 DEF Quarantine
    <3> HIDE DEF m
    <3>3. /\ generation[m] < generation'[m]
          /\ \A n \in Members : n # m =>
               generation'[n] = generation[n] /\ verified'[n] = verified[n] /\ state'[n] = state[n]
      BY <1>5, <3>1, <3>2
    <3> QED
      BY <1>3, <1>4, <3>1, <3>2, <3>3
  <2>7. CASE \E success \in BOOLEAN : Finish(r, success)
    BY <2>7, FinishAges
  <2> QED
    BY <2>1, <2>2, <2>3, <2>4, <2>5, <2>6, <2>7
<1>12. CASE AdminNext
  <2>1. ASSUME NEW c \in Callers, Release(c) PROVE LeasesAge'
    <3>1. /\ \A d \in Callers : lease'[d] # NoLease => lease'[d] = lease[d]
          /\ UNCHANGED <<now, generation, verified, state>>
      BY <2>1 DEF Release, DeleteLeases, memberVars
    <3>2. \A d \in Callers : lease[d] # NoLease => generation[lease[d].member] \in Nat
      BY <1>1 DEF LeaseTable, LeaseRow
    <3> QED
      BY <1>1, <3>1, <3>2, AgesPreserved
  <2>2. ASSUME NEW m \in Members, Disable(m) PROVE LeasesAge'
    <3>1. /\ now' = now /\ generation' = [generation EXCEPT ![m] = @ + 1]
          /\ verified' = verified /\ state' = [state EXCEPT ![m] = "disabled"]
          /\ lease' = CutLeases(lease, {m}) \/ DeleteLeases(LeasedTo(m))
      BY <2>2 DEF Disable
    <3>2. /\ generation[m] < generation'[m]
          /\ \A n \in Members : n # m =>
               generation'[n] = generation[n] /\ verified'[n] = verified[n] /\ state'[n] = state[n]
      BY <1>5, <3>1
    <3> QED
      BY <1>3, <1>4, <1>6, <3>1, <3>2
  <2>3. ASSUME NEW m \in Members, Retry(m) PROVE LeasesAge'
    <3>1. /\ now' = now /\ generation' = [generation EXCEPT ![m] = @ + 1]
          /\ verified' = [verified EXCEPT ![m] = FALSE] /\ state' = [state EXCEPT ![m] = "provisioning"]
          /\ DeleteLeases(LeasedTo(m))
      BY <2>3 DEF Retry
    <3>2. /\ generation[m] < generation'[m]
          /\ \A n \in Members : n # m =>
               generation'[n] = generation[n] /\ verified'[n] = verified[n] /\ state'[n] = state[n]
      BY <1>5, <3>1
    <3> QED
      BY <1>3, <1>6, <3>1, <3>2
  <2>4. ASSUME NEW e, NEW s, SetEnterprise(e, s) PROVE LeasesAge'
    BY <1>2, <2>4 DEF SetEnterprise, memberVars, leaseVars
  <2> QED
    BY <1>12, <2>1, <2>2, <2>3, <2>4, BoundAssumption DEF AdminNext
<1>13. ASSUME NEW m \in Members, now' = now, lease' = lease, state' = state,
              generation' = [generation EXCEPT ![m] = @ + 1], verified' = [verified EXCEPT ![m] = FALSE]
       PROVE  LeasesAge'
  <2>1. /\ generation[m] < generation'[m]
        /\ \A n \in Members : n # m => generation'[n] = generation[n] /\ verified'[n] = verified[n]
    BY <1>13, <1>5
  <2>2. generation[m] \in Nat /\ generation'[m] \in Nat /\ ~verified'[m]
    BY <1>1, <1>13 DEF TypeOK
  <2>3. generation[m] <= generation'[m]
    BY <2>1, <2>2
  <2>4. /\ state[m] \in {"ready", "cooling"} => state'[m] \in {"ready", "cooling"}
        /\ \A n \in Members : n # m =>
             generation'[n] = generation[n] /\ verified'[n] = verified[n] /\ state'[n] = state[n]
    BY <1>13, <2>1
  <2> QED
    BY <1>8, <1>13, <2>2, <2>3, <2>4
<1>14. CASE LoginNext
  <2>1. PICK m \in Members : BeginLogin(m) \/ SaveToken(m) \/ FailLogin(m) \/ ImportToken(m)
    BY <1>14, BoundAssumption DEF LoginNext
  <2> QED
    BY <1>13, <2>1 DEF BeginLogin, SaveToken, FailLogin, ImportToken, WriteCredential, leaseVars
<1>15. CASE WorkerNext
  <2>1. PICK m \in Members :
           \/ Pick(m) \/ Claim(m) \/ LoginConfirmed(m) \/ LoginStep(m) \/ LinkAccount(m)
           \/ PinCredentials(m) \/ ReadAccount(m) \/ ResetStage(m) \/ InvalidateRejected(m)
           \/ Warmed(m) \/ Promote(m) \/ LoseJob(m)
           \/ \E kind \in {"transient", "terminal", "manual"} : StepFail(m, kind)
    BY <1>15, WorkerCases
  <2>2. CASE Pick(m)
    <3>1. /\ lease' = ReclaimedLeases(lease, hold) /\ ReclaimMembers /\ now' = now
      BY <2>2 DEF Pick
    <3>2. ASSUME NEW rl, rl = ReclaimedLeases(lease, hold), NEW c \in Callers, rl[c] # NoLease
          PROVE  RowAges(rl[c])'
      BY <1>1, <3>1, <3>2, ReclaimAges DEF LeasesAge
    <3> QED
      BY <3>1, <3>2 DEF LeasesAge, RowAges
  <2>3. CASE Claim(m)
    <3>1. CASE UNCHANGED <<state, generation, lease>>
      BY <1>2, <2>3, <3>1 DEF Claim
    <3>2. CASE /\ state' = [state EXCEPT ![m] = "provisioning"]
               /\ generation' = [generation EXCEPT ![m] = @ + 1]
               /\ lease' = CutLeases(lease, {m})
      <4>1. now' = now /\ verified' = verified
        BY <2>3 DEF Claim
      <4>2. /\ generation[m] < generation'[m]
            /\ \A n \in Members : n # m =>
                 generation'[n] = generation[n] /\ verified'[n] = verified[n] /\ state'[n] = state[n]
        BY <1>5, <3>2, <4>1
      <4> QED
        BY <1>3, <1>4, <3>2, <4>1, <4>2
    <3> QED
      BY <2>3, <3>1, <3>2 DEF Claim
  <2>4. CASE \E kind \in {"transient", "terminal", "manual"} : StepFail(m, kind)
    <3>1. /\ now' = now /\ lease' = CutLeases(lease, {m}) /\ generation' = [generation EXCEPT ![m] = @ + 1]
          /\ verified' = verified /\ state' = [state EXCEPT ![m] = "failed"]
      BY <2>4 DEF StepFail
    <3>2. /\ generation[m] < generation'[m]
          /\ \A n \in Members : n # m =>
               generation'[n] = generation[n] /\ verified'[n] = verified[n] /\ state'[n] = state[n]
      BY <1>5, <3>1
    <3> QED
      BY <1>3, <1>4, <3>1, <3>2
  <2>5. CASE \/ LoginConfirmed(m) \/ LoginStep(m) \/ PinCredentials(m) \/ ReadAccount(m)
             \/ ResetStage(m) \/ Warmed(m) \/ LoseJob(m)
    BY <1>2, <2>5 DEF LoginConfirmed, LoginStep, PinCredentials, ReadAccount,
                      ResetStage, Warmed, LoseJob, leaseVars, memberVars
  <2>6. CASE LinkAccount(m) \/ InvalidateRejected(m)
    BY <1>13, <2>6 DEF LinkAccount, WriteCredential, InvalidateRejected, leaseVars
  <2>7. CASE Promote(m)
    <3>1. /\ UNCHANGED <<now, lease, generation>>
          /\ verified' = [verified EXCEPT ![m] = TRUE] /\ state' = [state EXCEPT ![m] = "ready"]
          /\ state[m] = "provisioning"
      BY <2>7 DEF Promote, JobCurrent, leaseVars
    <3>2. LeasedTo(m) = {}
      BY <3>1 DEF ReworkInv, MemberIsSound, Detached
    <3>3. \A c \in Callers : lease[c] # NoLease => lease[c].member \in Members \ {m}
      BY <1>1, <3>2 DEF LeasedTo, LeaseTable, LeaseRow
    <3> QED
      BY <1>1, <3>1, <3>3, AgesPreserved DEF TypeOK
  <2> QED
    BY <2>1, <2>2, <2>3, <2>4, <2>5, <2>6, <2>7
<1>16. CASE UNCHANGED vars
  BY <1>2, <1>16 DEF vars, leaseVars, memberVars
<1> QED
  BY <1>9, <1>10, <1>11, <1>12, <1>14, <1>15, <1>16 DEF Next

-----------------------------------------------------------------------------
(* The hold rows. *)

(* The rows after an admission: the new hold, and what reclaim() kept. *)
LEMMA AdmissionRows ==
  ASSUME ReworkInv, NEW kind \in {"lease", "catalog"}, NEW c \in Callers, NEW r \in Requests,
         NEW m \in Members, Admission(kind, c, r, m)
  PROVE  /\ hold'[r] = NewHold(kind, c, m) /\ hold'[r] # NoHold /\ handle'[r] = NewHandle(kind, c, m)
         /\ \A q \in Requests : q # r =>
              /\ handle'[q] = handle[q]
              /\ hold'[q] = ReclaimedHolds(hold)[q]
              /\ hold'[q] # NoHold => hold'[q] = hold[q]
         /\ \A d \in Callers : \/ lease'[d] = ReclaimedLeases(lease, hold)[d]
                               \/ /\ d = c /\ kind = "lease" /\ lease'[d] = NewLease(m)
                                  /\ ReclaimedLeases(lease, hold)[d] = NoLease /\ EnterpriseActive(m)
<1>1. TypeOK /\ now \in Nat /\ lease \in LeaseTable /\ hold \in HoldTable
      /\ handle \in [Requests -> Handle \cup {NoHandle}]
  BY DEF ReworkInv, SharingInv, TypeOK
<1>2. /\ hold' = [ReclaimedHolds(hold) EXCEPT ![r] = NewHold(kind, c, m)]
      /\ handle' = [handle EXCEPT ![r] = NewHandle(kind, c, m)]
  BY DEF Admission, Admit
<1>3. ReclaimedHolds(hold) \in HoldTable /\ ReclaimedLeases(lease, hold) \in LeaseTable
  BY <1>1, ReclaimTablesType
<1>4. NewHold(kind, c, m) # NoHold
  <2>1. now + RequestTimeout + HoldDrain \in Nat /\ ReclaimedGeneration[m] \in Nat
    BY <1>1, DurationAssumption DEF TypeOK, ReclaimedGeneration
  <2> QED
    BY <2>1, AbsentAssumption DEF NewHold, HoldRow
<1>5. hold'[r] = NewHold(kind, c, m) /\ \A q \in Requests : q # r => hold'[q] = ReclaimedHolds(hold)[q]
  BY <1>2, <1>3 DEF HoldTable
<1>6. handle'[r] = NewHandle(kind, c, m) /\ \A q \in Requests : q # r => handle'[q] = handle[q]
  BY <1>1, <1>2
<1>7. \A q \in Requests : ReclaimedHolds(hold)[q] # NoHold => ReclaimedHolds(hold)[q] = hold[q]
  BY <1>1, ReclaimedHoldsFacts
<1>8. ASSUME NEW d \in Callers
      PROVE  \/ lease'[d] = ReclaimedLeases(lease, hold)[d]
             \/ /\ d = c /\ kind = "lease" /\ lease'[d] = NewLease(m)
                /\ ReclaimedLeases(lease, hold)[d] = NoLease /\ EnterpriseActive(m)
  <2> DEFINE ls == ReclaimedLeases(lease, hold)
  <2>1. \/ lease' = ls
        \/ ls[c] = NoLease /\ kind = "lease" /\ EnterpriseActive(m) /\ lease' = [ls EXCEPT ![c] = NewLease(m)]
    BY DEF Admission
  <2>2. ls \in LeaseTable
    BY <1>3
  <2> HIDE DEF ls
  <2>3. lease'[d] = ls[d] \/ (/\ d = c /\ kind = "lease" /\ lease'[d] = NewLease(m)
                              /\ ls[d] = NoLease /\ EnterpriseActive(m))
    BY <2>1, <2>2 DEF LeaseTable
  <2> QED
    BY <2>3 DEF ls
<1> QED
  BY <1>4, <1>5, <1>6, <1>7, <1>8

(* Every step is an admission or adds no row. *)
LEMMA StepCases ==
  ASSUME ReworkInv, [Next]_vars
  PROVE  \/ RowsShrink
         \/ \E kind \in {"lease", "catalog"}, c \in Callers, r \in Requests, m \in Members :
              Admission(kind, c, r, m)
<1>1. TypeOK
  BY DEF ReworkInv, SharingInv
<1> QED
  BY <1>1, OtherStepsShrink, AcquireIsAdmission

(* A hold row and the handle of its slot stay of one admission. *)
LEMMA NextAgrees ==
  ASSUME ReworkInv, [Next]_vars
  PROVE  HandleAgrees'
<1>1. CASE RowsShrink
  BY <1>1 DEF RowsShrink, ReworkInv, HandleAgrees
<1>2. ASSUME NEW kind \in {"lease", "catalog"}, NEW c \in Callers, NEW r \in Requests,
             NEW m \in Members, Admission(kind, c, r, m)
      PROVE  HandleAgrees'
  <2>1. /\ hold'[r] = NewHold(kind, c, m) /\ handle'[r] = NewHandle(kind, c, m)
        /\ \A q \in Requests : q # r => handle'[q] = handle[q] /\ (hold'[q] # NoHold => hold'[q] = hold[q])
    BY <1>2, AdmissionRows
  <2>2. /\ hold'[r].kind = handle'[r].kind /\ hold'[r].caller = handle'[r].caller
        /\ hold'[r].member = handle'[r].member /\ hold'[r].expires = handle'[r].expires
    BY <2>1 DEF NewHold, NewHandle
  <2> QED
    BY <2>1, <2>2 DEF ReworkInv, HandleAgrees
<1> QED
  BY <1>1, <1>2, StepCases

(* An inference hold stays of the generation of its lease, and within the time
   of a lease that never succeeded. *)
LEMMA NextHoldAges ==
  ASSUME ReworkInv, [Next]_vars, SharingInv'
  PROVE  LeaseHasOneGeneration' /\ ProvisionalLeaseIsBounded'
<1>1. /\ TypeOK /\ now \in Nat /\ lease \in LeaseTable /\ hold \in HoldTable
      /\ hold' \in HoldTable /\ lease' \in LeaseTable
      /\ OneToOneIn(lease, hold) /\ HoldHasLeaseIn(lease, hold)
      /\ HoldHasLeaseIn(lease', hold') /\ LeasesAge
      /\ RequestTimeout \in Nat /\ HoldDrain \in Nat /\ ProvisionalTTL \in Nat
  BY DurationAssumption DEF ReworkInv, SharingInv, TypeOK
<1> SUFFICES ASSUME NEW q \in Requests, hold'[q] # NoHold, hold'[q].kind = "lease"
             PROVE  LET l == lease'[hold'[q].caller] IN
                      /\ hold'[q].generation = l.born
                      /\ l.phase = "provisional"
                           => hold'[q].expires < l.assigned + ProvisionalTTL + RequestTimeout + HoldDrain
  BY DEF LeaseHasOneGeneration, ProvisionalLeaseIsBounded
<1> DEFINE d == hold'[q].caller
<1>2. d \in Callers /\ lease'[d] # NoLease /\ lease'[d].member = hold'[q].member /\ hold'[q] \in HoldRow
  BY <1>1 DEF HoldTable, HoldRow, HoldHasLeaseIn
<1>3. ASSUME hold'[q] = hold[q], lease[d] # NoLease, lease'[d].born = lease[d].born,
             lease'[d].assigned = lease[d].assigned,
             lease'[d].phase = "provisional" => lease[d].phase = "provisional"
      PROVE  /\ hold'[q].generation = lease'[d].born
             /\ lease'[d].phase = "provisional"
                  => hold'[q].expires < lease'[d].assigned + ProvisionalTTL + RequestTimeout + HoldDrain
  BY <1>3 DEF ReworkInv, LeaseHasOneGeneration, ProvisionalLeaseIsBounded
<1>4. CASE RowsShrink
  BY <1>2, <1>3, <1>4 DEF RowsShrink
<1>5. ASSUME NEW kind \in {"lease", "catalog"}, NEW c \in Callers, NEW r \in Requests,
             NEW m \in Members, Admission(kind, c, r, m)
      PROVE  /\ hold'[q].generation = lease'[d].born
             /\ lease'[d].phase = "provisional"
                  => hold'[q].expires < lease'[d].assigned + ProvisionalTTL + RequestTimeout + HoldDrain
  <2> DEFINE ls == ReclaimedLeases(lease, hold)
             rh == ReclaimedHolds(hold)
  <2>1. /\ hold'[r] = NewHold(kind, c, m)
        /\ \A p \in Requests : p # r => hold'[p] = rh[p] /\ (hold'[p] # NoHold => hold'[p] = hold[p])
        /\ \A e \in Callers : \/ lease'[e] = ls[e]
                              \/ e = c /\ kind = "lease" /\ lease'[e] = NewLease(m) /\ ls[e] = NoLease
    BY <1>5, AdmissionRows
  <2>2. ASSUME ls[d] # NoLease
        PROVE  /\ lease[d] # NoLease /\ lease[d] \in LeaseRow
               /\ ls[d] = IF ReclaimFails(lease[d].member) THEN CutRow(lease[d]) ELSE lease[d]
    BY <1>1, <1>2, <2>2, ReclaimedRows
  <2>3. HoldHasLeaseIn(ls, rh)
    BY <1>1, ReclaimPreserves
  <2>4. CASE q # r
    <3>1. hold'[q] = rh[q] /\ hold'[q] = hold[q]
      BY <2>1, <2>4
    <3>2. ls[d] # NoLease
      BY <2>3, <3>1 DEF HoldHasLeaseIn
    <3>3. lease'[d] = ls[d]
      BY <1>2, <2>1, <3>2
    <3> HIDE DEF ls, d
    <3>4. lease'[d].born = lease[d].born /\ lease'[d].assigned = lease[d].assigned
          /\ lease'[d].phase = lease[d].phase
      BY <1>1, <2>2, <3>2, <3>3, CutRowFacts
    <3> QED
      BY <1>3, <2>2, <3>1, <3>2, <3>4 DEF d
  <2>5. CASE q = r
    <3>1. ReclaimMembers /\ AssertReady(m) /\ generation[m] \in Nat
      BY <1>1, <1>5 DEF Admission, Admit, TypeOK
    <3>2. /\ d = c /\ kind = "lease" /\ hold'[q].generation = ReclaimedGeneration[m]
          /\ hold'[q].expires = now + RequestTimeout + HoldDrain
      BY <2>1, <2>5 DEF NewHold
    <3>3. CASE lease'[d] = NewLease(m)
      BY <1>1, <3>2, <3>3, DurationAssumption DEF NewLease
    <3>4. CASE lease'[d] # NewLease(m)
      <4>1. lease'[d] = ls[d] /\ ls[c] # NoLease /\ ls[c].member = m /\ ls[c].expires > now
        BY <1>2, <1>5, <2>1, <3>2, <3>4 DEF Admission
      <4>2. lease[c] # NoLease /\ ls[c] = lease[c] /\ lease[c] \in LeaseRow
        <5>1. ls[c] = CutRow(lease[c]) => ls[c].expires <= now
          BY <1>1, <2>2, <3>2, <4>1, CutRowFacts
        <5>2. ls[c] # CutRow(lease[c])
          <6>1. ls[c] \in LeaseRow
            BY <1>1, <4>1, ReclaimTablesType DEF LeaseTable
          <6>2. ls[c].expires \in Nat
            BY <6>1 DEF LeaseRow
          <6> QED
            BY <1>1, <4>1, <5>1, <6>2
        <5> QED
          BY <2>2, <3>2, <4>1, <5>2
      <4>3. RowAges(lease[c])
        BY <1>1, <4>2 DEF LeasesAge
      <4>4. lease[c].born = generation[m]
        BY <1>1, <3>1, <4>1, <4>2, <4>3, AssertedMember DEF RowAges
      <4>5. lease[c].phase = "provisional" => now < lease[c].assigned + ProvisionalTTL
        <5>1. lease[c].expires \in Nat /\ lease[c].assigned \in Nat
          BY <4>2 DEF LeaseRow
        <5> QED
          BY <1>1, <4>1, <4>2, <4>3, <5>1 DEF RowAges
      <4>6. ReclaimedGeneration[m] = generation[m]
        BY <1>1, <3>1, AssertedMember
      <4>7. lease'[d] = lease[c] /\ lease[c].assigned \in Nat
        BY <3>2, <4>1, <4>2 DEF LeaseRow
      <4>8. lease[c].phase = "provisional" =>
              now + RequestTimeout + HoldDrain < lease[c].assigned + ProvisionalTTL + RequestTimeout + HoldDrain
        BY <1>1, <4>5, <4>7
      <4> HIDE DEF d
      <4> QED
        BY <3>2, <4>4, <4>6, <4>7, <4>8
    <3> QED
      BY <3>3, <3>4
  <2> QED
    BY <2>4, <2>5
<1> QED
  BY <1>4, <1>5, StepCases

(* A caller that discovers models through a cooling member stays cooled for
   as long as the member. *)
LEMMA NextCooldown ==
  ASSUME ReworkInv, [Next]_vars, TypeOK'
  PROVE  CooldownFollowsCaller'
<1>1. /\ TypeOK /\ now \in Nat /\ hold \in HoldTable /\ cooldown \in [Callers -> Nat]
      /\ coolUntil \in [Members -> Nat] /\ CooldownFollowsCaller
      /\ state \in [Members -> MemberStates] /\ hold' \in HoldTable
  BY DEF ReworkInv, SharingInv, TypeOK
<1> SUFFICES ASSUME NEW q \in Requests, hold'[q] # NoHold, hold'[q].kind = "catalog",
                    state'[hold'[q].member] = "cooling"
             PROVE  cooldown'[hold'[q].caller] >= coolUntil'[hold'[q].member]
  BY DEF CooldownFollowsCaller
<1>2. hold'[q].member \in Members /\ hold'[q].caller \in Callers
  BY <1>1 DEF HoldTable, HoldRow
<1>3. ASSUME NEW p \in Requests, hold[p] # NoHold, hold[p].kind = "catalog", state[hold[p].member] = "cooling"
      PROVE  /\ cooldown[hold[p].caller] >= coolUntil[hold[p].member]
             /\ hold[p].member \in Members /\ hold[p].caller \in Callers
  BY <1>1, <1>3 DEF CooldownFollowsCaller, HoldTable, HoldRow
<1>4. ASSUME ReclaimMembers, cooldown' = ReclaimedCooldown, hold'[q] = hold[q]
      PROVE  cooldown'[hold'[q].caller] >= coolUntil'[hold'[q].member]
  <2> DEFINE m == hold[q].member
             c == hold[q].caller
  <2>1. m \in Members /\ c \in Callers
    BY <1>2, <1>4
  <2>2. ~ReclaimFails(m)
    BY <1>1, <1>4, <2>1, ReclaimedMember
  <2>3. ~Thawed(m) /\ coolUntil'[m] = coolUntil[m] /\ state[m] = "cooling"
    BY <1>1, <1>4, <2>1, <2>2, ReclaimedMember
  <2>4. cooldown[c] >= coolUntil[m] /\ coolUntil[m] > now
    BY <1>1, <1>3, <1>4, <2>1, <2>3 DEF Thawed
  <2>5. cooldown'[c] = cooldown[c]
    BY <1>1, <1>4, <2>1, <2>4 DEF ReclaimedCooldown
  <2> QED
    BY <1>4, <2>3, <2>4, <2>5
<1>5. ASSUME hold'[q] = hold[q], cooldown' = cooldown, NEW m \in Members,
             \A n \in Members : n # m => state'[n] = state[n] /\ coolUntil'[n] = coolUntil[n],
             state'[m] = "cooling" => state[m] = "cooling" /\ coolUntil'[m] = coolUntil[m]
      PROVE  cooldown'[hold'[q].caller] >= coolUntil'[hold'[q].member]
  BY <1>2, <1>3, <1>5
<1>6. ASSUME hold'[q] = hold[q], UNCHANGED <<cooldown, state, coolUntil>>
      PROVE  cooldown'[hold'[q].caller] >= coolUntil'[hold'[q].member]
  BY <1>2, <1>3, <1>6
<1>7. ASSUME hold'[q] = hold[q], UNCHANGED <<cooldown, coolUntil>>, NEW m, NEW x,
             x # "cooling", state' = [state EXCEPT ![m] = x]
      PROVE  cooldown'[hold'[q].caller] >= coolUntil'[hold'[q].member]
  BY <1>1, <1>2, <1>3, <1>7
<1>9. ASSUME NEW kind \in {"lease", "catalog"}, NEW c \in Callers, NEW r \in Requests,
             NEW m \in Members, Admission(kind, c, r, m)
      PROVE  cooldown'[hold'[q].caller] >= coolUntil'[hold'[q].member]
  <2>1. ReclaimMembers /\ AssertReady(m) /\ cooldown' = ReclaimedCooldown
    BY <1>9 DEF Admission, Admit
  <2>2. hold'[r] = NewHold(kind, c, m) /\ (q # r => hold'[q] = hold[q])
    BY <1>9, AdmissionRows
  <2>3. q # r
    <3>1. hold'[r].member = m
      BY <2>2 DEF NewHold
    <3>2. state'[m] = "ready"
      BY <1>1, <2>1, AssertedMember
    <3> QED
      BY <3>1, <3>2
  <2> QED
    BY <1>4, <2>1, <2>2, <2>3
<1>10. CASE Tick \/ UNCHANGED vars
  BY <1>6, <1>10 DEF Tick, vars, memberVars, leaseVars
<1>11. CASE Reclaim
  <2>1. ReclaimMembers /\ cooldown' = ReclaimedCooldown
    BY <1>11 DEF Reclaim
  <2>2. hold'[q] = hold[q]
    BY <1>1, <1>11, ReclaimedHoldsFacts DEF Reclaim
  <2> QED
    BY <1>4, <2>1, <2>2
<1>12. CASE RequestNext
  <2>1. PICK r \in Requests :
           \/ \E c \in Callers : AcquireLeased(c, r) \/ AcquireNew(c, r) \/ AcquireCatalog(c, r)
           \/ Authorize(r) \/ RecoverUnauthorized(r) \/ Cool(r) \/ Quarantine(r)
           \/ \E success \in BOOLEAN : Finish(r, success)
           \/ LoseHandle(r)
    BY <1>12, RequestCases
  <2>2. CASE \E c \in Callers : AcquireLeased(c, r) \/ AcquireNew(c, r) \/ AcquireCatalog(c, r)
    BY <1>1, <1>9, <2>2, AcquireIsAdmission
  <2>3. CASE Authorize(r) \/ LoseHandle(r)
    BY <1>6, <2>3 DEF Authorize, LoseHandle, memberVars, leaseVars
  <2>4. CASE RecoverUnauthorized(r)
    <3>1. UNCHANGED <<hold, cooldown, coolUntil>> /\ state' = [state EXCEPT ![handle[r].member] = "failed"]
      BY <2>4 DEF RecoverUnauthorized
    <3> QED
      BY <1>7, <3>1
  <2>5. CASE Cool(r)
    <3> DEFINE m == handle[r].member
               until == Later(coolUntil[m], now + CoolTime)
    <3>1. /\ hold' = hold /\ state' = [state EXCEPT ![m] = "cooling"]
          /\ coolUntil' = [coolUntil EXCEPT ![m] = until]
          /\ cooldown' = [c \in Callers |->
               IF \E p \in HeldBy(hold, m) : hold[p].kind = "catalog" /\ hold[p].caller = c
               THEN Later(cooldown[c], until) ELSE cooldown[c]]
          /\ handle[r] # NoHandle
      BY <2>5 DEF Cool
    <3>2. m \in Members
      BY <1>1, <3>1 DEF TypeOK, Handle
    <3>3. until \in Nat
      BY <1>1, <3>2, DurationAssumption DEF Later
    <3> HIDE DEF until, m
    <3>4. CASE hold[q].member = m
      <4>1. q \in HeldBy(hold, m)
        BY <3>1, <3>4 DEF HeldBy
      <4>2. cooldown'[hold[q].caller] = Later(cooldown[hold[q].caller], until)
        BY <1>2, <3>1, <4>1
      <4>3. coolUntil'[m] = until /\ cooldown[hold[q].caller] \in Nat
        BY <1>1, <1>2, <3>1, <3>2
      <4> QED
        BY <3>1, <3>3, <3>4, <4>2, <4>3 DEF Later
    <3>5. CASE hold[q].member # m
      <4>1. state[hold[q].member] = "cooling" /\ coolUntil'[hold[q].member] = coolUntil[hold[q].member]
        BY <1>1, <1>2, <3>1, <3>5
      <4>2. cooldown[hold[q].caller] >= coolUntil[hold[q].member]
        BY <1>3, <3>1, <4>1
      <4>3. cooldown[hold[q].caller] \in Nat /\ coolUntil[hold[q].member] \in Nat
        BY <1>1, <1>2, <3>1
      <4>4. cooldown'[hold[q].caller] >= cooldown[hold[q].caller]
        BY <1>2, <3>1, <3>3, <4>3 DEF Later
      <4>5. cooldown'[hold[q].caller] \in Nat
        BY <1>2, <3>1, <3>3, <4>3 DEF Later
      <4> QED
        BY <3>1, <4>1, <4>2, <4>3, <4>4, <4>5
    <3> QED
      BY <3>4, <3>5
  <2>6. CASE Quarantine(r)
    <3>1. UNCHANGED <<hold, cooldown, coolUntil>> /\ state' = [state EXCEPT ![handle[r].member] = "failed"]
      BY <2>6 DEF Quarantine
    <3> QED
      BY <1>7, <3>1
  <2>7. ASSUME NEW success \in BOOLEAN, Finish(r, success)
        PROVE  cooldown'[hold'[q].caller] >= coolUntil'[hold'[q].member]
    <3>1. CASE hold[r] = NoHold
      BY <1>6, <2>7, <3>1 DEF Finish, memberVars, leaseVars
    <3>2. CASE hold[r] # NoHold
      <4> DEFINE hs == [hold EXCEPT ![r] = NoHold]
      <4>1. ReclaimMembers /\ cooldown' = ReclaimedCooldown /\ hold' = ReclaimedHolds(hs)
        BY <2>7, <3>2 DEF Finish
      <4>2. hs \in HoldTable /\ \A p \in Requests : hs[p] # NoHold => hs[p] = hold[p]
        BY <1>1 DEF HoldTable
      <4> HIDE DEF hs
      <4>3. hold'[q] = hold[q]
        BY <1>1, <4>1, <4>2, ReclaimedHoldsFacts
      <4> QED
        BY <1>4, <4>1, <4>3
    <3> QED
      BY <3>1, <3>2
  <2> QED
    BY <2>1, <2>2, <2>3, <2>4, <2>5, <2>6, <2>7
<1>13. CASE AdminNext
  <2>1. ASSUME NEW C, DeleteLeases(C) PROVE hold'[q] = hold[q]
    BY <2>1 DEF DeleteLeases
  <2>2. ASSUME NEW c \in Callers, Release(c) PROVE cooldown'[hold'[q].caller] >= coolUntil'[hold'[q].member]
    BY <1>6, <2>1, <2>2 DEF Release, memberVars
  <2>3. ASSUME NEW m \in Members, Disable(m) PROVE cooldown'[hold'[q].caller] >= coolUntil'[hold'[q].member]
    BY <1>7, <2>1, <2>3 DEF Disable
  <2>4. ASSUME NEW m \in Members, Retry(m) PROVE cooldown'[hold'[q].caller] >= coolUntil'[hold'[q].member]
    <3>1. /\ hold'[q] = hold[q] /\ cooldown' = cooldown
          /\ state' = [state EXCEPT ![m] = "provisioning"] /\ coolUntil' = [coolUntil EXCEPT ![m] = 0]
      BY <2>1, <2>4 DEF Retry
    <3> QED
      BY <1>1, <1>5, <3>1
  <2>5. ASSUME NEW e, NEW s, SetEnterprise(e, s) PROVE cooldown'[hold'[q].caller] >= coolUntil'[hold'[q].member]
    BY <1>6, <2>5 DEF SetEnterprise, memberVars, leaseVars
  <2> QED
    BY <1>13, <2>2, <2>3, <2>4, <2>5, BoundAssumption DEF AdminNext
<1>14. CASE LoginNext
  BY <1>6, <1>14 DEF LoginNext, BeginLogin, SaveToken, FailLogin, ImportToken, WriteCredential, leaseVars
<1>15. CASE WorkerNext
  <2>1. PICK m \in Members :
           \/ Pick(m) \/ Claim(m) \/ LoginConfirmed(m) \/ LoginStep(m) \/ LinkAccount(m)
           \/ PinCredentials(m) \/ ReadAccount(m) \/ ResetStage(m) \/ InvalidateRejected(m)
           \/ Warmed(m) \/ Promote(m) \/ LoseJob(m)
           \/ \E kind \in {"transient", "terminal", "manual"} : StepFail(m, kind)
    BY <1>15, WorkerCases
  <2>2. CASE Pick(m)
    <3>1. ReclaimMembers /\ cooldown' = ReclaimedCooldown
      BY <2>2 DEF Pick
    <3>2. hold'[q] = hold[q]
      BY <1>1, <2>2, ReclaimedHoldsFacts DEF Pick
    <3> QED
      BY <1>4, <3>1, <3>2
  <2>3. CASE Claim(m)
    <3>1. /\ UNCHANGED <<hold, cooldown, coolUntil>>
          /\ state' = state \/ state' = [state EXCEPT ![m] = "provisioning"]
      BY <2>3 DEF Claim
    <3> QED
      BY <1>6, <1>7, <3>1
  <2>4. CASE Promote(m) \/ \E kind \in {"transient", "terminal", "manual"} : StepFail(m, kind)
    <3>1. /\ UNCHANGED <<hold, cooldown, coolUntil>>
          /\ state' = [state EXCEPT ![m] = "ready"] \/ state' = [state EXCEPT ![m] = "failed"]
      BY <2>4 DEF Promote, StepFail, leaseVars
    <3> QED
      BY <1>7, <3>1
  <2>5. CASE \/ LoginConfirmed(m) \/ LoginStep(m) \/ LinkAccount(m) \/ PinCredentials(m) \/ ReadAccount(m)
             \/ ResetStage(m) \/ InvalidateRejected(m) \/ Warmed(m) \/ LoseJob(m)
    BY <1>6, <2>5 DEF LoginConfirmed, LoginStep, LinkAccount, WriteCredential, PinCredentials, ReadAccount,
                      ResetStage, InvalidateRejected, Warmed, LoseJob, leaseVars, memberVars
  <2> QED
    BY <2>1, <2>2, <2>3, <2>4, <2>5
<1> QED
  BY <1>10, <1>11, <1>12, <1>13, <1>14, <1>15 DEF Next

-----------------------------------------------------------------------------
(* The members and the worker's steps. *)

(* A member that nobody has stays so, unless somebody is admitted to it. *)
LEMMA DetachedStays ==
  ASSUME ReworkInv, [Next]_vars, TypeOK', NEW m \in Members, Detached(m)
  PROVE  \/ Detached(m)'
         \/ ReclaimMembers /\ AssertReady(m) /\ UNCHANGED <<credVars, job, proven>>
<1>1. /\ TypeOK /\ now \in Nat /\ now' \in Nat /\ lease \in LeaseTable /\ hold \in HoldTable
      /\ handle \in [Requests -> Handle \cup {NoHandle}] /\ handle' \in [Requests -> Handle \cup {NoHandle}]
  BY DEF ReworkInv, SharingInv, TypeOK
<1>2. ASSUME NEW r \in Requests, handle[r] # NoHandle, handle'[r].expires = handle[r].expires,
             handle'[r].member = handle[r].member, InFlight(r)', now <= now'
      PROVE  handle'[r].member # m
  <2>1. handle[r].expires \in Nat /\ handle'[r].expires > now'
    BY <1>1, <1>2 DEF InFlight, Handle
  <2>2. InFlight(r)
    BY <1>1, <1>2, <2>1 DEF InFlight
  <2> QED
    BY <1>2, <2>2 DEF Detached
<1>3. CASE RowsShrink
  <2>1. LeasedTo(m)' = {}
    BY <1>3 DEF RowsShrink, Detached, LeasedTo
  <2>2. ASSUME NEW r \in Requests, InFlight(r)' PROVE handle'[r].member # m
    BY <1>2, <1>3, <2>2 DEF RowsShrink, InFlight
  <2> QED
    BY <2>1, <2>2 DEF Detached
<1>4. ASSUME NEW kind \in {"lease", "catalog"}, NEW c \in Callers, NEW r \in Requests,
             NEW n \in Members, Admission(kind, c, r, n), n # m
      PROVE  Detached(m)'
  <2>1. /\ handle'[r] = NewHandle(kind, c, n)
        /\ \A q \in Requests : q # r => handle'[q] = handle[q]
        /\ \A d \in Callers : lease'[d] = ReclaimedLeases(lease, hold)[d] \/ lease'[d] = NewLease(n)
    BY <1>4, AdmissionRows
  <2>4. now' = now
    BY <1>4 DEF Admission, Admit
  <2>2. ASSUME NEW d \in Callers, lease'[d] # NoLease PROVE lease'[d].member # m
    <3>1. CASE lease'[d] = ReclaimedLeases(lease, hold)[d]
      <4>1. lease[d] # NoLease /\ lease'[d].member = lease[d].member
        BY <1>1, <2>2, <3>1, ReclaimedLeasesFacts
      <4> QED
        BY <4>1 DEF Detached, LeasedTo
    <3>2. CASE lease'[d] = NewLease(n)
      BY <1>4, <3>2 DEF NewLease
    <3> QED
      BY <2>1, <3>1, <3>2
  <2>3. ASSUME NEW q \in Requests, InFlight(q)' PROVE handle'[q].member # m
    <3>1. CASE q = r
      BY <1>4, <2>1, <3>1 DEF NewHandle
    <3>2. CASE q # r
      <4>1. handle'[q] = handle[q] /\ now <= now'
        BY <1>1, <2>1, <2>4, <3>2
      <4> QED
        BY <1>2, <2>3, <4>1 DEF InFlight
    <3> QED
      BY <3>1, <3>2
  <2> QED
    BY <2>2, <2>3 DEF Detached, LeasedTo
<1>5. ASSUME NEW kind \in {"lease", "catalog"}, NEW c \in Callers, NEW r \in Requests,
             Admission(kind, c, r, m)
      PROVE  ReclaimMembers /\ AssertReady(m) /\ UNCHANGED <<credVars, job, proven>>
  BY <1>5 DEF Admission, Admit
<1> QED
  BY <1>3, <1>4, <1>5, StepCases

(* A member whose worker step is not concerned stays sound when its row only
   moves as the transactions of others move it. *)
LEMMA SoundStays ==
  ASSUME TypeOK, TypeOK', NEW m \in Members, MemberIsSound(m),
         Detached(m) => Detached(m)' \/ (state[m] \in {"ready", "cooling"} /\ state'[m] = "ready"),
         job'[m] = job[m], proven'[m] = proven[m],
         generation[m] <= generation'[m],
         generation'[m] = generation[m] =>
           /\ state'[m] = state[m] \/ state[m] \in {"ready", "cooling"}
           /\ status'[m] = status[m] /\ token'[m] = token[m],
         manual'[m] => manual[m] /\ state'[m] \in {"failed", "disabled"},
         verified'[m] => verified[m] /\ status'[m] = status[m] /\ token'[m] = token[m],
         state'[m] = "provisioning" => state[m] = "provisioning" \/ Detached(m)'
  PROVE  MemberIsSound(m)'
<1>1. generation[m] \in Nat /\ generation'[m] \in Nat /\ (job[m] # NoJob => job[m].generation \in Nat)
  BY DEF TypeOK, Job
<1>2. ASSUME state'[m] = "provisioning" PROVE Detached(m)'
  BY <1>2 DEF MemberIsSound
<1>3. ASSUME verified'[m] PROVE CredentialValid(m)' /\ token'[m] = proven'[m]
  BY <1>3 DEF MemberIsSound, CredentialValid
<1>4. ASSUME job'[m] # NoJob
      PROVE  /\ job'[m].generation <= generation'[m] /\ ~manual'[m]
             /\ job'[m].generation = generation'[m] =>
                  generation'[m] = generation[m] /\ job[m].generation = generation[m]
  <2>1. job[m] # NoJob /\ job[m].generation <= generation[m] /\ ~manual[m]
    BY <1>4 DEF MemberIsSound, JobIsBacked
  <2> QED
    BY <1>1, <2>1
<1>5. ASSUME job'[m] # NoJob, job'[m].step = "picked", job'[m].generation = generation'[m]
      PROVE  Detached(m)' /\ state'[m] \in {"failed", "provisioning"}
  <2>1. generation'[m] = generation[m] /\ Detached(m) /\ state[m] \in {"failed", "provisioning"}
    BY <1>4, <1>5 DEF MemberIsSound, JobIsBacked
  <2> QED
    BY <2>1
<1>6. ASSUME job'[m] # NoJob, job'[m].step = "warmed", job'[m].generation = generation'[m]
      PROVE  CredentialValid(m)' /\ token'[m] = job'[m].token
  <2>1. generation'[m] = generation[m] /\ CredentialValid(m) /\ token[m] = job[m].token
    BY <1>4, <1>6 DEF MemberIsSound, JobIsBacked
  <2> QED
    BY <2>1 DEF CredentialValid
<1>7. JobIsBacked(m)'
  BY <1>4, <1>5, <1>6 DEF JobIsBacked
<1> QED
  BY <1>2, <1>3, <1>7 DEF MemberIsSound

(* reclaim(), and what it is part of, keeps a member sound. *)
LEMMA ReclaimSound ==
  ASSUME ReworkInv, [Next]_vars, TypeOK', NEW m \in Members, ReclaimMembers, credVars' = credVars,
         job'[m] = job[m], proven' = proven
  PROVE  MemberIsSound(m)'
<1>1. TypeOK /\ MemberIsSound(m)
  BY DEF ReworkInv, SharingInv
<1>2. generation[m] \in Nat /\ manual[m] \in BOOLEAN /\ manual'[m] \in BOOLEAN
  BY <1>1 DEF TypeOK
<1>3. generation[m] <= generation'[m]
  BY <1>1, <1>2, ReclaimedMember
<1>4. Detached(m) => Detached(m)' \/ (state[m] \in {"ready", "cooling"} /\ state'[m] = "ready")
  BY <1>1, DetachedStays, AssertedMember
<1>5. generation'[m] = generation[m] => ~ReclaimFails(m)
  BY <1>1, <1>2, ReclaimedMember
<1>6. state'[m] = state[m] \/ state[m] \in {"ready", "cooling"}
  BY <1>1, ReclaimedMember
<1>7. manual'[m] => manual[m] /\ state'[m] \in {"failed", "disabled"}
  <2>1. manual'[m] => ~ReclaimFails(m) /\ manual[m]
    BY <1>1, ReclaimedMember
  <2>2. manual[m] => state[m] \in {"failed", "disabled"}
    BY <1>1 DEF MemberIsSound
  <2> QED
    BY <1>6, <2>1, <2>2
<1>8. state'[m] = "provisioning" => state[m] = "provisioning"
  BY <1>1, ReclaimedMember
<1>9. verified'[m] = verified[m] /\ status' = status /\ token' = token
  BY <1>1, ReclaimedMember DEF credVars
<1> QED
  BY <1>1, <1>3, <1>4, <1>6, <1>7, <1>8, <1>9, SoundStays

(* After a worker step its member is sound when the step left no claim that
   depends on the generation. *)
LEMMA MovedIsSound ==
  ASSUME TypeOK, TypeOK', NEW m \in Members, MemberIsSound(m), job[m] # NoJob,
         \/ job'[m] = NoJob /\ (manual'[m] => state'[m] \in {"failed", "disabled"})
         \/ /\ job'[m].step \notin {"picked", "warmed"} /\ job'[m].generation <= generation'[m]
            /\ manual'[m] = manual[m],
         proven' = proven,
         verified'[m] => verified[m] /\ status'[m] = status[m] /\ token'[m] = token[m],
         state'[m] = "provisioning" => Detached(m)'
  PROVE  MemberIsSound(m)'
<1>1. verified'[m] => CredentialValid(m)' /\ token'[m] = proven'[m]
  BY DEF MemberIsSound, CredentialValid
<1>2. ~manual[m]
  BY DEF MemberIsSound, JobIsBacked
<1>3. (manual'[m] => state'[m] \in {"failed", "disabled"}) /\ JobIsBacked(m)'
  BY <1>2 DEF JobIsBacked
<1> QED
  BY <1>1, <1>3 DEF MemberIsSound

(* A record with two fields replaced. *)
LEMMA JobFields ==
  ASSUME NEW j \in Job, NEW s, NEW g
  PROVE  /\ [j EXCEPT !.step = s].step = s /\ [j EXCEPT !.step = s].generation = j.generation
         /\ [j EXCEPT !.step = s].token = j.token
         /\ [j EXCEPT !.step = s, !.generation = g].step = s
         /\ [j EXCEPT !.step = s, !.generation = g].generation = g
BY DEF Job

(* The steps of the worker keep the member they work on sound. *)
LEMMA WorkedIsSound ==
  ASSUME ReworkInv, [Next]_vars, TypeOK', LeasesAge', NEW m \in Members,
         \/ Pick(m) \/ Claim(m) \/ LoginConfirmed(m) \/ LoginStep(m) \/ LinkAccount(m)
         \/ PinCredentials(m) \/ ReadAccount(m) \/ ResetStage(m) \/ InvalidateRejected(m)
         \/ Warmed(m) \/ Promote(m) \/ LoseJob(m)
         \/ \E kind \in {"transient", "terminal", "manual"} : StepFail(m, kind)
  PROVE  MemberIsSound(m)'
<1>1. /\ TypeOK /\ MemberIsSound(m) /\ now \in Nat /\ lease \in LeaseTable /\ hold \in HoldTable
      /\ job \in [Members -> Job \cup {NoJob}] /\ generation[m] \in Nat /\ verified[m] \in BOOLEAN
      /\ lease' \in LeaseTable /\ generation \in [Members -> Nat]
  BY DEF ReworkInv, SharingInv, TypeOK
<1>2. job[m] # NoJob => job[m] \in Job /\ job[m].generation \in Nat /\ job[m].generation <= generation[m]
                        /\ ~manual[m]
  BY <1>1 DEF Job, MemberIsSound, JobIsBacked
<1>3. ASSUME ~AssertReady(m) \/ ~ReclaimMembers \/ job' # job PROVE Detached(m) => Detached(m)'
  BY <1>3, DetachedStays
<1>4. ASSUME state[m] = "provisioning", job' # job PROVE Detached(m)'
  BY <1>1, <1>3, <1>4 DEF MemberIsSound
<1>5. ASSUME NEW x, job' = [job EXCEPT ![m] = x], job[m] # NoJob PROVE job'[m] = x /\ (x = NoJob => job' # job)
  BY <1>1, <1>5
<1>6. CASE Pick(m)
  <2>1. /\ ReclaimMembers /\ hold' = ReclaimedHolds(hold) /\ lease' = ReclaimedLeases(lease, hold)
        /\ UNCHANGED <<now, handle, credVars, proven>> /\ job[m] = NoJob
        /\ state'[m] \in {"failed", "provisioning"} /\ (state'[m] = "failed" => ~manual'[m])
        /\ HeldBy(hold', m) = {}
    BY <1>6 DEF Pick
  <2>2. ASSUME NEW r \in Requests, hold[r] # NoHold, hold[r].expires > now PROVE hold[r].member # m
    <3>1. hold'[r] = hold[r]
      BY <1>1, <2>1, <2>2, ReclaimedHoldsFacts
    <3> QED
      BY <2>1, <2>2, <3>1 DEF HeldBy
  <2>3. ASSUME NEW c \in Callers, lease'[c] # NoLease PROVE lease'[c].member # m
    <3>1. lease'[c].member = lease[c].member /\ lease[c] # NoLease
      BY <1>1, <2>1, <2>3, ReclaimedLeasesFacts
    <3>2. ASSUME lease'[c].member = m PROVE FALSE
      <4>1. ~(lease'[c].expires > now)
        <5>1. RowAges(lease[c])'
          BY <2>3 DEF LeasesAge
        <5>2. lease'[c].expires > now' => state'[lease'[c].member] \in {"ready", "cooling"}
          BY <5>1 DEF RowAges
        <5> QED
          BY <2>1, <3>2, <5>2
      <4>2. lease'[c].expires \in Nat
        BY <1>1, <2>3 DEF LeaseTable, LeaseRow
      <4>3. ReclaimedState[m] = "cooling" \/ HasHolds(hold, m)
        <5>1. lease'[c].expires <= now
          BY <1>1, <4>1, <4>2
        <5>2. ReclaimedState[lease[c].member] = "cooling" \/ HasHolds(hold, lease[c].member)
          BY <1>1, <2>1, <2>3, <5>1, ReclaimedRows
        <5> QED
          BY <3>1, <3>2, <5>2
      <4>4. ReclaimedState[m] # "cooling"
        BY <2>1 DEF ReclaimMembers
      <4> QED
        BY <2>2, <4>3, <4>4 DEF HasHolds, HeldBy
    <3> QED
      BY <3>2
  <2>4. ASSUME NEW r \in Requests, InFlight(r)' PROVE handle'[r].member # m
    <3>1. InFlight(r)
      BY <2>1, <2>4 DEF InFlight
    <3>2. hold[r] # NoHold /\ hold[r].member = handle[r].member /\ hold[r].expires > now
      BY <3>1 DEF ReworkInv, SharingInv, HandleHasHold, InFlight
    <3> QED
      BY <2>1, <2>2, <3>2
  <2>5. Detached(m)'
    BY <2>3, <2>4 DEF Detached, LeasedTo
  <2>6. manual'[m] => manual[m] /\ ~ReclaimFails(m) /\ state'[m] = state[m]
    <3>1. manual[m] => state[m] # "cooling"
      BY <1>1 DEF MemberIsSound
    <3> QED
      BY <1>1, <2>1, <3>1, ReclaimedMember
  <2>7. ~manual'[m]
    BY <1>1, <2>1, <2>6 DEF MemberIsSound
  <2>8. job'[m] = [attempt |-> attempt[m], generation |-> generation'[m],
                   stage |-> stage'[m], step |-> "picked", token |-> 0]
    BY <1>1, <1>6 DEF Pick
  <2>9. job'[m].generation = generation'[m] /\ job'[m].step = "picked" /\ generation'[m] \in Nat
    BY <2>8 DEF TypeOK
  <2>10. verified'[m] => CredentialValid(m)' /\ token'[m] = proven'[m]
    BY <1>1, <2>1, ReclaimedMember DEF MemberIsSound, CredentialValid, credVars
  <2> QED
    BY <2>1, <2>5, <2>7, <2>9, <2>10 DEF MemberIsSound, JobIsBacked
<1>7. CASE Claim(m)
  <2>1. /\ job[m] # NoJob /\ job[m].step = "picked" /\ job[m].generation = generation[m]
        /\ UNCHANGED <<verified, credVars, proven, manual>>
        /\ job' = [job EXCEPT ![m] = [job[m] EXCEPT !.step = "claimed", !.generation = generation'[m]]]
    BY <1>7 DEF Claim
  <2>2. Detached(m)
    BY <1>1, <2>1 DEF MemberIsSound, JobIsBacked
  <2>3. job'[m].step = "claimed" /\ job'[m].generation = generation'[m]
    BY <1>1, <1>2, <2>1, JobFields
  <2>4. job' # job
    BY <2>1, <2>3
  <2>5. Detached(m)' /\ generation'[m] \in Nat
    BY <1>3, <2>2, <2>4 DEF TypeOK
  <2>6. verified'[m] => verified[m] /\ status'[m] = status[m] /\ token'[m] = token[m]
    BY <2>1 DEF credVars
  <2>7. job'[m].generation <= generation'[m]
    BY <2>3, <2>5
  <2> QED
    BY <1>1, <2>1, <2>3, <2>5, <2>6, <2>7, MovedIsSound
<1>8. CASE LoginConfirmed(m) \/ LoginStep(m) \/ LoseJob(m)
  <2>1. /\ job[m] # NoJob /\ job' = [job EXCEPT ![m] = NoJob]
        /\ UNCHANGED <<state, verified, manual, status, token, proven>>
    BY <1>8 DEF LoginConfirmed, LoginStep, LoseJob, JobCurrent, memberVars, credVars
  <2>2. job'[m] = NoJob /\ (state'[m] = "provisioning" => Detached(m)')
    BY <1>4, <1>5, <2>1
  <2> QED
    BY <1>1, <1>2, <2>1, <2>2, MovedIsSound
<1>9. CASE LinkAccount(m)
  <2>1. /\ generation' = [generation EXCEPT ![m] = @ + 1] /\ verified' = [verified EXCEPT ![m] = FALSE]
        /\ UNCHANGED <<state, job, manual, proven>> /\ ~AssertReady(m)
        /\ state[m] = "provisioning" /\ job[m] # NoJob
    <3>1. state[m] = "provisioning" /\ job[m] # NoJob
      BY <1>9 DEF LinkAccount, JobCurrent
    <3>2. ~AssertReady(m)
      BY <3>1 DEF AssertReady, ReclaimedState, ReclaimFails, Thawed
    <3> QED
      BY <1>9, <3>1, <3>2 DEF LinkAccount, WriteCredential
  <2>2. generation'[m] = generation[m] + 1 /\ ~verified'[m]
    BY <1>1, <2>1 DEF TypeOK
  <2>3. Detached(m)' /\ ~manual[m]
    BY <1>1, <1>2, <1>3, <2>1 DEF MemberIsSound
  <2>4. job'[m] = job[m]
    BY <2>1
  <2>5. job'[m].generation # generation'[m] /\ job'[m].generation <= generation'[m]
    BY <1>1, <1>2, <2>1, <2>2, <2>4
  <2> QED
    BY <1>1, <2>1, <2>2, <2>3, <2>5 DEF MemberIsSound, JobIsBacked
<1>10. CASE PinCredentials(m)
  <2>1. /\ job[m] # NoJob /\ state[m] = "provisioning" /\ job[m].step = "claimed"
        /\ UNCHANGED <<generation, state, verified, manual, status, token, proven>>
        /\ job' = [job EXCEPT ![m] = [job[m] EXCEPT !.step = "pinned", !.generation = generation[m]]]
    BY <1>10 DEF PinCredentials, JobCurrent, memberVars, credVars
  <2>2. job'[m].step = "pinned" /\ job'[m].generation = generation[m]
    BY <1>1, <1>2, <2>1, JobFields
  <2>3. job' # job
    BY <2>1, <2>2
  <2>4. job'[m].generation <= generation'[m]
    BY <1>1, <2>1, <2>2
  <2> QED
    BY <1>1, <1>4, <2>1, <2>2, <2>3, <2>4, MovedIsSound
<1>11. CASE ReadAccount(m)
  <2>1. /\ job[m] # NoJob /\ job[m].step = "pinned"
        /\ UNCHANGED <<generation, state, verified, manual, status, token, proven>>
        /\ job' = [job EXCEPT ![m] = [job[m] EXCEPT !.step = "warming", !.token = token[m]]]
    BY <1>11 DEF ReadAccount, memberVars, credVars
  <2>2. job'[m].step = "warming" /\ job'[m].generation = job[m].generation
    BY <1>1, <1>2, <2>1 DEF Job
  <2>3. job' # job
    BY <2>1, <2>2
  <2>4. job'[m].generation <= generation'[m]
    BY <1>1, <1>2, <2>1, <2>2
  <2> QED
    BY <1>1, <1>4, <2>1, <2>2, <2>3, <2>4, MovedIsSound
<1>12. CASE ResetStage(m)
  <2>1. /\ job[m] # NoJob /\ state[m] = "provisioning" /\ job[m].step \in {"pinned", "warming"}
        /\ UNCHANGED <<generation, state, verified, manual, status, token, proven>>
        /\ job' = [job EXCEPT ![m] = [job[m] EXCEPT !.stage = "login",
                        !.step = IF @ = "pinned" THEN "failing" ELSE "rejected"]]
    BY <1>12 DEF ResetStage, JobCurrent, credVars
  <2>2. job'[m].step \in {"failing", "rejected"} /\ job'[m].generation = job[m].generation
    BY <1>1, <1>2, <2>1 DEF Job
  <2>3. job' # job
    BY <2>1, <2>2
  <2>4. job'[m].generation <= generation'[m]
    BY <1>1, <1>2, <2>1, <2>2
  <2> QED
    BY <1>1, <1>4, <2>1, <2>2, <2>3, <2>4, MovedIsSound
<1>13. CASE InvalidateRejected(m)
  <2>1. /\ job[m] # NoJob /\ state[m] = "provisioning" /\ job[m].step = "rejected"
        /\ job[m].generation = generation[m]
        /\ UNCHANGED <<state, manual, proven>> /\ generation' = [generation EXCEPT ![m] = @ + 1]
        /\ verified' = [verified EXCEPT ![m] = FALSE]
        /\ job' = [job EXCEPT ![m] = [job[m] EXCEPT !.step = "failing", !.generation = @ + 1]]
    BY <1>13 DEF InvalidateRejected, JobCurrent
  <2>2. job'[m].step = "failing" /\ job'[m].generation = job[m].generation + 1
    BY <1>1, <1>2, <2>1 DEF Job
  <2>3. job' # job
    BY <2>1, <2>2
  <2>4. job'[m].generation <= generation'[m] /\ ~verified'[m]
    BY <1>1, <1>2, <2>1, <2>2 DEF TypeOK
  <2> QED
    BY <1>1, <1>4, <2>1, <2>2, <2>3, <2>4, MovedIsSound
<1>14. CASE Warmed(m)
  <2>1. /\ job[m] # NoJob /\ job[m].step = "warming" /\ CredentialValid(m) /\ token[m] = job[m].token
        /\ UNCHANGED <<generation, state, verified, manual, status, token, proven>>
        /\ job' = [job EXCEPT ![m] = [job[m] EXCEPT !.step = "warmed"]]
    BY <1>14 DEF Warmed, memberVars, credVars
  <2>2. job'[m].step = "warmed" /\ job'[m].generation = job[m].generation /\ job'[m].token = job[m].token
    BY <1>1, <1>2, <2>1, JobFields
  <2>3. job' # job
    BY <2>1, <2>2
  <2>4. JobIsBacked(m)'
    BY <1>1, <1>2, <2>1, <2>2 DEF JobIsBacked, CredentialValid
  <2>5. state'[m] = "provisioning" => Detached(m)'
    BY <1>4, <2>1, <2>3
  <2> QED
    BY <1>1, <2>1, <2>4, <2>5 DEF MemberIsSound, CredentialValid
<1>15. CASE Promote(m)
  <2>1. /\ job[m] # NoJob /\ job[m].step = "warmed" /\ job[m].generation = generation[m]
        /\ state' = [state EXCEPT ![m] = "ready"] /\ manual' = [manual EXCEPT ![m] = FALSE]
        /\ job' = [job EXCEPT ![m] = NoJob] /\ proven' = [proven EXCEPT ![m] = job[m].token]
        /\ UNCHANGED <<status, token>>
    BY <1>15 DEF Promote, JobCurrent, credVars
  <2>2. CredentialValid(m) /\ token[m] = job[m].token
    BY <1>1, <2>1 DEF MemberIsSound, JobIsBacked
  <2>3. job'[m] = NoJob /\ proven'[m] = job[m].token /\ state'[m] = "ready" /\ ~manual'[m]
    BY <1>1, <1>5, <2>1 DEF TypeOK
  <2> QED
    BY <2>1, <2>2, <2>3 DEF MemberIsSound, JobIsBacked, CredentialValid
<1>16. ASSUME NEW kind \in {"transient", "terminal", "manual"}, StepFail(m, kind) PROVE MemberIsSound(m)'
  <2>1. /\ job[m] # NoJob /\ state' = [state EXCEPT ![m] = "failed"]
        /\ job' = [job EXCEPT ![m] = NoJob] /\ UNCHANGED <<verified, status, token, proven>>
    BY <1>16 DEF StepFail, JobCurrent, credVars
  <2>2. job'[m] = NoJob /\ state'[m] = "failed"
    BY <1>1, <1>5, <2>1 DEF TypeOK
  <2> QED
    BY <1>1, <2>1, <2>2, MovedIsSound
<1> QED
  BY <1>6, <1>7, <1>8, <1>9, <1>10, <1>11, <1>12, <1>13, <1>14, <1>15, <1>16

(* Every step keeps every member sound. *)
LEMMA NextSound ==
  ASSUME ReworkInv, [Next]_vars, TypeOK', LeasesAge', NEW n \in Members
  PROVE  MemberIsSound(n)'
<1>1. /\ TypeOK /\ MemberIsSound(n) /\ generation[n] \in Nat /\ generation \in [Members -> Nat]
      /\ handle \in [Requests -> Handle \cup {NoHandle}] /\ state \in [Members -> MemberStates]
      /\ manual \in [Members -> BOOLEAN] /\ verified \in [Members -> BOOLEAN]
      /\ status \in [Members -> OauthStatuses] /\ token \in [Members -> Nat]
      /\ job \in [Members -> Job \cup {NoJob}] /\ proven \in [Members -> Nat]
  BY DEF ReworkInv, SharingInv, TypeOK
<1>2. Detached(n) => Detached(n)' \/ (state[n] \in {"ready", "cooling"} /\ state'[n] = "ready")
  BY <1>1, DetachedStays, AssertedMember
<1>3. manual[n] => state[n] \in {"failed", "disabled"}
  BY <1>1 DEF MemberIsSound
<1>4. ASSUME job'[n] = job[n], proven'[n] = proven[n], generation'[n] = generation[n], state'[n] = state[n],
             manual'[n] = manual[n], verified'[n] = verified[n], status'[n] = status[n], token'[n] = token[n]
      PROVE  MemberIsSound(n)'
  <2>1. generation[n] <= generation'[n]
    BY <1>1, <1>4
  <2> QED
    BY <1>1, <1>2, <1>3, <1>4, <2>1, SoundStays
<1>5. ASSUME UNCHANGED <<memberVars, credVars, job, proven>> PROVE MemberIsSound(n)'
  BY <1>4, <1>5 DEF memberVars, credVars
<1>6. ASSUME NEW m \in Members, n = m, job' = job, proven' = proven, generation[m] < generation'[m],
             manual'[m] => manual[m] /\ state'[m] \in {"failed", "disabled"},
             verified'[m] => verified[m] /\ status'[m] = status[m] /\ token'[m] = token[m],
             state'[m] = "provisioning" => state[m] = "provisioning" \/ Detached(m)'
      PROVE  MemberIsSound(n)'
  <2>1. generation'[n] \in Nat
    BY DEF TypeOK
  <2>2. generation[n] <= generation'[n] /\ generation'[n] # generation[n]
    BY <1>1, <1>6, <2>1
  <2> QED
    BY <1>1, <1>2, <1>6, <2>2, SoundStays
<1>7. ASSUME NEW r \in Requests, handle[r] # NoHandle PROVE handle[r].member \in Members
  BY <1>1, <1>7 DEF Handle
<1>8. CASE Tick
  BY <1>5, <1>8 DEF Tick
<1>9. CASE Reclaim
  BY <1>9, ReclaimSound DEF Reclaim
<1>10. CASE RequestNext
  <2>1. PICK r \in Requests :
           \/ \E c \in Callers : AcquireLeased(c, r) \/ AcquireNew(c, r) \/ AcquireCatalog(c, r)
           \/ Authorize(r) \/ RecoverUnauthorized(r) \/ Cool(r) \/ Quarantine(r)
           \/ \E success \in BOOLEAN : Finish(r, success)
           \/ LoseHandle(r)
    BY <1>10, RequestCases
  <2>2. CASE \E c \in Callers : AcquireLeased(c, r) \/ AcquireNew(c, r) \/ AcquireCatalog(c, r)
    <3>1. ReclaimMembers /\ UNCHANGED <<credVars, job, proven>>
      BY <1>1, <2>2, AcquireIsAdmission DEF Admission, Admit
    <3> QED
      BY <3>1, ReclaimSound
  <2>3. CASE Authorize(r) \/ LoseHandle(r)
    BY <1>5, <2>3 DEF Authorize, LoseHandle
  <2>4. CASE RecoverUnauthorized(r)
    <3> DEFINE m == handle[r].member
    <3>1. m \in Members
      BY <1>7, <2>4 DEF RecoverUnauthorized
    <3>2. /\ generation' = [generation EXCEPT ![m] = @ + 2] /\ state' = [state EXCEPT ![m] = "failed"]
          /\ manual' = [manual EXCEPT ![m] = FALSE] /\ verified' = [verified EXCEPT ![m] = FALSE]
          /\ status' = [status EXCEPT ![m] = "expired"] /\ token' = [token EXCEPT ![m] = 0]
          /\ UNCHANGED <<job, proven>>
      BY <2>4 DEF RecoverUnauthorized, CredentialFence
    <3> HIDE DEF m
    <3>3. CASE n = m
      <4>1. state'[m] = "failed" /\ ~manual'[m] /\ ~verified'[m] /\ generation[m] < generation'[m]
        BY <1>1, <3>1, <3>2
      <4> QED
        BY <1>6, <3>1, <3>2, <3>3, <4>1
    <3>4. CASE n # m
      BY <1>1, <1>4, <3>2, <3>4
    <3> QED
      BY <3>3, <3>4
  <2>5. CASE Cool(r)
    <3> DEFINE m == handle[r].member
    <3>1. /\ m \in Members /\ hold[r] # NoHold /\ handle[r] # NoHandle /\ CurrentHold(r)
      BY <1>7, <2>5 DEF Cool, CurrentHold
    <3>2. /\ state' = [state EXCEPT ![m] = "cooling"]
          /\ UNCHANGED <<generation, manual, verified, status, token, job, proven>>
      BY <2>5 DEF Cool, credVars
    <3>3. state[m] \in {"ready", "cooling"}
      BY <3>1 DEF CurrentHold, ReworkInv, HandleAgrees
    <3> HIDE DEF m
    <3>4. CASE n = m
      <4>1. ~manual[n] /\ state'[n] = "cooling" /\ generation[n] <= generation'[n]
        BY <1>1, <1>3, <3>1, <3>2, <3>3, <3>4
      <4> QED
        BY <1>1, <1>2, <3>2, <3>3, <3>4, <4>1, SoundStays
    <3>5. CASE n # m
      BY <1>1, <1>4, <3>2, <3>5
    <3> QED
      BY <3>4, <3>5
  <2>6. CASE Quarantine(r)
    <3> DEFINE m == handle[r].member
    <3>1. m \in Members
      BY <1>7, <2>6 DEF Quarantine
    <3>2. /\ generation' = [generation EXCEPT ![m] = @ + 1] /\ state' = [state EXCEPT ![m] = "failed"]
          /\ manual' = [manual EXCEPT ![m] = FALSE]
          /\ UNCHANGED <<verified, status, token, job, proven>>
      BY <2>6 DEF Quarantine, credVars
    <3> HIDE DEF m
    <3>3. CASE n = m
      <4>1. state'[m] = "failed" /\ ~manual'[m] /\ generation[m] < generation'[m]
        BY <1>1, <3>1, <3>2
      <4> QED
        BY <1>6, <3>1, <3>2, <3>3, <4>1
    <3>4. CASE n # m
      BY <1>1, <1>4, <3>2, <3>4
    <3> QED
      BY <3>3, <3>4
  <2>7. ASSUME NEW success \in BOOLEAN, Finish(r, success) PROVE MemberIsSound(n)'
    <3>1. CASE hold[r] = NoHold
      BY <1>5, <2>7, <3>1 DEF Finish
    <3>2. CASE hold[r] # NoHold
      <4>1. ReclaimMembers /\ UNCHANGED <<credVars, job, proven>>
        BY <2>7, <3>2 DEF Finish
      <4> QED
        BY <4>1, ReclaimSound
    <3> QED
      BY <3>1, <3>2
  <2> QED
    BY <2>1, <2>2, <2>3, <2>4, <2>5, <2>6, <2>7
<1>11. CASE AdminNext
  <2>1. ASSUME NEW c \in Callers, Release(c) PROVE MemberIsSound(n)'
    BY <1>5, <2>1 DEF Release
  <2>2. ASSUME NEW m \in Members, Disable(m) PROVE MemberIsSound(n)'
    <3>1. /\ generation' = [generation EXCEPT ![m] = @ + 1] /\ state' = [state EXCEPT ![m] = "disabled"]
          /\ UNCHANGED <<manual, verified, status, token, job, proven>>
      BY <2>2 DEF Disable, credVars
    <3>2. CASE n = m
      <4>1. state'[m] = "disabled" /\ generation[m] < generation'[m]
        BY <1>1, <3>1
      <4> QED
        BY <1>6, <3>1, <3>2, <4>1
    <3>3. CASE n # m
      BY <1>1, <1>4, <3>1, <3>3
    <3> QED
      BY <3>2, <3>3
  <2>3. ASSUME NEW m \in Members, Retry(m) PROVE MemberIsSound(n)'
    <3>1. /\ generation' = [generation EXCEPT ![m] = @ + 1] /\ state' = [state EXCEPT ![m] = "provisioning"]
          /\ verified' = [verified EXCEPT ![m] = FALSE]
          /\ UNCHANGED <<manual, status, token, job, proven>> /\ ~manual[m]
      BY <2>3 DEF Retry, credVars
    <3>2. Detached(m)'
      <4>1. ~HasHolds(hold, m) /\ DeleteLeases(LeasedTo(m)) /\ UNCHANGED <<now, handle>>
        BY <2>3 DEF Retry
      <4>2. LeasedTo(m)' = {}
        BY <4>1 DEF DeleteLeases, LeasedTo
      <4>3. ASSUME NEW r \in Requests, InFlight(r)' PROVE handle'[r].member # m
        <5>1. InFlight(r)
          BY <4>1, <4>3 DEF InFlight
        <5>2. hold[r] # NoHold /\ hold[r].member = handle[r].member /\ hold[r].expires > now
          BY <5>1 DEF ReworkInv, SharingInv, HandleHasHold, InFlight
        <5> QED
          BY <4>1, <5>2 DEF HasHolds, HeldBy
      <4> QED
        BY <4>2, <4>3 DEF Detached
    <3>3. CASE n = m
      <4>1. generation[m] < generation'[m] /\ ~verified'[m] /\ ~manual'[m]
        BY <1>1, <3>1
      <4> QED
        BY <1>6, <3>1, <3>2, <3>3, <4>1
    <3>4. CASE n # m
      BY <1>1, <1>4, <3>1, <3>4
    <3> QED
      BY <3>3, <3>4
  <2>4. ASSUME NEW e, NEW s, SetEnterprise(e, s) PROVE MemberIsSound(n)'
    BY <1>5, <2>4 DEF SetEnterprise
  <2> QED
    BY <1>11, <2>1, <2>2, <2>3, <2>4, BoundAssumption DEF AdminNext
<1>12. CASE LoginNext
  <2>1. PICK m \in Members : BeginLogin(m) \/ SaveToken(m) \/ FailLogin(m) \/ ImportToken(m)
    BY <1>12, BoundAssumption DEF LoginNext
  <2>2. PICK x, t : WriteCredential(m, x, t)
    BY <2>1 DEF BeginLogin, SaveToken, FailLogin, ImportToken
  <2>3. /\ generation' = [generation EXCEPT ![m] = @ + 1] /\ verified' = [verified EXCEPT ![m] = FALSE]
        /\ status' = [status EXCEPT ![m] = x] /\ token' = [token EXCEPT ![m] = t]
        /\ UNCHANGED <<state, manual, job, proven>>
    BY <2>2 DEF WriteCredential, CredentialFence
  <2>4. CASE n = m
    <3>1. generation[m] < generation'[m] /\ ~verified'[m]
      BY <1>1, <2>3
    <3> QED
      BY <1>3, <1>6, <2>3, <2>4, <3>1
  <2>5. CASE n # m
    BY <1>1, <1>4, <2>3, <2>5
  <2> QED
    BY <2>4, <2>5
<1>13. CASE WorkerNext
  <2>1. PICK m \in Members :
           \/ Pick(m) \/ Claim(m) \/ LoginConfirmed(m) \/ LoginStep(m) \/ LinkAccount(m)
           \/ PinCredentials(m) \/ ReadAccount(m) \/ ResetStage(m) \/ InvalidateRejected(m)
           \/ Warmed(m) \/ Promote(m) \/ LoseJob(m)
           \/ \E kind \in {"transient", "terminal", "manual"} : StepFail(m, kind)
    BY <1>13, WorkerCases
  <2>2. CASE n = m
    BY <2>1, <2>2, WorkedIsSound
  <2>3. ASSUME n # m, Pick(m) PROVE MemberIsSound(n)'
    <3>1. ReclaimMembers /\ UNCHANGED <<credVars, proven>> /\ job'[n] = job[n]
      BY <1>1, <2>3 DEF Pick
    <3> QED
      BY <3>1, ReclaimSound
  <2>4. ASSUME n # m, UNCHANGED <<memberVars, credVars, proven>> \/ UNCHANGED <<state, generation, manual, verified, credVars, proven>>,
               \E x : job' = [job EXCEPT ![m] = x]
        PROVE  MemberIsSound(n)'
    BY <1>1, <1>4, <2>4 DEF memberVars, credVars
  <2>5. ASSUME n # m, PinCredentials(m) \/ ReadAccount(m) \/ Warmed(m) \/ LoseJob(m) PROVE MemberIsSound(n)'
    <3>1. UNCHANGED <<memberVars, credVars, proven>> /\ \E x : job' = [job EXCEPT ![m] = x]
      BY <2>5 DEF PinCredentials, ReadAccount, Warmed, LoseJob
    <3> QED
      BY <2>4, <2>5, <3>1
  <2>6. ASSUME n # m, LoginConfirmed(m) \/ LoginStep(m) \/ ResetStage(m) PROVE MemberIsSound(n)'
    <3>1. UNCHANGED <<state, generation, manual, verified, credVars, proven>> /\ \E x : job' = [job EXCEPT ![m] = x]
      BY <2>6 DEF LoginConfirmed, LoginStep, ResetStage
    <3> QED
      BY <2>4, <2>6, <3>1
  <2>7. ASSUME n # m, LinkAccount(m) \/ InvalidateRejected(m) PROVE MemberIsSound(n)'
    <3>1. /\ generation' = [generation EXCEPT ![m] = @ + 1] /\ verified' = [verified EXCEPT ![m] = FALSE]
          /\ \E x : status' = [status EXCEPT ![m] = x]
          /\ \E x : token' = [token EXCEPT ![m] = x]
          /\ job' = job \/ \E x : job' = [job EXCEPT ![m] = x]
          /\ UNCHANGED <<state, manual, proven>>
      BY <2>7 DEF LinkAccount, InvalidateRejected, WriteCredential, CredentialFence
    <3> QED
      BY <1>1, <1>4, <2>7, <3>1
  <2>8. ASSUME n # m, Claim(m) PROVE MemberIsSound(n)'
    <3>1. /\ generation' = generation \/ generation' = [generation EXCEPT ![m] = @ + 1]
          /\ state' = state \/ state' = [state EXCEPT ![m] = "provisioning"]
          /\ \E x : job' = [job EXCEPT ![m] = x]
          /\ UNCHANGED <<manual, verified, status, token, proven>>
      BY <2>8 DEF Claim, credVars
    <3> QED
      BY <1>1, <1>4, <2>8, <3>1
  <2>9. ASSUME n # m, Promote(m) PROVE MemberIsSound(n)'
    <3>1. /\ verified' = [verified EXCEPT ![m] = TRUE] /\ state' = [state EXCEPT ![m] = "ready"]
          /\ manual' = [manual EXCEPT ![m] = FALSE] /\ proven' = [proven EXCEPT ![m] = job[m].token]
          /\ \E x : job' = [job EXCEPT ![m] = x]
          /\ UNCHANGED <<generation, status, token>>
      BY <2>9 DEF Promote, credVars
    <3> QED
      BY <1>1, <1>4, <2>9, <3>1
  <2>10. ASSUME n # m, NEW kind \in {"transient", "terminal", "manual"}, StepFail(m, kind)
         PROVE  MemberIsSound(n)'
    <3>1. /\ generation' = [generation EXCEPT ![m] = @ + 1] /\ state' = [state EXCEPT ![m] = "failed"]
          /\ \E x : manual' = [manual EXCEPT ![m] = x]
          /\ \E x : job' = [job EXCEPT ![m] = x]
          /\ UNCHANGED <<verified, status, token, proven>>
      BY <2>10 DEF StepFail, credVars
    <3> QED
      BY <1>1, <1>4, <2>10, <3>1
  <2> QED
    BY <2>1, <2>2, <2>3, <2>5, <2>6, <2>7, <2>8, <2>9, <2>10
<1>14. CASE UNCHANGED vars
  BY <1>5, <1>14 DEF vars
<1> QED
  BY <1>8, <1>9, <1>10, <1>11, <1>12, <1>13, <1>14 DEF Next

-----------------------------------------------------------------------------
(* The rework invariant holds in every reachable state. *)
THEOREM Rework == Spec => []ReworkInv
<1>1. Init => ReworkInv
  <2> SUFFICES ASSUME Init PROVE ReworkInv
    OBVIOUS
  <2>1. /\ \A c \in Callers : lease[c] = NoLease
        /\ \A r \in Requests : hold[r] = NoHold /\ handle[r] = NoHandle
    BY DEF Init
  <2>2. ASSUME NEW m \in Members PROVE MemberIsSound(m)
    BY <2>2 DEF Init, MemberIsSound, JobIsBacked, CredentialValid
  <2>3. SharingInv
    BY InitSharing
  <2> QED
    BY <2>1, <2>2, <2>3 DEF ReworkInv, LeasesAge, HandleAgrees, LeaseHasOneGeneration,
                           ProvisionalLeaseIsBounded, CooldownFollowsCaller
<1>2. ASSUME ReworkInv, [Next]_vars PROVE ReworkInv'
  <2>1. SharingInv'
    BY <1>2, NextSharing DEF ReworkInv
  <2>2. TypeOK'
    BY <2>1 DEF SharingInv
  <2>3. LeasesAge' /\ HandleAgrees'
    BY <1>2, <2>2, NextAges, NextAgrees
  <2>4. LeaseHasOneGeneration' /\ ProvisionalLeaseIsBounded' /\ CooldownFollowsCaller'
    BY <1>2, <2>1, <2>2, NextHoldAges, NextCooldown
  <2>5. \A m \in Members : MemberIsSound(m)'
    BY <1>2, <2>2, <2>3, NextSound
  <2> QED
    BY <2>1, <2>3, <2>4, <2>5 DEF ReworkInv
<1> QED
  BY <1>1, <1>2, PTL DEF Spec

(* No caller keeps a member beyond its provisional time, and none escapes the
   cooling of the member it discovers models through. *)
THEOREM LeasesKeepTheirTimes == Spec => []LeaseTimesAreKept
<1>1. ReworkInv => LeaseTimesAreKept
  BY DEF ReworkInv, LeaseTimesAreKept
<1> QED
  BY <1>1, Rework, PTL

(* The worker rebuilds a member only when nobody has it, every request of a
   lease is of the generation the lease was created in, and a verified member
   has the very credential that its last warmup proved. *)
THEOREM CredentialsStaySound == Spec => []CredentialsAreSound
<1>1. ReworkInv => CredentialsAreSound
  BY DEF ReworkInv, MemberIsSound, CredentialsAreSound, RebuiltMemberIsUnused, Detached, VerifiedMeansProven
<1> QED
  BY <1>1, Rework, PTL

-----------------------------------------------------------------------------
(* What no step does. *)

(* A lease row grows older, is renewed by a request of its own generation, or
   is replaced by a lease of a later time. *)
LEMMA RenewalStep ==
  ASSUME ReworkInv, [Next]_vars, TypeOK', NEW c \in Callers,
         lease[c] # NoLease, lease'[c] # NoLease,
         lease'[c].born = lease[c].born, lease'[c].assigned = lease[c].assigned,
         lease'[c].member = lease[c].member, lease'[c].expires > lease[c].expires
  PROVE  generation[lease[c].member] = lease[c].born /\ state[lease[c].member] = "ready"
<1>1. /\ TypeOK /\ now \in Nat /\ lease \in LeaseTable /\ hold \in HoldTable
      /\ lease[c] \in LeaseRow /\ lease'[c] \in LeaseRow /\ RowAges(lease[c])
  BY DEF ReworkInv, SharingInv, TypeOK, LeasesAge, LeaseTable
<1>2. lease[c].expires \in Nat /\ lease'[c].expires \in Nat /\ lease[c].member \in Members
      /\ lease'[c] # lease[c]
  BY <1>1 DEF LeaseRow
<1>3. ASSUME NEW l \in LeaseRow, lease'[c] = l \/ lease'[c] = CutRow(l) PROVE lease'[c].expires <= l.expires
  <2>1. l.expires \in Nat
    BY DEF LeaseRow
  <2> QED
    BY <1>1, <1>3, <2>1, CutRowFacts
<1>4. lease'[c] # CutRow(lease[c])
  BY <1>1, <1>2, <1>3
<1>5. ASSUME NEW M, lease' = CutLeases(lease, M) PROVE FALSE
  BY <1>1, <1>2, <1>4, <1>5, CutLeasesRows
<1>6. ASSUME NEW C, DeleteLeases(C) PROVE FALSE
  BY <1>2, <1>6 DEF DeleteLeases
<1>7. ASSUME lease' = ReclaimedLeases(lease, hold) PROVE FALSE
  BY <1>1, <1>2, <1>4, <1>7, ReclaimedRows
<1>8. ASSUME lease' = lease PROVE FALSE
  BY <1>2, <1>8
<1>9. ASSUME NEW kind \in {"lease", "catalog"}, NEW d \in Callers, NEW r \in Requests,
             NEW m \in Members, Admission(kind, d, r, m)
      PROVE  FALSE
  <2>1. lease'[c] # ReclaimedLeases(lease, hold)[c]
    BY <1>1, <1>2, <1>4, <1>9, ReclaimedRows
  <2>2. lease'[c] = NewLease(m) /\ ReclaimedLeases(lease, hold)[c] = NoLease
    BY <1>9, <2>1, AdmissionRows
  <2>3. ReclaimMembers /\ AssertReady(m)
    BY <1>9 DEF Admission, Admit
  <2>4. lease[c].born = generation[m] /\ lease[c].assigned = now /\ lease[c].member = m
    BY <1>1, <2>2, <2>3, AssertedMember DEF NewLease
  <2>5. lease[c].expires > now
    BY <1>1, <2>4 DEF RowAges
  <2>6. ReclaimedLeases(lease, hold)[c] # NoLease
    <3> DEFINE cut == CutLeases(lease, FailedByReclaim)
    <3>1. ~ReclaimFails(m)
      BY <1>1, <2>3, <2>4, AssertedMember
    <3>2. cut[c] = lease[c]
      BY <1>1, <2>4, <3>1, CutLeasesRows DEF FailedByReclaim
    <3> HIDE DEF cut
    <3>3. ReclaimedLeases(lease, hold)[c] =
            IF /\ cut[c] # NoLease /\ cut[c].expires <= now
               /\ ReclaimedState[cut[c].member] # "cooling" /\ ~HasHolds(hold, cut[c].member)
            THEN NoLease ELSE cut[c]
      BY DEF ReclaimedLeases, cut
    <3>4. ~(cut[c].expires <= now)
      BY <1>1, <1>2, <2>5, <3>2
    <3> QED
      BY <3>2, <3>3, <3>4
  <2> QED
    BY <2>2, <2>6
<1>10. ASSUME NEW r \in Requests, NEW success \in BOOLEAN, Finish(r, success)
       PROVE  generation[lease[c].member] = lease[c].born /\ state[lease[c].member] = "ready"
  <2> DEFINE hs == [hold EXCEPT ![r] = NoHold]
             rn == RenewedLeases(r, success)
  <2>1. handle[r] # NoHandle
    BY <1>10 DEF Finish
  <2>2. hold[r] # NoHold
    BY <1>8, <1>10 DEF Finish, leaseVars
  <2>3. lease' = ReclaimedLeases(rn, hs)
    BY <1>10, <2>2 DEF Finish
  <2>4. hs \in HoldTable /\ rn \in LeaseTable
    BY <1>1, <2>1, RenewedRows DEF HoldTable
  <2>5. rn[c] # lease[c]
    <3> HIDE DEF hs, rn
    <3>1. rn[c] \in LeaseRow /\ (lease'[c] = rn[c] \/ lease'[c] = CutRow(rn[c]))
      BY <1>1, <2>3, <2>4, ReclaimedRows
    <3> QED
      BY <1>2, <1>4, <3>1
  <2>6. /\ c = handle[r].caller /\ handle[r].kind = "lease" /\ CurrentHold(r)
        /\ state[handle[r].member] = "ready"
    BY <1>1, <2>1, <2>5, RenewedRows
  <2>7. /\ hold[r].kind = "lease" /\ hold[r].caller = c /\ hold[r].member = handle[r].member
        /\ generation[hold[r].member] = hold[r].generation
    BY <2>1, <2>2, <2>6 DEF ReworkInv, HandleAgrees, CurrentHold
  <2>8. lease[c].member = hold[r].member /\ hold[r].generation = lease[c].born
    BY <2>2, <2>7 DEF ReworkInv, SharingInv, HoldHasLeaseIn, LeaseHasOneGeneration
  <2> QED
    BY <2>6, <2>7, <2>8
<1>11. CASE RequestNext
  <2>1. PICK r \in Requests :
           \/ \E d \in Callers : AcquireLeased(d, r) \/ AcquireNew(d, r) \/ AcquireCatalog(d, r)
           \/ Authorize(r) \/ RecoverUnauthorized(r) \/ Cool(r) \/ Quarantine(r)
           \/ \E success \in BOOLEAN : Finish(r, success)
           \/ LoseHandle(r)
    BY <1>11, RequestCases
  <2>2. CASE \E d \in Callers : AcquireLeased(d, r) \/ AcquireNew(d, r) \/ AcquireCatalog(d, r)
    BY <1>1, <1>9, <2>2, AcquireIsAdmission
  <2>3. CASE Authorize(r) \/ LoseHandle(r) \/ Cool(r)
    BY <1>8, <2>3 DEF Authorize, LoseHandle, Cool, leaseVars
  <2>4. CASE RecoverUnauthorized(r) \/ Quarantine(r)
    <3>1. lease' = CutLeases(lease, {handle[r].member})
      BY <2>4 DEF RecoverUnauthorized, Quarantine
    <3> QED
      BY <1>5, <3>1
  <2> QED
    BY <1>10, <2>1, <2>2, <2>3, <2>4
<1>12. CASE AdminNext
  BY <1>5, <1>6, <1>8, <1>12 DEF AdminNext, Release, Disable, Retry, SetEnterprise, leaseVars
<1>13. CASE LoginNext
  BY <1>8, <1>13 DEF LoginNext, BeginLogin, SaveToken, FailLogin, ImportToken, WriteCredential, leaseVars
<1>14. CASE WorkerNext
  <2>1. PICK m \in Members :
           \/ Pick(m) \/ Claim(m) \/ LoginConfirmed(m) \/ LoginStep(m) \/ LinkAccount(m)
           \/ PinCredentials(m) \/ ReadAccount(m) \/ ResetStage(m) \/ InvalidateRejected(m)
           \/ Warmed(m) \/ Promote(m) \/ LoseJob(m)
           \/ \E kind \in {"transient", "terminal", "manual"} : StepFail(m, kind)
    BY <1>14, WorkerCases
  <2>2. CASE Pick(m)
    BY <1>7, <2>2 DEF Pick
  <2>3. CASE Claim(m)
    BY <1>5, <1>8, <2>3 DEF Claim
  <2>4. CASE \E kind \in {"transient", "terminal", "manual"} : StepFail(m, kind)
    <3>1. lease' = CutLeases(lease, {m})
      BY <2>4 DEF StepFail
    <3> QED
      BY <1>5, <3>1
  <2>5. CASE \/ LoginConfirmed(m) \/ LoginStep(m) \/ LinkAccount(m) \/ PinCredentials(m) \/ ReadAccount(m)
             \/ ResetStage(m) \/ InvalidateRejected(m) \/ Warmed(m) \/ Promote(m) \/ LoseJob(m)
    BY <1>8, <2>5 DEF LoginConfirmed, LoginStep, LinkAccount, WriteCredential, PinCredentials, ReadAccount,
                      ResetStage, InvalidateRejected, Warmed, Promote, LoseJob, leaseVars
  <2> QED
    BY <2>1, <2>2, <2>3, <2>4, <2>5
<1>15. CASE Tick \/ Reclaim \/ UNCHANGED vars
  BY <1>7, <1>8, <1>15 DEF Tick, Reclaim, vars, leaseVars
<1> QED
  BY <1>11, <1>12, <1>13, <1>14, <1>15 DEF Next

(* A lease or a hold that was not there names a member whose enterprise is
   active; an inference hold may also join a lease that was there. *)
LEMMA DrainingStep ==
  ASSUME ReworkInv, [Next]_vars, NEW m \in Members, ~EnterpriseActive(m)
  PROVE  /\ \A c \in Callers : lease[c] = NoLease => lease'[c] = NoLease \/ lease'[c].member # m
         /\ \A r \in Requests : hold[r] = NoHold /\ hold'[r] # NoHold /\ hold'[r].member = m
              => hold'[r].kind = "lease" /\ lease[hold'[r].caller] # NoLease
<1>1. TypeOK /\ now \in Nat /\ lease \in LeaseTable /\ hold \in HoldTable
  BY DEF ReworkInv, SharingInv, TypeOK
<1>2. CASE ~\E c \in Callers, r \in Requests : AcquireLeased(c, r) \/ AcquireNew(c, r) \/ AcquireCatalog(c, r)
  BY <1>1, <1>2, OtherStepsShrink DEF RowsShrink
<1>3. ASSUME NEW kind \in {"lease", "catalog"}, NEW c \in Callers, NEW r \in Requests,
             NEW n \in Members, Admission(kind, c, r, n)
      PROVE  /\ \A d \in Callers : lease[d] = NoLease => lease'[d] = NoLease \/ lease'[d].member # m
             /\ \A q \in Requests : hold[q] = NoHold /\ hold'[q] # NoHold /\ hold'[q].member = m
                  => hold'[q].kind = "lease" /\ lease[hold'[q].caller] # NoLease
  <2>1. \A d \in Callers : lease[d] = NoLease => ReclaimedLeases(lease, hold)[d] = NoLease
    BY <1>1, ReclaimedRows
  <2>2. ASSUME NEW d \in Callers, lease[d] = NoLease, lease'[d] # NoLease
        PROVE  lease'[d].member # m
    <3>1. lease'[d] = NewLease(n) /\ EnterpriseActive(n)
      BY <1>3, <2>1, <2>2, AdmissionRows
    <3>2. lease'[d].member = n
      BY <3>1 DEF NewLease
    <3> QED
      BY <3>1, <3>2
  <2>3. ASSUME NEW q \in Requests, hold[q] = NoHold, hold'[q] # NoHold, hold'[q].member = m
        PROVE  hold'[q].kind = "lease" /\ lease[hold'[q].caller] # NoLease
    <3>1. q = r
      BY <1>3, <2>3, AdmissionRows
    <3>2. hold'[q] = NewHold(kind, c, n)
      BY <1>3, <3>1, AdmissionRows
    <3>3. hold'[q].kind = kind /\ hold'[q].caller = c /\ n = m
      BY <2>3, <3>2 DEF NewHold
    <3>4. kind = "lease" /\ ReclaimedLeases(lease, hold)[c] # NoLease
      BY <1>3, <3>3 DEF Admission
    <3> QED
      BY <2>1, <3>3, <3>4
  <2> QED
    BY <2>2, <2>3
<1> QED
  BY <1>1, <1>2, <1>3, AcquireIsAdmission

(* Only the two reports of an upstream rejection erase a token, and both
   compare it with the token that was sent. *)
LEMMA ErasedTokenStep ==
  ASSUME ReworkInv, [Next]_vars, NEW m \in Members, token[m] # 0, token'[m] = 0
  PROVE  \/ \E r \in Requests : handle[r] # NoHandle /\ handle[r].member = m /\ handle[r].token = token[m]
         \/ job[m] # NoJob /\ job[m].token = token[m]
<1>1. TypeOK
  BY DEF ReworkInv, SharingInv
<1>2. token \in [Members -> Nat] /\ generation \in [Members -> Nat]
  BY <1>1 DEF TypeOK
<1>3. ASSUME UNCHANGED token PROVE FALSE
  BY <1>3
<1>4. ASSUME NEW n \in Members, NEW s, NEW t, CredentialFence(n, s, t) PROVE n = m /\ t = 0
  BY <1>2, <1>4 DEF CredentialFence
<1>5. ASSUME NEW n \in Members, NEW s, NEW t, WriteCredential(n, s, t) PROVE n = m /\ t = 0
  BY <1>4, <1>5 DEF WriteCredential
<1>6. CASE RequestNext
  <2>1. PICK r \in Requests :
           \/ \E d \in Callers : AcquireLeased(d, r) \/ AcquireNew(d, r) \/ AcquireCatalog(d, r)
           \/ Authorize(r) \/ RecoverUnauthorized(r) \/ Cool(r) \/ Quarantine(r)
           \/ \E success \in BOOLEAN : Finish(r, success)
           \/ LoseHandle(r)
    BY <1>6, RequestCases
  <2>2. CASE \E d \in Callers : AcquireLeased(d, r) \/ AcquireNew(d, r) \/ AcquireCatalog(d, r)
    BY <1>1, <1>3, <2>2, AcquireIsAdmission DEF Admission, Admit, credVars
  <2>3. CASE RecoverUnauthorized(r)
    <3>1. /\ handle[r] # NoHandle /\ token[handle[r].member] = handle[r].token
          /\ CredentialFence(handle[r].member, "expired", 0)
      BY <2>3 DEF RecoverUnauthorized
    <3>2. handle[r].member \in Members
      BY <1>1, <3>1 DEF TypeOK, Handle
    <3> QED
      BY <1>4, <3>1, <3>2
  <2>4. CASE Authorize(r) \/ Cool(r) \/ Quarantine(r) \/ LoseHandle(r)
    BY <1>3, <2>4 DEF Authorize, Cool, Quarantine, LoseHandle, credVars
  <2>5. CASE \E success \in BOOLEAN : Finish(r, success)
    BY <1>3, <2>5 DEF Finish, credVars
  <2> QED
    BY <2>1, <2>2, <2>3, <2>4, <2>5
<1>7. CASE AdminNext
  BY <1>3, <1>7 DEF AdminNext, Release, Disable, Retry, SetEnterprise, credVars
<1>8. CASE LoginNext
  <2>1. PICK n \in Members : BeginLogin(n) \/ SaveToken(n) \/ FailLogin(n) \/ ImportToken(n)
    BY <1>8, BoundAssumption DEF LoginNext
  <2>2. CASE BeginLogin(n) \/ FailLogin(n)
    BY <1>5, <2>2 DEF BeginLogin, FailLogin
  <2>3. CASE SaveToken(n) \/ ImportToken(n)
    <3>1. generation[n] + 1 # 0
      BY <1>2
    <3> QED
      BY <1>5, <2>3, <3>1 DEF SaveToken, ImportToken
  <2> QED
    BY <2>1, <2>2, <2>3
<1>9. CASE WorkerNext
  <2>1. PICK n \in Members :
           \/ Pick(n) \/ Claim(n) \/ LoginConfirmed(n) \/ LoginStep(n) \/ LinkAccount(n)
           \/ PinCredentials(n) \/ ReadAccount(n) \/ ResetStage(n) \/ InvalidateRejected(n)
           \/ Warmed(n) \/ Promote(n) \/ LoseJob(n)
           \/ \E kind \in {"transient", "terminal", "manual"} : StepFail(n, kind)
    BY <1>9, WorkerCases
  <2>2. CASE LinkAccount(n)
    BY <1>5, <2>2 DEF LinkAccount
  <2>3. CASE InvalidateRejected(n)
    <3>1. job[n] # NoJob /\ token[n] = job[n].token /\ CredentialFence(n, "expired", 0)
      BY <2>3 DEF InvalidateRejected, JobCurrent
    <3> QED
      BY <1>4, <3>1
  <2>4. CASE \E kind \in {"transient", "terminal", "manual"} : StepFail(n, kind)
    BY <1>3, <2>4 DEF StepFail, credVars
  <2>5. CASE Pick(n) \/ Claim(n) \/ LoginConfirmed(n) \/ LoginStep(n)
    BY <1>3, <2>5 DEF Pick, Claim, LoginConfirmed, LoginStep, credVars
  <2>6. CASE PinCredentials(n) \/ ReadAccount(n) \/ ResetStage(n) \/ Warmed(n) \/ Promote(n) \/ LoseJob(n)
    BY <1>3, <2>6 DEF PinCredentials, ReadAccount, ResetStage, Warmed, Promote, LoseJob, credVars
  <2> QED
    BY <2>1, <2>2, <2>3, <2>4, <2>5, <2>6
<1>10. CASE Tick \/ Reclaim \/ UNCHANGED vars
  BY <1>3, <1>10 DEF Tick, Reclaim, vars, credVars
<1> QED
  BY <1>6, <1>7, <1>8, <1>9, <1>10 DEF Next

(* No hold of a member that waits for an operator is current, no worker step
   has it, and retry() refuses it. *)
LEMMA ManualStep ==
  ASSUME ReworkInv, [Next]_vars, NEW m \in Members, manual[m]
  PROVE  manual'[m] /\ state'[m] \in {"failed", "disabled"}
<1>1. TypeOK
  BY DEF ReworkInv, SharingInv
<1>2. state \in [Members -> MemberStates] /\ manual \in [Members -> BOOLEAN]
  BY <1>1 DEF TypeOK
<1>3. state[m] \in {"failed", "disabled"} /\ job[m] = NoJob
  BY DEF ReworkInv, MemberIsSound, JobIsBacked
<1>4. ASSUME UNCHANGED <<manual, state>> PROVE manual'[m] /\ state'[m] \in {"failed", "disabled"}
  BY <1>3, <1>4
<1>5. ASSUME ReclaimMembers PROVE manual'[m] /\ state'[m] \in {"failed", "disabled"}
  <2>1. ~ReclaimFails(m) /\ ~Thawed(m)
    BY <1>3 DEF ReclaimFails, Thawed
  <2> QED
    BY <1>3, <1>5, <2>1 DEF ReclaimMembers, ReclaimedState
<1>6. ASSUME NEW n \in Members, n # m, NEW s, NEW b,
             state' = [state EXCEPT ![n] = s], manual' = [manual EXCEPT ![n] = b] \/ manual' = manual
      PROVE  manual'[m] /\ state'[m] \in {"failed", "disabled"}
  BY <1>2, <1>3, <1>6
<1>7. ASSUME NEW n \in Members, NEW s, NEW t, WriteCredential(n, s, t)
      PROVE  manual'[m] /\ state'[m] \in {"failed", "disabled"}
  BY <1>4, <1>7 DEF WriteCredential
<1>8. CASE RequestNext
  <2>1. PICK r \in Requests :
           \/ \E d \in Callers : AcquireLeased(d, r) \/ AcquireNew(d, r) \/ AcquireCatalog(d, r)
           \/ Authorize(r) \/ RecoverUnauthorized(r) \/ Cool(r) \/ Quarantine(r)
           \/ \E success \in BOOLEAN : Finish(r, success)
           \/ LoseHandle(r)
    BY <1>8, RequestCases
  <2>2. CASE \E d \in Callers : AcquireLeased(d, r) \/ AcquireNew(d, r) \/ AcquireCatalog(d, r)
    BY <1>1, <1>5, <2>2, AcquireIsAdmission DEF Admission, Admit
  <2>3. CASE RecoverUnauthorized(r) \/ Cool(r) \/ Quarantine(r)
    <3>1. handle[r] # NoHandle /\ CurrentHold(r)
      BY <2>3 DEF RecoverUnauthorized, Cool, Quarantine
    <3>2. handle[r].member = hold[r].member /\ state[hold[r].member] \in {"ready", "cooling"}
      BY <3>1 DEF ReworkInv, HandleAgrees, CurrentHold
    <3>3. handle[r].member \in Members /\ handle[r].member # m
      BY <1>1, <1>3, <3>1, <3>2 DEF TypeOK, Handle
    <3>4. CASE RecoverUnauthorized(r)
      BY <1>6, <3>3, <3>4 DEF RecoverUnauthorized
    <3>5. CASE Cool(r)
      BY <1>6, <3>3, <3>5 DEF Cool
    <3>6. CASE Quarantine(r)
      BY <1>6, <3>3, <3>6 DEF Quarantine
    <3> QED
      BY <2>3, <3>4, <3>5, <3>6
  <2>4. CASE Authorize(r) \/ LoseHandle(r)
    BY <1>4, <2>4 DEF Authorize, LoseHandle, memberVars
  <2>5. CASE \E success \in BOOLEAN : Finish(r, success)
    <3>1. ReclaimMembers \/ UNCHANGED <<manual, state>>
      BY <2>5 DEF Finish, memberVars
    <3> QED
      BY <1>4, <1>5, <3>1
  <2> QED
    BY <2>1, <2>2, <2>3, <2>4, <2>5
<1>9. CASE AdminNext
  <2>1. CASE \E c \in Callers : Release(c)
    BY <1>4, <2>1 DEF Release, memberVars
  <2>2. ASSUME NEW n \in Members, Disable(n) PROVE manual'[m] /\ state'[m] \in {"failed", "disabled"}
    BY <1>2, <1>3, <2>2 DEF Disable
  <2>3. ASSUME NEW n \in Members, Retry(n) PROVE manual'[m] /\ state'[m] \in {"failed", "disabled"}
    <3>1. n # m
      BY <2>3 DEF Retry
    <3> QED
      BY <1>6, <2>3, <3>1 DEF Retry
  <2>4. CASE \E e \in Enterprises, s \in {"active", "draining"} : SetEnterprise(e, s)
    BY <1>4, <2>4 DEF SetEnterprise, memberVars
  <2> QED
    BY <1>9, <2>1, <2>2, <2>3, <2>4, BoundAssumption DEF AdminNext
<1>10. CASE LoginNext
  BY <1>7, <1>10, BoundAssumption DEF LoginNext, BeginLogin, SaveToken, FailLogin, ImportToken
<1>11. CASE WorkerNext
  <2>1. PICK n \in Members :
           \/ Pick(n) \/ Claim(n) \/ LoginConfirmed(n) \/ LoginStep(n) \/ LinkAccount(n)
           \/ PinCredentials(n) \/ ReadAccount(n) \/ ResetStage(n) \/ InvalidateRejected(n)
           \/ Warmed(n) \/ Promote(n) \/ LoseJob(n)
           \/ \E kind \in {"transient", "terminal", "manual"} : StepFail(n, kind)
    BY <1>11, WorkerCases
  <2>2. CASE Pick(n)
    BY <1>5, <2>2 DEF Pick
  <2>3. CASE Claim(n)
    <3>1. n # m
      BY <1>3, <2>3 DEF Claim
    <3> QED
      BY <1>4, <1>6, <2>3, <3>1 DEF Claim
  <2>4. CASE Promote(n)
    <3>1. n # m
      BY <1>3, <2>4 DEF Promote, JobCurrent
    <3> QED
      BY <1>6, <2>4, <3>1 DEF Promote
  <2>5. CASE \E kind \in {"transient", "terminal", "manual"} : StepFail(n, kind)
    <3>1. PICK kind \in {"transient", "terminal", "manual"} : StepFail(n, kind)
      BY <2>5
    <3>2. /\ job[n] # NoJob /\ state' = [state EXCEPT ![n] = "failed"]
          /\ manual' = [manual EXCEPT ![n] = (kind = "manual")]
      BY <3>1 DEF StepFail, JobCurrent
    <3>3. n # m
      BY <1>3, <3>2
    <3>4. state'[m] = state[m] /\ manual'[m] = manual[m]
      BY <1>2, <3>2, <3>3, Zenon
    <3> QED
      BY <1>3, <3>4
  <2>6. CASE LinkAccount(n)
    BY <1>7, <2>6 DEF LinkAccount
  <2>7. CASE LoginConfirmed(n) \/ LoginStep(n) \/ PinCredentials(n) \/ ReadAccount(n) \/ LoseJob(n)
    BY <1>4, <2>7 DEF LoginConfirmed, LoginStep, PinCredentials, ReadAccount, LoseJob, memberVars
  <2>8. CASE ResetStage(n) \/ InvalidateRejected(n) \/ Warmed(n)
    BY <1>4, <2>8 DEF ResetStage, InvalidateRejected, Warmed, memberVars
  <2> QED
    BY <2>1, <2>2, <2>3, <2>4, <2>5, <2>6, <2>7, <2>8
<1>12. CASE Tick \/ Reclaim \/ UNCHANGED vars
  BY <1>4, <1>5, <1>12 DEF Tick, Reclaim, vars, memberVars
<1> QED
  BY <1>8, <1>9, <1>10, <1>11, <1>12 DEF Next

(* A late success revives no lease that was cut, a draining enterprise gets no
   new lease and no new discovery, only the token that was rejected is erased,
   and a member that waits for an operator stays out of the pool. *)
THEOREM StepsAreLegal == Spec => PoolStepsAreLegal
<1> DEFINE Renewals ==
             \A c \in Callers :
               /\ lease[c] # NoLease /\ lease'[c] # NoLease
               /\ lease'[c].born = lease[c].born /\ lease'[c].assigned = lease[c].assigned
               /\ lease'[c].member = lease[c].member
               /\ lease'[c].expires > lease[c].expires
               => generation[lease[c].member] = lease[c].born /\ state[lease[c].member] = "ready"
           Draining ==
             \A m \in Members : enterprise[EnterpriseOf[m]] # "active" =>
               /\ \A c \in Callers : lease[c] = NoLease => lease'[c] = NoLease \/ lease'[c].member # m
               /\ \A r \in Requests : hold[r] = NoHold /\ hold'[r] # NoHold /\ hold'[r].member = m
                    => hold'[r].kind = "lease" /\ lease[hold'[r].caller] # NoLease
           Erasures ==
             \A m \in Members : token[m] # 0 /\ token'[m] = 0 =>
               \/ \E r \in Requests : handle[r] # NoHandle /\ handle[r].member = m /\ handle[r].token = token[m]
               \/ job[m] # NoJob /\ job[m].token = token[m]
           Manuals == \A m \in Members : manual[m] => manual'[m] /\ state'[m] \in {"failed", "disabled"}
<1>1. ReworkInv /\ ReworkInv' /\ [Next]_vars => [Renewals]_vars
  BY RenewalStep DEF ReworkInv, SharingInv
<1>2. ReworkInv /\ ReworkInv' /\ [Next]_vars => [Draining]_vars
  BY DrainingStep DEF EnterpriseActive
<1>3. ReworkInv /\ ReworkInv' /\ [Next]_vars => [Erasures]_vars
  BY ErasedTokenStep
<1>4. ReworkInv /\ ReworkInv' /\ [Next]_vars => [Manuals]_vars
  BY ManualStep
<1>5. Spec => [][Renewals]_vars
  BY <1>1, Rework, PTL DEF Spec
<1>6. Spec => [][Draining]_vars
  BY <1>2, Rework, PTL DEF Spec
<1>7. Spec => [][Erasures]_vars
  BY <1>3, Rework, PTL DEF Spec
<1>8. Spec => [][Manuals]_vars
  BY <1>4, Rework, PTL DEF Spec
<1> QED
  BY <1>5, <1>6, <1>7, <1>8 DEF PoolStepsAreLegal, RenewalNeedsItsGeneration,
     DrainingEnterpriseAdmitsNobody, ErasedTokenWasRejected, ManualErrorIsFinal

-----------------------------------------------------------------------------
(***************************************************************************)
(* The upgrade of the MySQL database (MysqlMigrations).  What a replica    *)
(* left applied is read off its position in the script, so the script is   *)
(* shown well formed first, joined piece by piece: a record comes after    *)
(* every change of its step, a rewrite right after the read of its row,    *)
(* and whoever is past the last statement passed each of them.             *)
(***************************************************************************)

(* The statements of a script. *)
ScriptOps == {"lock", "unlock", "validate base", "validate pool", "insert default", "insert draft", "change",
              "record", "read", "rewrite", "covers", "fence", "fingerprint", "settings", "open"}
ScriptIds == {"none", "pool"} \cup Ids(Steps)
ScriptWhats == {"none"} \cup MigratedEnterprises \cup Changes(Steps)
Stmts == [op: ScriptOps, id: ScriptIds, what: ScriptWhats]
LoneOp(o) == o \in ScriptOps /\ o # "change" /\ o # "record" /\ o # "rewrite" /\ o # "insert draft" /\ o # "read"

(* A change is of its step, the changes of a step come before its record, and
   what a replica rewrites is what it has just read. *)
ChangeAt(s, p, c) == s[p].op = "change" /\ s[p].what = c
RecordsFollow(s) ==
  \A k \in 1..Len(s), i \in 1..7 : s[k].op = "record" /\ s[k].id = Steps[i].id =>
     \A c \in ToSet(Steps[i].changes) : \E p \in 1..(k - 1) : ChangeAt(s, p, c)
ChangesOfSteps(s) ==
  \A k \in 1..Len(s) : s[k].op = "change" =>
     \E i \in 1..7 : s[k].id = Steps[i].id /\ s[k].what \in ToSet(Steps[i].changes)
RewritesFollow(s) ==
  \A k \in 1..Len(s) : s[k].op = "rewrite" =>
     /\ k - 1 \in 1..Len(s) /\ s[k - 1].op = "read" /\ s[k - 1].what = s[k].what /\ s[k].what \in MigratedEnterprises
NamesEnterprises(s) ==
  \A k \in 1..Len(s) : /\ s[k].op = "insert draft" => s[k].what = "other"
                       /\ s[k].op = "read" => s[k].what \in MigratedEnterprises
IsScript(s) == s \in Seq(Stmts) /\ RecordsFollow(s) /\ ChangesOfSteps(s) /\ RewritesFollow(s) /\ NamesEnterprises(s)
HasStatement(s, o, w) == \E k \in 1..Len(s) : s[k].op = o /\ s[k].what = w

LEMMA Joined ==
  ASSUME NEW S, NEW s \in Seq(S), NEW t \in Seq(S)
  PROVE  /\ s \o t \in Seq(S) /\ Len(s \o t) = Len(s) + Len(t) /\ Len(s) \in Nat /\ Len(t) \in Nat
         /\ \A i \in 1..Len(s) : (s \o t)[i] = s[i]
         /\ \A i \in 1..Len(t) : (s \o t)[Len(s) + i] = t[i]
         /\ \A k \in 1..Len(s \o t) : k \in 1..Len(s) \/ (k - Len(s) \in 1..Len(t) /\ (s \o t)[k] = t[k - Len(s)])
<1>1. /\ s \o t \in Seq(S) /\ Len(s \o t) = Len(s) + Len(t) /\ Len(s) \in Nat /\ Len(t) \in Nat
      /\ \A i \in 1..Len(s) : (s \o t)[i] = s[i]
      /\ \A i \in 1..Len(t) : (s \o t)[Len(s) + i] = t[i]
  OBVIOUS
<1>2. ASSUME NEW k \in 1..Len(s \o t), k \notin 1..Len(s)
      PROVE  k - Len(s) \in 1..Len(t) /\ (s \o t)[k] = t[k - Len(s)]
  <2>1. k - Len(s) \in 1..Len(t) /\ Len(s) + (k - Len(s)) = k
    BY <1>1, <1>2
  <2> QED
    BY <1>1, <2>1
<1> QED
  BY <1>1, <1>2

LEMMA HasJoined ==
  ASSUME NEW S, NEW s \in Seq(S), NEW t \in Seq(S), NEW o, NEW w
  PROVE  HasStatement(s, o, w) \/ HasStatement(t, o, w) => HasStatement(s \o t, o, w)
<1>1. ASSUME NEW k \in 1..Len(s), s[k].op = o, s[k].what = w PROVE HasStatement(s \o t, o, w)
  <2>1. k \in 1..Len(s \o t) /\ (s \o t)[k] = s[k]
    BY Joined
  <2> QED
    BY <1>1, <2>1 DEF HasStatement
<1>2. ASSUME NEW k \in 1..Len(t), t[k].op = o, t[k].what = w PROVE HasStatement(s \o t, o, w)
  <2>1. Len(s) + k \in 1..Len(s \o t) /\ (s \o t)[Len(s) + k] = t[k]
    BY Joined
  <2> QED
    BY <1>2, <2>1 DEF HasStatement
<1> QED
  BY <1>1, <1>2 DEF HasStatement

LEMMA ScriptJoined ==
  ASSUME NEW s, NEW t, IsScript(s), IsScript(t)
  PROVE  IsScript(s \o t)
<1> DEFINE u == s \o t
<1>1. /\ u \in Seq(Stmts) /\ Len(u) = Len(s) + Len(t) /\ Len(s) \in Nat /\ Len(t) \in Nat
      /\ \A i \in 1..Len(s) : u[i] = s[i]
      /\ \A i \in 1..Len(t) : u[Len(s) + i] = t[i]
      /\ \A k \in 1..Len(u) : k \in 1..Len(s) \/ (k - Len(s) \in 1..Len(t) /\ u[k] = t[k - Len(s)])
  <2>1. s \in Seq(Stmts) /\ t \in Seq(Stmts)
    BY DEF IsScript
  <2> QED
    BY <2>1, Joined
<1> HIDE DEF u
<1>2. RecordsFollow(u)
  <2> SUFFICES ASSUME NEW k \in 1..Len(u), NEW i \in 1..7, u[k].op = "record", u[k].id = Steps[i].id,
                      NEW c \in ToSet(Steps[i].changes)
               PROVE  \E p \in 1..(k - 1) : ChangeAt(u, p, c)
    BY DEF RecordsFollow
  <2>1. CASE k \in 1..Len(s)
    <3>1. PICK p \in 1..(k - 1) : ChangeAt(s, p, c)
      BY <1>1, <2>1 DEF IsScript, RecordsFollow
    <3>2. p \in 1..Len(s)
      BY <1>1, <2>1
    <3> QED
      BY <1>1, <3>1, <3>2 DEF ChangeAt
  <2>2. CASE k \notin 1..Len(s)
    <3>1. k - Len(s) \in 1..Len(t) /\ u[k] = t[k - Len(s)]
      BY <1>1, <2>2
    <3>2. PICK p \in 1..((k - Len(s)) - 1) : ChangeAt(t, p, c)
      BY <3>1 DEF IsScript, RecordsFollow
    <3>3. p \in 1..Len(t) /\ Len(s) + p \in 1..(k - 1)
      BY <1>1, <3>1
    <3>4. ChangeAt(u, Len(s) + p, c)
      BY <1>1, <3>2, <3>3 DEF ChangeAt
    <3> QED
      BY <3>3, <3>4
  <2> QED
    BY <2>1, <2>2
<1>3. ChangesOfSteps(u)
  <2> SUFFICES ASSUME NEW k \in 1..Len(u), u[k].op = "change"
               PROVE  \E i \in 1..7 : u[k].id = Steps[i].id /\ u[k].what \in ToSet(Steps[i].changes)
    BY DEF ChangesOfSteps
  <2>1. CASE k \in 1..Len(s)
    <3>1. u[k] = s[k]
      BY <1>1, <2>1
    <3> QED
      BY <2>1, <3>1 DEF IsScript, ChangesOfSteps
  <2>2. CASE k \notin 1..Len(s)
    <3>1. k - Len(s) \in 1..Len(t) /\ u[k] = t[k - Len(s)]
      BY <1>1, <2>2
    <3> QED
      BY <3>1 DEF IsScript, ChangesOfSteps
  <2> QED
    BY <2>1, <2>2
<1>4. RewritesFollow(u)
  <2> SUFFICES ASSUME NEW k \in 1..Len(u), u[k].op = "rewrite"
               PROVE  /\ k - 1 \in 1..Len(u) /\ u[k - 1].op = "read" /\ u[k - 1].what = u[k].what
                      /\ u[k].what \in MigratedEnterprises
    BY DEF RewritesFollow
  <2>1. CASE k \in 1..Len(s)
    <3>1. u[k] = s[k]
      BY <1>1, <2>1
    <3>2. /\ k - 1 \in 1..Len(s) /\ s[k - 1].op = "read" /\ s[k - 1].what = s[k].what
          /\ s[k].what \in MigratedEnterprises
      BY <2>1, <3>1 DEF IsScript, RewritesFollow
    <3>3. k - 1 \in 1..Len(u) /\ u[k - 1] = s[k - 1]
      BY <1>1, <3>2
    <3> QED
      BY <3>1, <3>2, <3>3
  <2>2. CASE k \notin 1..Len(s)
    <3> DEFINE j == k - Len(s)
    <3>1. j \in 1..Len(t) /\ u[k] = t[j]
      BY <1>1, <2>2
    <3>2. /\ j - 1 \in 1..Len(t) /\ t[j - 1].op = "read" /\ t[j - 1].what = t[j].what
          /\ t[j].what \in MigratedEnterprises
      <4> HIDE DEF j
      <4> QED
        BY <3>1 DEF IsScript, RewritesFollow
    <3>3. Len(s) + (j - 1) = k - 1 /\ k - 1 \in 1..Len(u)
      BY <1>1, <3>2
    <3>4. u[k - 1] = t[j - 1]
      <4> HIDE DEF j
      <4> QED
        BY <1>1, <3>2, <3>3
    <3> QED
      BY <3>1, <3>2, <3>3, <3>4
  <2> QED
    BY <2>1, <2>2
<1>5. NamesEnterprises(u)
  BY <1>1 DEF NamesEnterprises, IsScript
<1> QED
  BY <1>1, <1>2, <1>3, <1>4, <1>5 DEF IsScript, u

-----------------------------------------------------------------------------
LEMMA StepsText ==
  /\ Len(Steps) = 7 /\ DOMAIN Steps = 1..7
  /\ Steps[1] = EnterprisesStep /\ Steps[2] = DefaultStep /\ Steps[3] = AccountsStep /\ Steps[4] = AccountGuardsStep
  /\ Steps[5] = StatsStep /\ Steps[6] = PoolAccountsStep /\ Steps[7] = PoolEventsStep
<1> DEFINE S == {EnterprisesStep, DefaultStep, AccountsStep, AccountGuardsStep, StatsStep, PoolAccountsStep,
                 PoolEventsStep}
<1>1. BaseSteps \in Seq(S) /\ Len(BaseSteps) = 5
  BY DEF BaseSteps
<1>2. PoolSteps \in Seq(S) /\ Len(PoolSteps) = 2
  BY DEF PoolSteps
<1>3. Steps = BaseSteps \o PoolSteps
  BY DEF Steps
<1> HIDE DEF S
<1>4. /\ Steps \in Seq(S) /\ Len(Steps) = Len(BaseSteps) + Len(PoolSteps)
      /\ \A i \in 1..Len(BaseSteps) : Steps[i] = BaseSteps[i]
      /\ \A i \in 1..Len(PoolSteps) : Steps[Len(BaseSteps) + i] = PoolSteps[i]
  <2>1. BaseSteps \in Seq(S) /\ PoolSteps \in Seq(S)
    BY <1>1, <1>2
  <2> QED
    BY <1>3, <2>1, Joined
<1>5. Steps[6] = PoolSteps[1] /\ Steps[7] = PoolSteps[2] /\ Len(Steps) = 7 /\ DOMAIN Steps = 1..7
  BY <1>1, <1>2, <1>4
<1>6. /\ Steps[1] = BaseSteps[1] /\ Steps[2] = BaseSteps[2] /\ Steps[3] = BaseSteps[3] /\ Steps[4] = BaseSteps[4]
      /\ Steps[5] = BaseSteps[5]
  BY <1>1, <1>4
<1> QED
  BY <1>5, <1>6 DEF BaseSteps, PoolSteps

(* The steps have different names, none of which is a pool record's. *)
LEMMA StepsDiffer ==
  /\ \A i, j \in 1..7 : Steps[i].id = Steps[j].id => i = j
  /\ \A i \in 1..7 : Steps[i].id \notin {"none", "pool", "fingerprint"}
<1>1. \A i \in 1..7 : i = 1 \/ i = 2 \/ i = 3 \/ i = 4 \/ i = 5 \/ i = 6 \/ i = 7
  OBVIOUS
<1>2. EnterprisesStep.id = "createEnterprises" /\ DefaultStep.id = "seedDefault" /\ AccountGuardsStep.id = "accountGuards"
  BY DEF MigrationStep, EnterprisesStep, DefaultStep, AccountGuardsStep
<1>3. AccountsStep.id = "accounts" /\ PoolAccountsStep.id = "poolAccounts"
  BY DEF MigrationStep, AccountsStep, PoolAccountsStep
<1>4. StatsStep.id = "initializationsAndStats"
  BY DEF MigrationStep, StatsStep
<1>5. PoolEventsStep.id = "poolEvents"
  BY DEF MigrationStep, PoolEventsStep
<1> QED
  BY <1>1, <1>2, <1>3, <1>4, <1>5, StepsText

LEMMA StepChanges ==
  ASSUME NEW i \in 1..7
  PROVE  /\ Steps[i].changes \in Seq(Changes(Steps))
         /\ ToSet(Steps[i].changes) \subseteq Changes(Steps)
         /\ Steps[i].id \in Ids(Steps)
<1>1. DOMAIN Steps = 1..7
  BY StepsText
<1>2. ToSet(Steps[i].changes) \subseteq Changes(Steps) /\ Steps[i].id \in Ids(Steps)
  BY <1>1 DEF Changes, Ids
<1>3. \E S : Steps[i].changes \in Seq(S)
  <2>1. \A j \in 1..7 : j = 1 \/ j = 2 \/ j = 3 \/ j = 4 \/ j = 5 \/ j = 6 \/ j = 7
    OBVIOUS
  <2> DEFINE A == {"enterprises", "default row", "accounts column", "accounts unique", "accounts index",
                   "accounts foreign", "accounts required", "claims column", "claims index", "claims required",
                   "stats column", "stats index", "stats required", "members column", "members index",
                   "members foreign", "members required", "events column", "events backfill", "events index"}
  <2>2. /\ EnterprisesStep.changes \in Seq(A) /\ DefaultStep.changes \in Seq(A) /\ AccountGuardsStep.changes \in Seq(A)
    BY DEF MigrationStep, EnterprisesStep, DefaultStep, AccountGuardsStep
  <2>3. AccountsStep.changes \in Seq(A) /\ PoolAccountsStep.changes \in Seq(A)
    BY DEF MigrationStep, AccountsStep, PoolAccountsStep
  <2>4. StatsStep.changes \in Seq(A)
    BY DEF MigrationStep, StatsStep
  <2>5. PoolEventsStep.changes \in Seq(A)
    BY DEF MigrationStep, PoolEventsStep
  <2> HIDE DEF A
  <2> QED
    BY <2>1, <2>2, <2>3, <2>4, <2>5, StepsText
<1>4. PICK S : Steps[i].changes \in Seq(S)
  BY <1>3
<1>5. \A k \in 1..Len(Steps[i].changes) : Steps[i].changes[k] \in ToSet(Steps[i].changes)
  BY <1>4 DEF ToSet
<1> QED
  BY <1>2, <1>4, <1>5

LEMMA StatementFields ==
  ASSUME NEW o, NEW i, NEW w
  PROVE  /\ Statement(o, i, w).op = o /\ Statement(o, i, w).id = i /\ Statement(o, i, w).what = w
         /\ o \in ScriptOps /\ i \in ScriptIds /\ w \in ScriptWhats => Statement(o, i, w) \in Stmts
BY DEF Statement, Stmts

LEMMA StepIds == \A i \in 1..7 : Steps[i].id \in ScriptIds
BY StepChanges DEF ScriptIds

LEMMA ScriptWords ==
  /\ "change" \in ScriptOps /\ "record" \in ScriptOps /\ "read" \in ScriptOps /\ "rewrite" \in ScriptOps
  /\ "insert draft" \in ScriptOps
  /\ "none" \in ScriptIds /\ "pool" \in ScriptIds /\ "none" \in ScriptWhats
  /\ Changes(Steps) \subseteq ScriptWhats /\ MigratedEnterprises \subseteq ScriptWhats
BY DEF ScriptOps, ScriptIds, ScriptWhats

LEMMA OneStatement ==
  ASSUME NEW x \in Stmts
  PROVE  <<x>> \in Seq(Stmts) /\ Len(<<x>>) = 1 /\ <<x>>[1] = x
OBVIOUS

LEMMA PartsStay ==
  ASSUME NEW S, NEW T, S \subseteq T, NEW s \in Seq(S), NEW k \in 1..Len(s)
  PROVE  s[k] \in T
OBVIOUS

LEMMA StepIsScript ==
  ASSUME NEW i \in 1..7
  PROVE  IsScript(StepStatements(Steps[i]))
<1> DEFINE cs == Steps[i].changes
           n == Len(cs)
           e == Each(Steps[i])
           rec == <<Statement("record", Steps[i].id, "none")>>
           s == e \o rec
<1>1. cs \in Seq(Changes(Steps)) /\ ToSet(cs) \subseteq Changes(Steps) /\ Steps[i].id \in Ids(Steps) /\ n \in Nat
  BY StepChanges
<1>2. e = [k \in 1..n |-> Statement("change", Steps[i].id, cs[k])]
  BY <1>1 DEF Each
<1>3. e \in Seq(Stmts) /\ Len(e) = n /\ \A k \in 1..n : e[k] = Statement("change", Steps[i].id, cs[k])
  <2>1. \A k \in 1..n : Statement("change", Steps[i].id, cs[k]) \in Stmts
    <3>1. \A k \in 1..n : cs[k] \in ScriptWhats
      <4>1. Changes(Steps) \subseteq ScriptWhats
        BY ScriptWords
      <4> QED
        BY <1>1, <4>1, PartsStay
    <3>2. "change" \in ScriptOps
      BY ScriptWords
    <3>3. Steps[i].id \in ScriptIds
      BY StepIds
    <3> QED
      BY <3>1, <3>2, <3>3, StatementFields
  <2> HIDE DEF e, cs, n
  <2> QED
    BY <1>1, <1>2, <2>1
<1>4. rec \in Seq(Stmts) /\ Len(rec) = 1 /\ rec[1] = Statement("record", Steps[i].id, "none")
  <2>1. Statement("record", Steps[i].id, "none") \in Stmts
    <3>2. "record" \in ScriptOps /\ "none" \in ScriptWhats
      BY ScriptWords
    <3>3. Steps[i].id \in ScriptIds
      BY StepIds
    <3> QED
      BY <3>2, <3>3, StatementFields
  <2> QED
    BY <2>1
<1> HIDE DEF e, rec
<1>5. /\ s \in Seq(Stmts) /\ Len(s) = n + 1
      /\ \A k \in 1..n : s[k] = Statement("change", Steps[i].id, cs[k])
      /\ s[n + 1] = Statement("record", Steps[i].id, "none")
  <2> HIDE DEF cs, n
  <2>1. e \in Seq(Stmts) /\ rec \in Seq(Stmts)
    BY <1>3, <1>4
  <2>2. /\ s \in Seq(Stmts) /\ Len(s) = Len(e) + Len(rec)
        /\ \A k \in 1..Len(e) : s[k] = e[k]
        /\ \A k \in 1..Len(rec) : s[Len(e) + k] = rec[k]
    BY <2>1, Joined
  <2>3. 1 \in 1..Len(rec)
    BY <1>4
  <2> QED
    BY <1>3, <1>4, <2>2, <2>3
<1> HIDE DEF s
<1>6. \A k \in 1..Len(s) : (k \in 1..n /\ s[k] = Statement("change", Steps[i].id, cs[k])) \/ (k = n + 1 /\ s[k] = Statement("record", Steps[i].id, "none"))
  <2> HIDE DEF cs, n
  <2> QED
    BY <1>1, <1>5
<1>0. \A k \in 1..Len(s) :
        \/ k \in 1..n /\ s[k].op = "change" /\ s[k].id = Steps[i].id /\ s[k].what = cs[k]
        \/ k = n + 1 /\ s[k].op = "record" /\ s[k].id = Steps[i].id
  BY <1>6, StatementFields
<1>7. RecordsFollow(s)
  <2> SUFFICES ASSUME NEW k \in 1..Len(s), NEW j \in 1..7, s[k].op = "record", s[k].id = Steps[j].id,
                      NEW c \in ToSet(Steps[j].changes)
               PROVE  \E p \in 1..(k - 1) : ChangeAt(s, p, c)
    BY DEF RecordsFollow
  <2>1. k = n + 1
    BY <1>0
  <2>2. j = i
    BY <1>0, StepsDiffer
  <2>3. PICK p \in 1..n : c = cs[p]
    BY <1>1, <2>2 DEF ToSet
  <2> QED
    <3>1. p \in 1..(k - 1) /\ p \in 1..Len(s) /\ p # n + 1
      BY <1>1, <1>5, <2>1
    <3>2. s[p].op = "change" /\ s[p].what = cs[p]
      BY <1>0, <3>1
    <3> QED
      BY <2>3, <3>1, <3>2 DEF ChangeAt
<1>8. ChangesOfSteps(s)
  <2>1. \A k \in 1..n : cs[k] \in ToSet(cs)
    BY <1>1 DEF ToSet
  <2> QED
    <3> HIDE DEF cs
    <3> SUFFICES ASSUME NEW k \in 1..Len(s), s[k].op = "change"
                 PROVE  s[k].id = Steps[i].id /\ s[k].what \in ToSet(cs)
      BY DEF ChangesOfSteps, cs
    <3> QED
      BY <1>0, <2>1
<1>9. RewritesFollow(s) /\ NamesEnterprises(s)
  BY <1>0 DEF RewritesFollow, NamesEnterprises
<1>10. StepStatements(Steps[i]) = s
  BY DEF StepStatements, s, e, rec
<1> QED
  BY <1>5, <1>7, <1>8, <1>9, <1>10 DEF IsScript

LEMMA LoneIsScript ==
  ASSUME NEW o, LoneOp(o)
  PROVE  IsScript(Lone(o)) /\ Len(Lone(o)) = 1 /\ Lone(o)[1].op = o /\ HasStatement(Lone(o), o, "none")
<1>1. Statement(o, "none", "none") \in Stmts
  BY ScriptWords, StatementFields DEF LoneOp
<1>2. Lone(o) \in Seq(Stmts) /\ Len(Lone(o)) = 1 /\ Lone(o)[1] = Statement(o, "none", "none")
  BY <1>1 DEF Lone
<1>3. \A k \in 1..Len(Lone(o)) : Lone(o)[k].op = o /\ Lone(o)[k].what = "none"
  BY <1>2, StatementFields
<1>4. RecordsFollow(Lone(o)) /\ ChangesOfSteps(Lone(o)) /\ RewritesFollow(Lone(o)) /\ NamesEnterprises(Lone(o))
  BY <1>3 DEF RecordsFollow, ChangesOfSteps, RewritesFollow, NamesEnterprises, LoneOp
<1>5. HasStatement(Lone(o), o, "none")
  BY <1>2, <1>3 DEF HasStatement
<1> QED
  BY <1>2, <1>3, <1>4, <1>5 DEF IsScript

LEMMA VerifyIsScript ==
  ASSUME NEW e \in MigratedEnterprises
  PROVE  IsScript(Verify(e))
<1>1. Statement("read", "none", e) \in Stmts /\ Statement("rewrite", "none", e) \in Stmts
  BY ScriptWords, StatementFields
<1>2. /\ Verify(e) \in Seq(Stmts) /\ Len(Verify(e)) = 2
      /\ Verify(e)[1] = Statement("read", "none", e) /\ Verify(e)[2] = Statement("rewrite", "none", e)
  BY <1>1 DEF Verify
<1>3. /\ Verify(e)[1].op = "read" /\ Verify(e)[2].op = "rewrite"
      /\ Verify(e)[1].what = e /\ Verify(e)[2].what = e
  BY <1>2, StatementFields
<1>4. \A k \in 1..Len(Verify(e)) : k = 1 \/ k = 2
  BY <1>2
<1>5. RewritesFollow(Verify(e))
  <2>1. 2 - 1 = 1 /\ 1 \in 1..Len(Verify(e))
    BY <1>2
  <2> QED
    BY <1>3, <1>4, <2>1 DEF RewritesFollow
<1>6. RecordsFollow(Verify(e)) /\ ChangesOfSteps(Verify(e)) /\ NamesEnterprises(Verify(e))
  BY <1>3, <1>4 DEF RecordsFollow, ChangesOfSteps, NamesEnterprises
<1> QED
  BY <1>2, <1>5, <1>6 DEF IsScript

LEMMA OthersAreScripts ==
  /\ IsScript(<<Statement("insert draft", "none", "other")>>)
  /\ IsScript(<<Statement("record", "pool", "none")>>)
<1> DEFINE x == Statement("insert draft", "none", "other")
           y == Statement("record", "pool", "none")
           d == <<x>>
           p == <<y>>
<1>0. "other" \in MigratedEnterprises
  BY DEF MigratedEnterprises
<1>1. x \in Stmts /\ x.op = "insert draft" /\ x.what = "other"
  <2>1. x \in Stmts
    BY <1>0, ScriptWords, StatementFields
  <2>2. x.op = "insert draft" /\ x.what = "other"
    BY DEF Statement
  <2> QED
    BY <2>1, <2>2
<1>2. y \in Stmts /\ y.op = "record" /\ y.id = "pool"
  <2>1. y \in Stmts
    BY ScriptWords, StatementFields
  <2>2. y.op = "record" /\ y.id = "pool"
    BY DEF Statement
  <2> QED
    BY <2>1, <2>2
<1> HIDE DEF x, y
<1>5. d \in Seq(Stmts) /\ Len(d) = 1 /\ d[1] = x
  BY <1>1, OneStatement
<1>6. p \in Seq(Stmts) /\ Len(p) = 1 /\ p[1] = y
  BY <1>2, OneStatement
<1> HIDE DEF d, p
<1>3. IsScript(d)
  <2>1. \A k \in 1..Len(d) : d[k] = x
    BY <1>5
  <2>2. \A k \in 1..Len(d) : d[k].op = "insert draft" /\ d[k].what = "other"
    BY <1>1, <2>1
  <2>3. RecordsFollow(d) /\ ChangesOfSteps(d) /\ RewritesFollow(d) /\ NamesEnterprises(d)
    BY <2>2 DEF RecordsFollow, ChangesOfSteps, RewritesFollow, NamesEnterprises
  <2> QED
    BY <1>5, <2>3 DEF IsScript
<1>4. IsScript(p)
  <2>1. \A k \in 1..Len(p) : p[k].op = "record" /\ p[k].id = "pool"
    BY <1>2, <1>6
  <2>2. RecordsFollow(p)
    BY <2>1, StepsDiffer DEF RecordsFollow
  <2> QED
    BY <1>6, <2>1, <2>2 DEF IsScript, ChangesOfSteps, RewritesFollow, NamesEnterprises
<1> QED
  BY <1>3, <1>4 DEF d, p, x, y

(* A script, and what joining another to it keeps. *)
LEMMA JoinedHas ==
  ASSUME NEW s, NEW t, IsScript(s), IsScript(t), NEW o, NEW w
  PROVE  /\ IsScript(s \o t)
         /\ HasStatement(s, o, w) => HasStatement(s \o t, o, w)
         /\ HasStatement(t, o, w) => HasStatement(s \o t, o, w)
<1>1. s \in Seq(Stmts) /\ t \in Seq(Stmts)
  BY DEF IsScript
<1> QED
  BY <1>1, ScriptJoined, HasJoined

LEMMA StatementsAreScripts ==
  /\ IsScript(BaseStatements)
  /\ IsScript(PoolStatements) /\ HasStatement(PoolStatements, "change", "members required")
<1>1. /\ \A i \in 1..5 : BaseSteps[i] = Steps[i]
      /\ PoolSteps[1] = Steps[6] /\ PoolSteps[2] = Steps[7]
  <2>1. \A i \in 1..5 : i = 1 \/ i = 2 \/ i = 3 \/ i = 4 \/ i = 5
    OBVIOUS
  <2>2. /\ BaseSteps[1] = Steps[1] /\ BaseSteps[2] = Steps[2] /\ BaseSteps[3] = Steps[3]
        /\ BaseSteps[4] = Steps[4] /\ BaseSteps[5] = Steps[5]
    BY StepsText DEF BaseSteps
  <2>3. PoolSteps[1] = Steps[6] /\ PoolSteps[2] = Steps[7]
    BY StepsText DEF PoolSteps
  <2> QED
    BY <2>1, <2>2, <2>3
<1>2. /\ IsScript(StepStatements(BaseSteps[1])) /\ IsScript(StepStatements(BaseSteps[2]))
      /\ IsScript(StepStatements(BaseSteps[3])) /\ IsScript(StepStatements(BaseSteps[4]))
      /\ IsScript(StepStatements(BaseSteps[5]))
      /\ IsScript(StepStatements(PoolSteps[1])) /\ IsScript(StepStatements(PoolSteps[2]))
  BY <1>1, StepIsScript
<1>3. IsScript(BaseStatements)
  BY <1>2, ScriptJoined DEF BaseStatements
<1>5. PoolAccountsStep.id \in ScriptIds
  <2>1. Steps[6].id \in ScriptIds
    BY StepIds
  <2> QED
    BY <2>1, StepsText
<1>4. HasStatement(StepStatements(PoolSteps[1]), "change", "members required")
  <2> DEFINE cs == PoolAccountsStep.changes
  <2>1. PoolSteps[1] = PoolAccountsStep
    BY DEF PoolSteps
  <2>2. Len(cs) = 4 /\ cs[4] = "members required" /\ DOMAIN cs = 1..4
    BY DEF PoolAccountsStep, MigrationStep
  <2> HIDE DEF cs
  <2>3. Each(PoolAccountsStep) = [k \in 1..4 |-> Statement("change", PoolAccountsStep.id, cs[k])]
    BY <2>2 DEF Each, cs
  <2>4. \A k \in 1..4 : Statement("change", PoolAccountsStep.id, cs[k]) \in Stmts
    <3>1. cs = Steps[6].changes /\ PoolAccountsStep = Steps[6]
      BY StepsText DEF cs
    <3>2. cs \in Seq(Changes(Steps)) /\ Changes(Steps) \subseteq ScriptWhats
      <4>1. Steps[6].changes \in Seq(Changes(Steps))
        BY StepChanges
      <4>2. Changes(Steps) \subseteq ScriptWhats
        BY ScriptWords
      <4> QED
        BY <3>1, <4>1, <4>2
    <3>3. \A k \in 1..4 : cs[k] \in ScriptWhats
      BY <2>2, <3>2, PartsStay
    <3>4. "change" \in ScriptOps
      BY ScriptWords
    <3> QED
      BY <1>5, <3>3, <3>4, StatementFields
  <2>5. Each(PoolAccountsStep) \in Seq(Stmts) /\ Len(Each(PoolAccountsStep)) = 4
        /\ Each(PoolAccountsStep)[4] = Statement("change", PoolAccountsStep.id, cs[4])
    BY <2>3, <2>4
  <2>6. HasStatement(Each(PoolAccountsStep), "change", "members required")
    <3>1. 4 \in 1..Len(Each(PoolAccountsStep))
      BY <2>5
    <3> DEFINE x == Each(PoolAccountsStep)[4]
    <3>2. x.op = "change" /\ x.what = cs[4]
      BY <2>5, StatementFields
    <3> QED
      BY <2>2, <3>1, <3>2 DEF HasStatement
  <2>7. <<Statement("record", PoolAccountsStep.id, "none")>> \in Seq(Stmts)
    <3>1. Statement("record", PoolAccountsStep.id, "none") \in Stmts
      <4>1. "record" \in ScriptOps /\ "none" \in ScriptWhats
        BY ScriptWords
      <4> QED
        BY <1>5, <4>1, StatementFields
    <3> QED
      BY <3>1, OneStatement
  <2> QED
    BY <2>1, <2>5, <2>6, <2>7, HasJoined DEF StepStatements
<1> QED
  BY <1>2, <1>3, <1>4, JoinedHas DEF PoolStatements

(* The whole script: it is well formed, it ends with the opening of the store,
   which is its only statement of the last position, and it has inserted the
   default row and fenced off the old replicas by then. *)
LEMMA ScriptIsSound ==
  /\ IsScript(Script) /\ Len(Script) \in Nat \ {0} /\ DOMAIN Script = 1..Len(Script)
  /\ Script[Len(Script)].op = "open"
  /\ HasStatement(Script, "insert default", "none")
  /\ HasStatement(Script, "change", "members required")
<1>1. /\ LoneOp("lock") /\ LoneOp("unlock") /\ LoneOp("validate base") /\ LoneOp("validate pool")
      /\ LoneOp("insert default") /\ LoneOp("covers") /\ LoneOp("fence") /\ LoneOp("fingerprint")
      /\ LoneOp("settings") /\ LoneOp("open")
  BY DEF LoneOp, ScriptOps
<1>2. /\ IsScript(Lone("lock")) /\ IsScript(Lone("unlock")) /\ IsScript(Lone("validate base"))
      /\ IsScript(Lone("validate pool")) /\ IsScript(Lone("insert default")) /\ IsScript(Lone("covers"))
      /\ IsScript(Lone("fence")) /\ IsScript(Lone("fingerprint"))
      /\ IsScript(Lone("settings")) /\ IsScript(Lone("open"))
      /\ HasStatement(Lone("insert default"), "insert default", "none")
      /\ Len(Lone("open")) = 1 /\ Lone("open")[1].op = "open"
  BY <1>1, LoneIsScript
<1>3. IsScript(Verify("default")) /\ IsScript(Verify("other"))
  BY VerifyIsScript DEF MigratedEnterprises
<1>4. IsScript(runMysqlMigrations) /\ HasStatement(runMysqlMigrations, "insert default", "none")
  <2> DEFINE a == Lone("lock") \o Lone("validate base") \o Lone("insert default")
             b == a \o BaseStatements \o Verify("default")
  <2>1. IsScript(a) /\ HasStatement(a, "insert default", "none")
    BY <1>2, JoinedHas
  <2> HIDE DEF a
  <2>2. IsScript(b) /\ HasStatement(b, "insert default", "none")
    BY <1>3, <2>1, StatementsAreScripts, JoinedHas
  <2>3. runMysqlMigrations = b \o Lone("unlock")
    BY DEF runMysqlMigrations, a, b
  <2> HIDE DEF b
  <2> QED
    BY <1>2, <2>2, <2>3, JoinedHas
<1>5. IsScript(syncMysqlEnterprises)
  BY <1>2, <1>3, OthersAreScripts, ScriptJoined DEF syncMysqlEnterprises
<1>6. IsScript(runMysqlPoolMigrations) /\ HasStatement(runMysqlPoolMigrations, "change", "members required")
  <2> DEFINE a == Lone("lock") \o Lone("validate pool") \o Lone("fence")
             b == a \o PoolStatements
             c == b \o Lone("fingerprint") \o <<Statement("record", "pool", "none")>>
  <2>1. IsScript(a)
    BY <1>2, ScriptJoined
  <2> HIDE DEF a
  <2>2. IsScript(b) /\ HasStatement(b, "change", "members required")
    BY <2>1, StatementsAreScripts, JoinedHas
  <2> HIDE DEF b
  <2>3. IsScript(c) /\ HasStatement(c, "change", "members required")
    BY <1>2, <2>2, OthersAreScripts, JoinedHas
  <2>4. runMysqlPoolMigrations = c \o Lone("unlock")
    BY DEF runMysqlPoolMigrations, a, b, c
  <2> HIDE DEF c
  <2> QED
    BY <1>2, <2>3, <2>4, JoinedHas
<1> DEFINE f == runMysqlMigrations \o syncMysqlEnterprises \o runMysqlPoolMigrations
           g == f \o Lone("settings")
           h == Lone("settings") \o Lone("open")
<1>7. IsScript(f) /\ HasStatement(f, "insert default", "none") /\ HasStatement(f, "change", "members required")
  BY <1>4, <1>5, <1>6, JoinedHas
<1>8. Script = f \o h
  BY DEF Script, openPoolStore
<1>9. /\ IsScript(h) /\ Len(h) = 2 /\ h[2] = Lone("open")[1]
  <2>1. IsScript(h)
    BY <1>2, ScriptJoined
  <2>2. /\ Lone("settings") \in Seq(Stmts) /\ Lone("open") \in Seq(Stmts)
        /\ Len(Lone("settings")) = 1 /\ Len(Lone("open")) = 1
    BY <1>1, <1>2, LoneIsScript DEF IsScript
  <2> QED
    BY <2>1, <2>2, Joined
<1> HIDE DEF f, h
<1>10. /\ IsScript(Script) /\ HasStatement(Script, "insert default", "none")
       /\ HasStatement(Script, "change", "members required")
  BY <1>7, <1>8, <1>9, JoinedHas
<1>11. f \in Seq(Stmts) /\ h \in Seq(Stmts)
  BY <1>7, <1>9 DEF IsScript
<1>12. Len(Script) = Len(f) + 2 /\ Len(f) \in Nat /\ Script[Len(f) + 2] = h[2] /\ Script \in Seq(Stmts)
  BY <1>8, <1>9, <1>11, Joined
<1>13. Len(Script) \in Nat \ {0} /\ DOMAIN Script = 1..Len(Script)
  BY <1>12
<1>14. Script[Len(Script)].op = "open"
  BY <1>2, <1>9, <1>12
<1> QED
  BY <1>10, <1>13, <1>14

-----------------------------------------------------------------------------
Prints == {Pending} \cup {Identity[r] : r \in Replicas}
RowSet == [print: Prints, count: Nat]
MaybeRow == RowSet \cup {NoRow}
PoolRow == [algorithm: {"r4", "r5"}, config: {PoolConfig[r] : r \in Replicas}]

UpgradeTypes ==
  /\ started \in [Replicas -> 0..(Len(Script) + 1)]
  /\ seen \in [Replicas -> [ids: SUBSET recorded, row: MaybeRow]]
  /\ enterpriseRow \in [MigratedEnterprises -> MaybeRow]
  /\ members \in [MigratedEnterprises -> Nat]
  /\ poolSettings \in PoolRow \cup {NoRow}

(* What a replica has been through is there: every change, and the default row. *)
PassedChanges ==
  \A r \in Replicas, p \in 1..Len(Script) :
    p < started[r] /\ Script[p].op = "change" /\ Script[p].what \notin DataChanges => Script[p].what \in schema
PassedDefault ==
  \A r \in Replicas, p \in 1..Len(Script) :
    p < started[r] /\ Script[p].op = "insert default" => enterpriseRow["default"] # NoRow

(* A row that a replica is about to rewrite because it read it is still there. *)
SeenRowIsThere ==
  \A r \in Replicas : UpgradeAt(r, "rewrite") /\ seen[r].row # NoRow => enterpriseRow[What(r)] # NoRow

ServingAgree == \A r \in Replicas : Ready(r) => poolSettings # NoRow /\ poolSettings.config = PoolConfig[r]

OtherIsEmpty == enterpriseRow["other"] = NoRow => members["other"] = 0

UpgradeInv ==
  /\ UpgradeTypes /\ PassedChanges /\ PassedDefault /\ SeenRowIsThere /\ ServingAgree /\ OtherIsEmpty
  /\ RecordedMeansApplied /\ InventoryAgrees

LEMMA ReplicasAgreeThen == UpgradeInv => ReplicasAgree
BY DEF UpgradeInv, ServingAgree, ReplicasAgree

LEMMA EnterpriseNames == "default" \in MigratedEnterprises /\ "other" \in MigratedEnterprises /\ "default" # "other"
                     /\ \A e \in MigratedEnterprises : e = "default" \/ e = "other"
BY DEF MigratedEnterprises

LEMMA NoRowIsNone == NoRow \notin RowSet /\ NoRow \notin PoolRow
BY UpgradeAssumption DEF RowSet, PoolRow, Prints

LEMMA ScriptDomain == Len(Script) \in Nat \ {0} /\ DOMAIN Script = 1..Len(Script)
BY ScriptIsSound

LEMMA UpgradeStarts == UpgradeInit => UpgradeInv
<1> SUFFICES ASSUME UpgradeInit PROVE UpgradeInv
  OBVIOUS
<1>0. Len(Script) \in Nat \ {0}
  BY ScriptIsSound
<1>1. PICK prepared \in BOOLEAN :
        /\ schema = IF prepared THEN Changes(Steps) \ DataChanges ELSE {}
        /\ recorded = IF prepared THEN Ids(Steps) ELSE {}
        /\ enterpriseRow = [e \in MigratedEnterprises |->
                              IF prepared /\ e = "default" THEN [print |-> Pending, count |-> 0] ELSE NoRow]
  BY DEF UpgradeInit
<1>2. PICK n \in 0..1 : members = [e \in MigratedEnterprises |-> IF e = "default" THEN n ELSE 0]
  BY DEF UpgradeInit
<1>3. /\ started = [r \in Replicas |-> 0]
      /\ seen = [r \in Replicas |-> [ids |-> {}, row |-> NoRow]]
  BY DEF UpgradeInit
<1>4. [print |-> Pending, count |-> 0] \in RowSet
  BY DEF RowSet, Prints
<1>5. enterpriseRow \in [MigratedEnterprises -> MaybeRow]
  BY <1>1, <1>4 DEF MaybeRow
<1>6. poolSettings \in PoolRow \cup {NoRow}
  BY DEF UpgradeInit, PoolRow
<1>7. UpgradeTypes
  <2>1. members \in [MigratedEnterprises -> Nat]
    BY <1>2
  <2>2. started \in [Replicas -> 0..(Len(Script) + 1)]
    BY <1>0, <1>3
  <2>3. seen \in [Replicas -> [ids: SUBSET recorded, row: MaybeRow]]
    BY <1>3 DEF MaybeRow
  <2> QED
    BY <1>5, <1>6, <2>1, <2>2, <2>3 DEF UpgradeTypes
<1>8. \A r \in Replicas : started[r] = 0 /\ ~Ready(r) /\ ~UpgradeAt(r, "rewrite")
  <2>1. \A r \in Replicas : started[r] = 0
    BY <1>3
  <2>2. \A r \in Replicas : ~Ready(r) /\ ~Running(r)
    BY <2>1, ScriptDomain DEF Ready, Running
  <2> QED
    BY <2>1, <2>2 DEF UpgradeAt
<1>9. PassedChanges /\ PassedDefault
  <2>1. \A r \in Replicas, p \in 1..Len(Script) : ~(p < started[r])
    BY <1>0, <1>8
  <2> QED
    BY <2>1 DEF PassedChanges, PassedDefault
<1>10. SeenRowIsThere /\ ServingAgree /\ InventoryAgrees
  BY <1>8 DEF SeenRowIsThere, ServingAgree, InventoryAgrees
<1>11. OtherIsEmpty
  BY <1>2, EnterpriseNames DEF OtherIsEmpty
<1>12. RecordedMeansApplied
  <2>1. CASE prepared
    <3> SUFFICES ASSUME NEW i \in DOMAIN Steps PROVE ToSet(Steps[i].changes) \ DataChanges \subseteq schema
      BY DEF RecordedMeansApplied
    <3>1. ToSet(Steps[i].changes) \subseteq Changes(Steps)
      BY StepsText, StepChanges
    <3> QED
      BY <1>1, <2>1, <3>1
  <2>2. CASE ~prepared
    BY <1>1, <2>2 DEF RecordedMeansApplied
  <2> QED
    BY <2>1, <2>2
<1> QED
  BY <1>7, <1>9, <1>10, <1>11, <1>12 DEF UpgradeInv

(* Where a replica is, and where it goes: on by one statement, or down. *)
LEMMA GoesOn ==
  ASSUME UpgradeTypes, NEW r \in Replicas, Running(r), GoOn(r)
  PROVE  /\ started' \in [Replicas -> 0..(Len(Script) + 1)]
         /\ started[r] \in 1..Len(Script) /\ started'[r] = started[r] + 1
         /\ \A s \in Replicas \ {r} : started'[s] = started[s]
BY ScriptDomain DEF UpgradeTypes, GoOn, Running

LEMMA FallsBack ==
  ASSUME UpgradeInv, NEW r \in Replicas, Fail(r), UNCHANGED <<schema, recorded, enterpriseRow, members, poolSettings>>
  PROVE  UpgradeInv'
<1>0. Len(Script) \in Nat \ {0}
  BY ScriptIsSound
<1>1. /\ started' = [started EXCEPT ![r] = 0]
      /\ seen' = [seen EXCEPT ![r] = [ids |-> {}, row |-> NoRow]]
  BY DEF Fail
<1>2. /\ started' \in [Replicas -> 0..(Len(Script) + 1)] /\ started'[r] = 0
      /\ \A s \in Replicas \ {r} : started'[s] = started[s]
  BY <1>0, <1>1 DEF UpgradeInv, UpgradeTypes
<1>3. /\ seen' \in [Replicas -> [ids: SUBSET recorded, row: MaybeRow]]
      /\ \A s \in Replicas \ {r} : seen'[s] = seen[s]
  BY <1>1 DEF UpgradeInv, UpgradeTypes, MaybeRow
<1>4. UpgradeTypes'
  BY <1>2, <1>3 DEF UpgradeInv, UpgradeTypes
<1>5. PassedChanges' /\ PassedDefault'
  <2>1. \A s \in Replicas, p \in 1..Len(Script) : p < started'[s] => p < started[s]
    <3>1. \A p \in 1..Len(Script) : ~(p < 0)
      BY <1>0
    <3> QED
      BY <1>2, <3>1
  <2> QED
    BY <2>1 DEF UpgradeInv, PassedChanges, PassedDefault
<1>6. \A s \in Replicas : Ready(s)' => s # r /\ Ready(s)
  BY <1>0, <1>2 DEF Ready
<1>7. SeenRowIsThere'
  <2> SUFFICES ASSUME NEW s \in Replicas, UpgradeAt(s, "rewrite")', seen'[s].row # NoRow
               PROVE  enterpriseRow'[What(s)'] # NoRow
    BY DEF SeenRowIsThere
  <2>1. s # r
    BY <1>2, ScriptDomain DEF UpgradeAt, Running
  <2> QED
    BY <1>2, <1>3, <2>1 DEF UpgradeInv, SeenRowIsThere, UpgradeAt, Running, What
<1>8. ServingAgree' /\ InventoryAgrees'
  BY <1>6 DEF UpgradeInv, ServingAgree, InventoryAgrees
<1> QED
  BY <1>4, <1>5, <1>7, <1>8 DEF UpgradeInv, OtherIsEmpty, RecordedMeansApplied

(* A statement that is run: what it may change, for the invariant to hold on. *)
GrowsOnly ==
  /\ schema \subseteq schema' /\ recorded \subseteq recorded' /\ members' = members
  /\ enterpriseRow' \in [MigratedEnterprises -> MaybeRow]
  /\ \A e \in MigratedEnterprises : enterpriseRow[e] # NoRow => enterpriseRow'[e] # NoRow
  /\ poolSettings' \in PoolRow \cup {NoRow}
  /\ poolSettings # NoRow => poolSettings' # NoRow /\ poolSettings'.config = poolSettings.config

SeesMore(r) ==
  /\ seen' \in [Replicas -> [ids: SUBSET recorded', row: MaybeRow]]
  /\ \A s \in Replicas \ {r} : seen'[s] = seen[s]

Op(r) == Script[started[r]].op

StatementDone(r) ==
  /\ Op(r) = "change" /\ What(r) \notin DataChanges => What(r) \in schema'
  /\ Op(r) = "insert default" => enterpriseRow'["default"] # NoRow
  /\ Op(r) = "read" /\ seen'[r].row # NoRow => enterpriseRow'[What(r)] # NoRow
  /\ Op(r) = "open" => poolSettings' # NoRow /\ poolSettings'.config = PoolConfig[r]

RecordsStep(r) ==
  \A i \in 1..7 : Steps[i].id \in recorded' \ recorded => Op(r) = "record" /\ Steps[i].id = Script[started[r]].id

(* A count is that of the rows, or what it was, unless the default row is new. *)
CountsMembers(r) ==
  \A e \in MigratedEnterprises : enterpriseRow'[e] # NoRow =>
    \/ enterpriseRow'[e].count = members[e]
    \/ Op(r) # "open" /\ enterpriseRow[e] # NoRow /\ enterpriseRow'[e].count = enterpriseRow[e].count
    \/ Op(r) # "open" /\ e = "default" /\ enterpriseRow[e] = NoRow

LEMMA ReadyPassed ==
  ASSUME UpgradeInv, NEW r \in Replicas, Ready(r)
  PROVE  enterpriseRow["default"] # NoRow /\ "members required" \in schema
<1>1. \A p \in 1..Len(Script) : p < started[r]
  BY ScriptDomain DEF Ready
<1>2. PICK p \in 1..Len(Script) : Script[p].op = "insert default"
  BY ScriptIsSound DEF HasStatement
<1>3. PICK q \in 1..Len(Script) : Script[q].op = "change" /\ Script[q].what = "members required"
  BY ScriptIsSound DEF HasStatement
<1>4. "members required" \notin DataChanges
  BY DEF DataChanges
<1> QED
  BY <1>1, <1>2, <1>3, <1>4 DEF UpgradeInv, PassedDefault, PassedChanges

LEMMA StepsOn ==
  ASSUME UpgradeInv, NEW r \in Replicas, Running(r), GoOn(r), GrowsOnly, SeesMore(r), StatementDone(r),
         RecordsStep(r), CountsMembers(r)
  PROVE  UpgradeInv'
<1> DEFINE k == started[r]
<1>0. /\ UpgradeTypes /\ PassedChanges /\ PassedDefault /\ SeenRowIsThere /\ ServingAgree /\ OtherIsEmpty
      /\ RecordedMeansApplied /\ InventoryAgrees
  BY DEF UpgradeInv
<1>1. /\ started' \in [Replicas -> 0..(Len(Script) + 1)]
      /\ k \in 1..Len(Script) /\ started'[r] = k + 1
      /\ \A s \in Replicas \ {r} : started'[s] = started[s]
  BY <1>0, GoesOn
<1>2. Len(Script) \in Nat
  BY ScriptDomain
<1>3. UpgradeTypes'
  BY <1>0, <1>1 DEF UpgradeTypes, GrowsOnly, SeesMore
<1>4. \A s \in Replicas, p \in 1..Len(Script) : p < started'[s] => p < started[s] \/ (s = r /\ p = k)
  <2>1. \A p \in 1..Len(Script) : p < k + 1 => p < k \/ p = k
    BY <1>1, <1>2
  <2> QED
    BY <1>1, <2>1
<1>5. PassedChanges'
  <2> SUFFICES ASSUME NEW s \in Replicas, NEW p \in 1..Len(Script), p < started'[s],
                      Script[p].op = "change", Script[p].what \notin DataChanges
               PROVE  Script[p].what \in schema'
    BY DEF PassedChanges
  <2>1. CASE p < started[s]
    BY <1>0, <2>1 DEF PassedChanges, GrowsOnly
  <2>2. CASE s = r /\ p = k
    BY <2>2 DEF StatementDone, Op, What
  <2> QED
    BY <1>4, <2>1, <2>2
<1>6. PassedDefault'
  <2> SUFFICES ASSUME NEW s \in Replicas, NEW p \in 1..Len(Script), p < started'[s], Script[p].op = "insert default"
               PROVE  enterpriseRow'["default"] # NoRow
    BY DEF PassedDefault
  <2>1. CASE p < started[s]
    BY <1>0, <2>1, EnterpriseNames DEF PassedDefault, GrowsOnly
  <2>2. CASE s = r /\ p = k
    BY <2>2 DEF StatementDone, Op
  <2> QED
    BY <1>4, <2>1, <2>2
<1>7. SeenRowIsThere'
  <2> SUFFICES ASSUME NEW s \in Replicas, UpgradeAt(s, "rewrite")', seen'[s].row # NoRow
               PROVE  enterpriseRow'[What(s)'] # NoRow
    BY DEF SeenRowIsThere
  <2> DEFINE j == started'[s]
  <2>1. j \in 1..Len(Script) /\ Script[j].op = "rewrite" /\ What(s)' = Script[j].what
    BY ScriptDomain DEF UpgradeAt, Running, What
  <2>2. /\ j - 1 \in 1..Len(Script) /\ Script[j - 1].op = "read" /\ Script[j - 1].what = Script[j].what
        /\ Script[j].what \in MigratedEnterprises
    <3> HIDE DEF j
    <3>1. RewritesFollow(Script)
      BY ScriptIsSound DEF IsScript
    <3> QED
      BY <2>1, <3>1 DEF RewritesFollow
  <2>3. CASE s = r
    <3>1. j - 1 = k
      BY <1>1, <1>2, <2>3
    <3>2. Op(r) = "read" /\ What(r) = Script[j].what
      BY <2>2, <3>1 DEF Op, What
    <3> QED
      BY <2>1, <2>3, <3>2 DEF StatementDone
  <2>4. CASE s # r
    <3>1. j = started[s] /\ seen'[s] = seen[s]
      BY <1>1, <2>4 DEF SeesMore
    <3>2. UpgradeAt(s, "rewrite") /\ What(s) = Script[j].what
      BY <2>1, <3>1, ScriptDomain DEF UpgradeAt, Running, What
    <3>3. enterpriseRow[What(s)] # NoRow
      BY <1>0, <3>1, <3>2 DEF SeenRowIsThere
    <3> QED
      BY <2>1, <2>2, <3>2, <3>3 DEF GrowsOnly
  <2> QED
    BY <2>3, <2>4
<1>8. \A s \in Replicas : Ready(s)' => (s # r /\ Ready(s)) \/ (s = r /\ Op(r) = "open")
  <2> SUFFICES ASSUME NEW s \in Replicas, Ready(s)' PROVE (s # r /\ Ready(s)) \/ (s = r /\ Op(r) = "open")
    OBVIOUS
  <2>1. CASE s = r
    <3>1. k = Len(Script)
      BY <1>1, <1>2, <2>1 DEF Ready
    <3> QED
      BY <2>1, <3>1, ScriptIsSound DEF Op
  <2>2. CASE s # r
    BY <1>1, <2>2 DEF Ready
  <2> QED
    BY <2>1, <2>2
<1>9. ServingAgree'
  BY <1>0, <1>8 DEF ServingAgree, StatementDone, GrowsOnly
<1>10. OtherIsEmpty'
  BY <1>0, EnterpriseNames DEF OtherIsEmpty, GrowsOnly
<1>11. RecordedMeansApplied'
  <2> SUFFICES ASSUME NEW i \in 1..7, Steps[i].id \in recorded' PROVE ToSet(Steps[i].changes) \ DataChanges \subseteq schema'
    BY StepsText DEF RecordedMeansApplied
  <2>1. CASE Steps[i].id \in recorded
    BY <1>0, <2>1, StepsText DEF RecordedMeansApplied, GrowsOnly
  <2>2. CASE Steps[i].id \notin recorded
    <3> SUFFICES ASSUME NEW c \in ToSet(Steps[i].changes), c \notin DataChanges PROVE c \in schema'
      OBVIOUS
    <3>1. Script[k].op = "record" /\ Script[k].id = Steps[i].id
      BY <2>2 DEF RecordsStep, Op
    <3>2. RecordsFollow(Script)
      BY ScriptIsSound DEF IsScript
    <3>3. PICK p \in 1..(k - 1) : ChangeAt(Script, p, c)
      <4> HIDE DEF k
      <4> QED
        BY <1>1, <3>1, <3>2 DEF RecordsFollow
    <3>4. p \in 1..Len(Script) /\ p < started[r]
      BY <1>1, <1>2
    <3> QED
      BY <1>0, <3>3, <3>4 DEF ChangeAt, PassedChanges, GrowsOnly
  <2> QED
    BY <2>1, <2>2
<1>12. InventoryAgrees'
  <2> SUFFICES ASSUME NEW s \in Replicas, Ready(s)', NEW e \in MigratedEnterprises, enterpriseRow'[e] # NoRow
               PROVE  enterpriseRow'[e].count = members[e]
    BY DEF InventoryAgrees, GrowsOnly
  <2>1. CASE Op(r) = "open"
    BY <2>1 DEF CountsMembers
  <2>2. CASE Op(r) # "open"
    <3>1. Ready(s)
      BY <1>8, <2>2
    <3>2. enterpriseRow["default"] # NoRow
      BY <3>1, ReadyPassed
    <3>3. enterpriseRow[e] # NoRow => enterpriseRow[e].count = members[e]
      BY <1>0, <3>1 DEF InventoryAgrees
    <3> QED
      BY <3>2, <3>3 DEF CountsMembers
  <2> QED
    BY <2>1, <2>2
<1> QED
  BY <1>3, <1>5, <1>6, <1>7, <1>9, <1>10, <1>11, <1>12 DEF UpgradeInv

(* The statement at which a replica is has no other name. *)
LEMMA AtOp ==
  ASSUME NEW r \in Replicas, NEW o, UpgradeAt(r, o)
  PROVE  Running(r) /\ Op(r) = o
BY DEF UpgradeAt, Op

LEMMA RowsAreKept ==
  ASSUME UpgradeInv, NEW r \in Replicas, UNCHANGED enterpriseRow, Op(r) # "open"
  PROVE  CountsMembers(r)
BY DEF CountsMembers

LEMMA GrowsOnlyWhenSame ==
  ASSUME UpgradeInv, UNCHANGED <<schema, recorded, enterpriseRow, members, poolSettings>>
  PROVE  GrowsOnly
BY DEF GrowsOnly, UpgradeInv, UpgradeTypes

LEMMA SeesSame ==
  ASSUME UpgradeInv, NEW r \in Replicas, recorded \subseteq recorded', UNCHANGED seen
  PROVE  SeesMore(r)
BY DEF SeesMore, UpgradeInv, UpgradeTypes

(* Nothing of the database changes but who holds the lock. *)
LEMMA LocksOnly ==
  ASSUME UpgradeInv, NEW r \in Replicas, Running(r), GoOn(r),
         Op(r) \notin {"change", "insert default", "read", "open"},
         UNCHANGED <<schema, recorded, enterpriseRow, members, poolSettings>>, SeesMore(r)
  PROVE  UpgradeInv'
<1>1. GrowsOnly /\ CountsMembers(r)
  BY RowsAreKept, GrowsOnlyWhenSame
<1>2. StatementDone(r) /\ RecordsStep(r)
  BY DEF StatementDone, RecordsStep
<1> QED
  BY <1>1, <1>2, StepsOn

LEMMA KeepsLock ==
  ASSUME UpgradeInv, NEW r \in Replicas, Lock(r) \/ UnlockUpgrade(r) \/ Crash(r) \/ Start(r)
  PROVE  UpgradeInv'
<1>1. CASE Lock(r)
  <2>1. UpgradeAt(r, "lock") /\ UNCHANGED <<schema, recorded, enterpriseRow, members, poolSettings>>
    BY <1>1 DEF Lock
  <2>2. CASE Fail(r)
    BY <2>1, <2>2, FallsBack
  <2>3. CASE GoOn(r) /\ UNCHANGED seen
    <3>1. Running(r) /\ Op(r) = "lock"
      BY <2>1, AtOp
    <3>2. Op(r) \notin {"change", "insert default", "read", "open"}
      BY <3>1
    <3>3. SeesMore(r)
      BY <2>1, <2>3, SeesSame
    <3> QED
      BY <2>1, <2>3, <3>1, <3>2, <3>3, LocksOnly
  <2> QED
    BY <1>1, <2>2, <2>3 DEF Lock
<1>2. CASE UnlockUpgrade(r)
  <2>1. UpgradeAt(r, "unlock") /\ UNCHANGED <<schema, recorded, enterpriseRow, members, poolSettings, seen>> /\ GoOn(r)
    BY <1>2 DEF UnlockUpgrade
  <2>2. Running(r) /\ Op(r) = "unlock"
    BY <2>1, AtOp
  <2>3. Op(r) \notin {"change", "insert default", "read", "open"}
    BY <2>2
  <2>4. SeesMore(r)
    BY <2>1, SeesSame
  <2> QED
    BY <2>1, <2>2, <2>3, <2>4, LocksOnly
<1>3. CASE Crash(r)
  BY <1>3, FallsBack DEF Crash
<1>4. CASE Start(r)
  <2>1. /\ started[r] = 0 /\ started' = [started EXCEPT ![r] = 1]
        /\ UNCHANGED <<schema, recorded, enterpriseRow, members, poolSettings, seen>>
    BY <1>4 DEF Start
  <2>2. /\ started' \in [Replicas -> 0..(Len(Script) + 1)] /\ started'[r] = 1
        /\ \A s \in Replicas \ {r} : started'[s] = started[s]
    BY <2>1, ScriptDomain DEF UpgradeInv, UpgradeTypes
  <2>3. \A s \in Replicas, p \in 1..Len(Script) : p < started'[s] => p < started[s]
    <3>1. \A p \in 1..Len(Script) : ~(p < 1)
      BY ScriptDomain
    <3> QED
      BY <2>2, <3>1
  <2>4. PassedChanges' /\ PassedDefault'
    BY <2>1, <2>3 DEF UpgradeInv, PassedChanges, PassedDefault
  <2>5. \A s \in Replicas : Ready(s)' => Ready(s)
    BY <2>2, ScriptDomain DEF Ready
  <2>6. SeenRowIsThere'
    <3> SUFFICES ASSUME NEW s \in Replicas, UpgradeAt(s, "rewrite")', seen[s].row # NoRow
                 PROVE  enterpriseRow[What(s)'] # NoRow
      BY <2>1 DEF SeenRowIsThere
    <3>1. s # r
      <4>1. RewritesFollow(Script)
        BY ScriptIsSound DEF IsScript
      <4>2. 1 \in 1..Len(Script) /\ 1 - 1 \notin 1..Len(Script)
        BY ScriptDomain
      <4>3. Script[1].op # "rewrite"
        BY <4>1, <4>2 DEF RewritesFollow
      <4> QED
        BY <2>2, <4>3 DEF UpgradeAt
    <3>2. UpgradeAt(s, "rewrite") /\ What(s)' = What(s)
      BY <2>2, <3>1 DEF UpgradeAt, Running, What
    <3> QED
      BY <3>2 DEF UpgradeInv, SeenRowIsThere
  <2>7. ServingAgree' /\ InventoryAgrees'
    BY <2>1, <2>5 DEF UpgradeInv, ServingAgree, InventoryAgrees
  <2> QED
    BY <2>1, <2>2, <2>4, <2>6, <2>7 DEF UpgradeInv, UpgradeTypes, OtherIsEmpty, RecordedMeansApplied
<1> QED
  BY <1>1, <1>2, <1>3, <1>4

LEMMA KeepsValidates ==
  ASSUME UpgradeInv, NEW r \in Replicas, NEW o, o \in {"validate base", "validate pool"}, NEW steps, Validates(r, o, steps)
  PROVE  UpgradeInv'
<1>1. UpgradeAt(r, o) /\ UNCHANGED <<schema, recorded, enterpriseRow, members, poolSettings>>
  BY DEF Validates
<1>2. CASE Fail(r)
  BY <1>1, <1>2, FallsBack
<1>3. CASE GoOn(r) /\ seen' = [seen EXCEPT ![r].ids = recorded]
  <2>1. Running(r) /\ Op(r) = o
    BY <1>1, AtOp
  <2>2. Op(r) \notin {"change", "insert default", "read", "open"}
    BY <2>1
  <2>3. SeesMore(r)
    BY <1>1, <1>3 DEF SeesMore, UpgradeInv, UpgradeTypes
  <2> QED
    BY <1>1, <1>3, <2>1, <2>2, <2>3, LocksOnly
<1> QED
  BY <1>2, <1>3 DEF Validates

LEMMA NewRow ==
  ASSUME UpgradeInv, NEW e \in MigratedEnterprises, NEW row \in RowSet,
         enterpriseRow' = [enterpriseRow EXCEPT ![e] = row]
  PROVE  /\ enterpriseRow' \in [MigratedEnterprises -> MaybeRow]
         /\ enterpriseRow'[e] = row /\ row # NoRow
         /\ \A f \in MigratedEnterprises \ {e} : enterpriseRow'[f] = enterpriseRow[f]
BY NoRowIsNone DEF UpgradeInv, UpgradeTypes, MaybeRow

LEMMA KeepsChange ==
  ASSUME UpgradeInv, NEW r \in Replicas, ApplyChange(r)
  PROVE  UpgradeInv'
<1>1. /\ UpgradeAt(r, "change") /\ GoOn(r) /\ UNCHANGED <<recorded, members, poolSettings, seen>>
  BY DEF ApplyChange
<1>2. Running(r) /\ Op(r) = "change"
  BY <1>1, AtOp
<1>3. started[r] \in 1..Len(Script)
  BY <1>2, ScriptDomain DEF Running
<1>4. CASE (Script[started[r]].id \in seen[r].ids \/ IsApplied(What(r))) /\ UNCHANGED <<schema, enterpriseRow>>
  <2>1. What(r) \notin DataChanges => What(r) \in schema
    <3>1. CASE IsApplied(What(r))
      BY <3>1 DEF IsApplied, DataChanges
    <3>2. CASE Script[started[r]].id \in seen[r].ids
      <4>1. ChangesOfSteps(Script)
        BY ScriptIsSound DEF IsScript
      <4>2. PICK i \in 1..7 : Script[started[r]].id = Steps[i].id /\ What(r) \in ToSet(Steps[i].changes)
        BY <1>2, <1>3, <4>1 DEF ChangesOfSteps, What, Op
      <4>3. Steps[i].id \in recorded
        BY <3>2, <4>2 DEF UpgradeInv, UpgradeTypes
      <4> QED
        BY <4>2, <4>3, StepsText DEF UpgradeInv, RecordedMeansApplied
    <3> QED
      BY <1>4, <3>1, <3>2
  <2>2. StatementDone(r)
    BY <1>2, <1>4, <2>1 DEF StatementDone
  <2>3. GrowsOnly /\ SeesMore(r) /\ RecordsStep(r)
    BY <1>1, <1>4, GrowsOnlyWhenSame, SeesSame DEF RecordsStep
  <2>4. Op(r) # "open"
    BY <1>2
  <2> QED
    BY <1>1, <1>2, <1>4, <2>2, <2>3, <2>4, RowsAreKept, StepsOn
<1>5. CASE /\ ~IsApplied(What(r)) /\ schema' = schema \cup ({What(r)} \ DataChanges)
           /\ enterpriseRow' = IF What(r) = "default row"
                               THEN [enterpriseRow EXCEPT !["default"] = [print |-> Pending, count |-> 0]]
                               ELSE enterpriseRow
  <2>1. CASE What(r) = "default row"
    <3>1. enterpriseRow["default"] = NoRow
      BY <1>5, <2>1 DEF IsApplied
    <3> DEFINE row == [print |-> Pending, count |-> 0]
    <3>2. row \in RowSet
      BY DEF RowSet, Prints
    <3>3. enterpriseRow' = [enterpriseRow EXCEPT !["default"] = row]
      BY <1>5, <2>1
    <3> HIDE DEF row
    <3>4. /\ enterpriseRow' \in [MigratedEnterprises -> MaybeRow]
          /\ enterpriseRow'["default"] # NoRow
          /\ \A f \in MigratedEnterprises \ {"default"} : enterpriseRow'[f] = enterpriseRow[f]
      BY <3>2, <3>3, EnterpriseNames, NewRow
    <3>5. GrowsOnly
      BY <1>1, <1>5, <3>4 DEF GrowsOnly, UpgradeInv, UpgradeTypes
    <3>6. StatementDone(r)
      BY <1>2, <1>5, <3>4 DEF StatementDone
    <3>7. CountsMembers(r)
      BY <1>2, <3>1, <3>4 DEF CountsMembers
    <3>8. SeesMore(r) /\ RecordsStep(r)
      BY <1>1, SeesSame DEF RecordsStep
    <3> QED
      BY <1>1, <1>2, <3>5, <3>6, <3>7, <3>8, StepsOn
  <2>2. CASE What(r) # "default row"
    <3>1. UNCHANGED enterpriseRow
      BY <1>5, <2>2
    <3>2. GrowsOnly
      BY <1>1, <1>5, <3>1 DEF GrowsOnly, UpgradeInv, UpgradeTypes
    <3>3. StatementDone(r)
      BY <1>2, <1>5 DEF StatementDone
    <3>4. SeesMore(r) /\ RecordsStep(r)
      BY <1>1, SeesSame DEF RecordsStep
    <3>5. Op(r) # "open"
      BY <1>2
    <3> QED
      BY <1>1, <1>2, <3>1, <3>2, <3>3, <3>4, <3>5, RowsAreKept, StepsOn
  <2> QED
    BY <2>1, <2>2
<1> QED
  BY <1>4, <1>5 DEF ApplyChange

LEMMA KeepsRecord ==
  ASSUME UpgradeInv, NEW r \in Replicas, recordMigration(r)
  PROVE  UpgradeInv'
<1>1. /\ UpgradeAt(r, "record") /\ GoOn(r) /\ recorded' = recorded \cup {Script[started[r]].id}
      /\ UNCHANGED <<schema, enterpriseRow, members, poolSettings, seen>>
  BY DEF recordMigration
<1>2. Running(r) /\ Op(r) = "record"
  BY <1>1, AtOp
<1>3. Op(r) # "open"
  BY <1>2
<1>4. GrowsOnly /\ SeesMore(r)
  BY <1>1, SeesSame DEF GrowsOnly, UpgradeInv, UpgradeTypes
<1>5. StatementDone(r) /\ RecordsStep(r)
  BY <1>1, <1>2 DEF StatementDone, RecordsStep
<1> QED
  BY <1>1, <1>2, <1>3, <1>4, <1>5, RowsAreKept, StepsOn

LEMMA IdentityIsPrint == ASSUME NEW r \in Replicas, NEW n \in Nat PROVE [print |-> Identity[r], count |-> n] \in RowSet
BY DEF RowSet, Prints

LEMMA KeepsInserts ==
  ASSUME UpgradeInv, NEW r \in Replicas, InsertDefault(r) \/ InsertDraft(r)
  PROVE  UpgradeInv'
<1>0. members \in [MigratedEnterprises -> Nat]
  BY DEF UpgradeInv, UpgradeTypes
<1>1. CASE InsertDefault(r)
  <2>1. /\ UpgradeAt(r, "insert default") /\ GoOn(r) /\ schema \subseteq schema'
        /\ UNCHANGED <<recorded, members, poolSettings, seen>>
    BY <1>1 DEF InsertDefault
  <2>2. Running(r) /\ Op(r) = "insert default"
    BY <2>1, AtOp
  <2>3. SeesMore(r) /\ RecordsStep(r)
    BY <2>1, SeesSame DEF RecordsStep
  <2>4. CASE enterpriseRow["default"] # NoRow /\ UNCHANGED enterpriseRow
    <3>1. GrowsOnly /\ StatementDone(r)
      BY <2>1, <2>2, <2>4 DEF GrowsOnly, StatementDone, UpgradeInv, UpgradeTypes
    <3>2. Op(r) # "open"
      BY <2>2
    <3> QED
      BY <2>1, <2>2, <2>3, <2>4, <3>1, <3>2, RowsAreKept, StepsOn
  <2>5. CASE /\ enterpriseRow["default"] = NoRow
             /\ enterpriseRow' = [enterpriseRow EXCEPT !["default"] =
                                    [print |-> Identity[r], count |-> members["default"]]]
    <3> DEFINE row == [print |-> Identity[r], count |-> members["default"]]
    <3>1. row \in RowSet /\ row.count = members["default"]
      BY <1>0, EnterpriseNames, IdentityIsPrint
    <3>2. enterpriseRow' = [enterpriseRow EXCEPT !["default"] = row]
      BY <2>5
    <3> HIDE DEF row
    <3>3. /\ enterpriseRow' \in [MigratedEnterprises -> MaybeRow]
          /\ enterpriseRow'["default"] = row /\ row # NoRow
          /\ \A f \in MigratedEnterprises \ {"default"} : enterpriseRow'[f] = enterpriseRow[f]
      BY <3>1, <3>2, EnterpriseNames, NewRow
    <3>4. GrowsOnly
      BY <2>1, <3>3 DEF GrowsOnly, UpgradeInv, UpgradeTypes
    <3>5. StatementDone(r)
      BY <2>2, <3>3 DEF StatementDone
    <3>6. CountsMembers(r)
      <4>1. Op(r) # "open"
        BY <2>2
      <4> QED
        BY <3>1, <3>3, <4>1 DEF CountsMembers
    <3> QED
      BY <2>1, <2>2, <2>3, <3>4, <3>5, <3>6, StepsOn
  <2> QED
    BY <1>1, <2>4, <2>5 DEF InsertDefault
<1>2. CASE InsertDraft(r)
  <2>1. /\ UpgradeAt(r, "insert draft") /\ GoOn(r) /\ UNCHANGED <<schema, recorded, members, poolSettings, seen>>
    BY <1>2 DEF InsertDraft
  <2>2. Running(r) /\ Op(r) = "insert draft"
    BY <2>1, AtOp
  <2>3. SeesMore(r) /\ RecordsStep(r)
    BY <2>1, SeesSame DEF RecordsStep
  <2>4. What(r) = "other"
    <3>1. NamesEnterprises(Script)
      BY ScriptIsSound DEF IsScript
    <3>2. started[r] \in 1..Len(Script)
      BY <2>2, ScriptDomain DEF Running
    <3> QED
      BY <2>2, <3>1, <3>2 DEF NamesEnterprises, What, Op
  <2>5. CASE UNCHANGED enterpriseRow
    <3>1. GrowsOnly /\ StatementDone(r)
      BY <2>1, <2>2, <2>5 DEF GrowsOnly, StatementDone, UpgradeInv, UpgradeTypes
    <3>2. Op(r) # "open"
      BY <2>2
    <3> QED
      BY <2>1, <2>2, <2>3, <2>5, <3>1, <3>2, RowsAreKept, StepsOn
  <2>6. CASE /\ enterpriseRow[What(r)] = NoRow
             /\ enterpriseRow' = [enterpriseRow EXCEPT ![What(r)] = [print |-> Identity[r], count |-> 0]]
    <3> DEFINE row == [print |-> Identity[r], count |-> 0]
    <3>1. row \in RowSet /\ row.count = 0
      BY IdentityIsPrint
    <3>2. enterpriseRow' = [enterpriseRow EXCEPT !["other"] = row]
      BY <2>4, <2>6
    <3> HIDE DEF row
    <3>3. /\ enterpriseRow' \in [MigratedEnterprises -> MaybeRow]
          /\ enterpriseRow'["other"] = row /\ row # NoRow
          /\ \A f \in MigratedEnterprises \ {"other"} : enterpriseRow'[f] = enterpriseRow[f]
      BY <3>1, <3>2, EnterpriseNames, NewRow
    <3>4. GrowsOnly
      BY <2>1, <3>3 DEF GrowsOnly, UpgradeInv, UpgradeTypes
    <3>5. StatementDone(r)
      BY <2>2 DEF StatementDone
    <3>6. CountsMembers(r)
      <4>1. Op(r) # "open"
        BY <2>2
      <4>2. members["other"] = 0
        BY <2>4, <2>6 DEF UpgradeInv, OtherIsEmpty
      <4> QED
        BY <3>1, <3>3, <4>1, <4>2 DEF CountsMembers
    <3> QED
      BY <2>1, <2>2, <2>3, <3>4, <3>5, <3>6, StepsOn
  <2> QED
    BY <1>2, <2>5, <2>6 DEF InsertDraft
<1> QED
  BY <1>1, <1>2

LEMMA KeepsRead ==
  ASSUME UpgradeInv, NEW r \in Replicas, ReadRow(r)
  PROVE  UpgradeInv'
<1>1. /\ UpgradeAt(r, "read") /\ GoOn(r) /\ UNCHANGED <<schema, recorded, enterpriseRow, members, poolSettings>>
      /\ seen' = [seen EXCEPT ![r].row = IF What(r) \in Registered[r] THEN enterpriseRow[What(r)] ELSE NoRow]
  BY DEF ReadRow
<1>2. Running(r) /\ Op(r) = "read"
  BY <1>1, AtOp
<1>3. started[r] \in 1..Len(Script)
  BY <1>2, ScriptDomain DEF Running
<1>4. PICK e \in MigratedEnterprises : e = What(r) /\ enterpriseRow[e] \in MaybeRow
  <2>1. NamesEnterprises(Script)
    BY ScriptIsSound DEF IsScript
  <2>2. What(r) \in MigratedEnterprises
    BY <1>2, <1>3, <2>1 DEF NamesEnterprises, Op, What
  <2> QED
    BY <2>2 DEF UpgradeInv, UpgradeTypes
<1> DEFINE row == IF What(r) \in Registered[r] THEN enterpriseRow[What(r)] ELSE NoRow
<1>5. row \in MaybeRow
  BY <1>4 DEF MaybeRow
<1>6. row # NoRow => enterpriseRow[What(r)] # NoRow
  OBVIOUS
<1>7. seen' = [seen EXCEPT ![r].row = row]
  BY <1>1
<1> HIDE DEF row
<1>8. /\ seen' \in [Replicas -> [ids: SUBSET recorded, row: MaybeRow]]
      /\ seen'[r].row = row /\ \A s \in Replicas \ {r} : seen'[s] = seen[s]
  BY <1>5, <1>7 DEF UpgradeInv, UpgradeTypes
<1>9. SeesMore(r) /\ RecordsStep(r) /\ GrowsOnly
  BY <1>1, <1>8, GrowsOnlyWhenSame DEF SeesMore, RecordsStep
<1>10. StatementDone(r)
  BY <1>1, <1>2, <1>6, <1>8 DEF StatementDone
<1>11. Op(r) # "open"
  BY <1>2
<1> QED
  BY <1>1, <1>2, <1>9, <1>10, <1>11, RowsAreKept, StepsOn

(* What a rewrite leaves of the row: its count, or that of the members now;
   the name only of a row that was pending or had no member. *)
LEMMA RewriteRows ==
  ASSUME UpgradeInv, NEW r \in Replicas, RewriteRow(r), ~Fail(r)
  PROVE  /\ UpgradeAt(r, "rewrite") /\ GoOn(r) /\ What(r) \in MigratedEnterprises
         /\ UNCHANGED <<schema, recorded, members, poolSettings, seen>>
         /\ enterpriseRow' \in [MigratedEnterprises -> MaybeRow]
         /\ \A e \in MigratedEnterprises :
              \/ enterpriseRow'[e] = enterpriseRow[e]
              \/ /\ enterpriseRow[e] # NoRow /\ enterpriseRow'[e] # NoRow
                 /\ \/ enterpriseRow[e].print = Pending /\ enterpriseRow'[e].count = members[e]
                    \/ enterpriseRow[e].count = 0 /\ enterpriseRow'[e].count = 0
<1>1. UpgradeAt(r, "rewrite") /\ UNCHANGED <<schema, recorded, members, poolSettings>>
  BY DEF RewriteRow
<1>2. started[r] \in 1..Len(Script) /\ Op(r) = "rewrite"
  BY <1>1, AtOp, ScriptDomain DEF Running
<1>3. What(r) \in MigratedEnterprises
  <2>1. RewritesFollow(Script)
    BY ScriptIsSound DEF IsScript
  <2> QED
    BY <1>2, <2>1 DEF RewritesFollow, Op, What
<1>4. GoOn(r) /\ UNCHANGED seen
  BY DEF RewriteRow
<1> DEFINE w == What(r)
           row == seen[r].row
<1>5. \/ UNCHANGED enterpriseRow
      \/ row # NoRow /\ enterpriseRow' = Completed(w, Identity[r])
      \/ row # NoRow /\ enterpriseRow' = Rewritten(w, Identity[r])
  BY DEF RewriteRow
<1>6. enterpriseRow \in [MigratedEnterprises -> MaybeRow] /\ members \in [MigratedEnterprises -> Nat]
  BY DEF UpgradeInv, UpgradeTypes
<1>7. CASE UNCHANGED enterpriseRow
  BY <1>1, <1>3, <1>4, <1>6, <1>7
<1>8. row # NoRow => enterpriseRow[w] # NoRow /\ enterpriseRow[w] \in RowSet
  BY <1>1, <1>3, <1>6 DEF UpgradeInv, SeenRowIsThere, MaybeRow
<1> HIDE DEF w, row
<1>9. CASE row # NoRow /\ enterpriseRow' = Completed(w, Identity[r]) /\ enterpriseRow' # enterpriseRow
  <2> DEFINE new == [print |-> Identity[r], count |-> members[w]]
  <2>1. enterpriseRow[w].print = Pending /\ enterpriseRow' = [enterpriseRow EXCEPT ![w] = new]
    BY <1>9 DEF Completed
  <2>2. new \in RowSet /\ new.count = members[w]
    BY <1>3, <1>6, IdentityIsPrint DEF w
  <2> HIDE DEF new
  <2>3. /\ enterpriseRow' \in [MigratedEnterprises -> MaybeRow]
        /\ enterpriseRow'[w] = new /\ new # NoRow
        /\ \A f \in MigratedEnterprises \ {w} : enterpriseRow'[f] = enterpriseRow[f]
    BY <1>3, <2>1, <2>2, NewRow DEF w
  <2> QED
    BY <1>1, <1>3, <1>4, <1>8, <1>9, <2>1, <2>2, <2>3
<1>10. CASE row # NoRow /\ enterpriseRow' = Rewritten(w, Identity[r]) /\ enterpriseRow' # enterpriseRow
  <2> DEFINE new == [enterpriseRow[w] EXCEPT !.print = Identity[r]]
  <2>1. enterpriseRow[w].count = 0 /\ enterpriseRow' = [enterpriseRow EXCEPT ![w].print = Identity[r]]
    BY <1>10 DEF Rewritten
  <2>2. enterpriseRow' = [enterpriseRow EXCEPT ![w] = new]
    BY <2>1
  <2>3. new \in RowSet /\ new.count = 0
    BY <1>8, <1>10, <2>1 DEF RowSet, Prints
  <2> HIDE DEF new
  <2>4. /\ enterpriseRow' \in [MigratedEnterprises -> MaybeRow]
        /\ enterpriseRow'[w] = new /\ new # NoRow
        /\ \A f \in MigratedEnterprises \ {w} : enterpriseRow'[f] = enterpriseRow[f]
    BY <1>3, <2>2, <2>3, NewRow DEF w
  <2> QED
    BY <1>1, <1>3, <1>4, <1>8, <1>10, <2>1, <2>3, <2>4
<1> QED
  BY <1>5, <1>7, <1>9, <1>10

LEMMA KeepsRewrite ==
  ASSUME UpgradeInv, NEW r \in Replicas, RewriteRow(r)
  PROVE  UpgradeInv'
<1>1. CASE Fail(r)
  <2>1. UNCHANGED <<schema, recorded, enterpriseRow, members, poolSettings>>
    <3>1. started'[r] = 0 /\ started[r] # 0
      BY <1>1, AtOp, ScriptDomain DEF RewriteRow, Fail, UpgradeInv, UpgradeTypes, UpgradeAt, Running
    <3>2. ~GoOn(r)
      BY <3>1, ScriptDomain DEF GoOn, UpgradeInv, UpgradeTypes
    <3> QED
      BY <3>2 DEF RewriteRow
  <2> QED
    BY <1>1, <2>1, FallsBack
<1>2. CASE ~Fail(r)
  <2>1. /\ UpgradeAt(r, "rewrite") /\ GoOn(r) /\ UNCHANGED <<schema, recorded, members, poolSettings, seen>>
        /\ enterpriseRow' \in [MigratedEnterprises -> MaybeRow]
        /\ \A e \in MigratedEnterprises :
             \/ enterpriseRow'[e] = enterpriseRow[e]
             \/ /\ enterpriseRow[e] # NoRow /\ enterpriseRow'[e] # NoRow
                /\ \/ enterpriseRow[e].print = Pending /\ enterpriseRow'[e].count = members[e]
                   \/ enterpriseRow[e].count = 0 /\ enterpriseRow'[e].count = 0
    BY <1>2, RewriteRows
  <2>2. Running(r) /\ Op(r) = "rewrite"
    BY <2>1, AtOp
  <2>3. GrowsOnly
    BY <2>1 DEF GrowsOnly, UpgradeInv, UpgradeTypes
  <2>4. SeesMore(r) /\ RecordsStep(r)
    BY <2>1, SeesSame DEF RecordsStep
  <2>5. StatementDone(r)
    BY <2>2 DEF StatementDone
  <2>6. CountsMembers(r)
    <3>1. Op(r) # "open"
      BY <2>2
    <3> QED
      BY <2>1, <3>1 DEF CountsMembers
  <2> QED
    BY <2>1, <2>2, <2>3, <2>4, <2>5, <2>6, StepsOn
<1> QED
  BY <1>1, <1>2

LEMMA KeepsPoolSteps ==
  ASSUME UpgradeInv, NEW r \in Replicas,
         RegistryCovers(r) \/ InstallFence(r) \/ migratePoolConfigFingerprint(r) \/ InsertSettings(r)
  PROVE  UpgradeInv'
<1>0. enterpriseRow \in [MigratedEnterprises -> MaybeRow] /\ poolSettings \in PoolRow \cup {NoRow}
  BY DEF UpgradeInv, UpgradeTypes
<1>1. CASE RegistryCovers(r)
  <2>1. UpgradeAt(r, "covers") /\ UNCHANGED <<schema, recorded, enterpriseRow, members, poolSettings>>
    BY <1>1 DEF RegistryCovers
  <2>2. CASE Fail(r)
    BY <2>1, <2>2, FallsBack
  <2>3. CASE GoOn(r) /\ UNCHANGED seen
    <3>1. Running(r) /\ Op(r) = "covers"
      BY <2>1, AtOp
    <3>2. Op(r) \notin {"change", "insert default", "read", "open"}
      BY <3>1
    <3>3. SeesMore(r)
      BY <2>1, <2>3, SeesSame
    <3> QED
      BY <2>1, <2>3, <3>1, <3>2, <3>3, LocksOnly
  <2> QED
    BY <1>1, <2>2, <2>3 DEF RegistryCovers
<1>2. CASE InstallFence(r)
  <2>1. UpgradeAt(r, "fence") /\ UNCHANGED <<recorded, enterpriseRow, members, poolSettings>>
    BY <1>2 DEF InstallFence
  <2>2. CASE Fail(r) /\ UNCHANGED schema
    BY <2>1, <2>2, FallsBack
  <2>3. CASE schema' = schema \cup {"fence"} /\ GoOn(r) /\ UNCHANGED seen
    <3>1. Running(r) /\ Op(r) = "fence"
      BY <2>1, AtOp
    <3>2. Op(r) # "open"
      BY <3>1
    <3>3. GrowsOnly /\ SeesMore(r) /\ RecordsStep(r)
      BY <1>0, <2>1, <2>3, SeesSame DEF GrowsOnly, RecordsStep
    <3>4. StatementDone(r)
      BY <3>1 DEF StatementDone
    <3> QED
      BY <2>1, <2>3, <3>1, <3>2, <3>3, <3>4, RowsAreKept, StepsOn
  <2> QED
    BY <1>2, <2>2, <2>3 DEF InstallFence
<1>3. CASE migratePoolConfigFingerprint(r)
  <2>1. UpgradeAt(r, "fingerprint") /\ UNCHANGED <<schema, enterpriseRow, members>>
    BY <1>3 DEF migratePoolConfigFingerprint
  <2>2. CASE Fail(r) /\ UNCHANGED <<poolSettings, recorded>>
    BY <2>1, <2>2, FallsBack
  <2>3. CASE /\ poolSettings' = IF poolSettings = NoRow \/ "fingerprint" \in recorded THEN poolSettings
                                ELSE [poolSettings EXCEPT !.algorithm = "r5"]
             /\ recorded' = recorded \cup {"fingerprint"} /\ GoOn(r) /\ UNCHANGED seen
    <3>1. Running(r) /\ Op(r) = "fingerprint"
      BY <2>1, AtOp
    <3>2. Op(r) # "open"
      BY <3>1
    <3>3. /\ poolSettings' \in PoolRow \cup {NoRow}
          /\ poolSettings # NoRow => poolSettings' # NoRow /\ poolSettings'.config = poolSettings.config
      <4>1. CASE poolSettings' = poolSettings
        BY <1>0, <4>1
      <4>2. CASE poolSettings # NoRow /\ poolSettings' = [poolSettings EXCEPT !.algorithm = "r5"]
        <5>1. poolSettings' \in PoolRow /\ poolSettings'.config = poolSettings.config
          BY <1>0, <4>2 DEF PoolRow
        <5> QED
          BY <5>1, NoRowIsNone
      <4> QED
        BY <2>3, <4>1, <4>2
    <3>4. GrowsOnly /\ SeesMore(r)
      BY <1>0, <2>1, <2>3, <3>3, SeesSame DEF GrowsOnly
    <3>5. RecordsStep(r)
      BY <2>3, StepsDiffer DEF RecordsStep
    <3>6. StatementDone(r)
      BY <3>1 DEF StatementDone
    <3> QED
      BY <2>1, <2>3, <3>1, <3>2, <3>4, <3>5, <3>6, RowsAreKept, StepsOn
  <2> QED
    BY <1>3, <2>2, <2>3 DEF migratePoolConfigFingerprint
<1>4. CASE InsertSettings(r)
  <2>1. /\ UpgradeAt(r, "settings") /\ GoOn(r) /\ UNCHANGED <<schema, recorded, enterpriseRow, members, seen>>
        /\ poolSettings' = IF poolSettings # NoRow THEN poolSettings
                           ELSE [algorithm |-> "r5", config |-> PoolConfig[r]]
    BY <1>4 DEF InsertSettings
  <2>2. Running(r) /\ Op(r) = "settings"
    BY <2>1, AtOp
  <2>3. Op(r) # "open"
    BY <2>2
  <2>4. poolSettings' \in PoolRow \cup {NoRow}
    BY <1>0, <2>1 DEF PoolRow
  <2>5. GrowsOnly /\ SeesMore(r) /\ RecordsStep(r)
    BY <1>0, <2>1, <2>4, SeesSame DEF GrowsOnly, RecordsStep
  <2>6. StatementDone(r)
    BY <2>2 DEF StatementDone
  <2> QED
    BY <2>1, <2>2, <2>3, <2>5, <2>6, RowsAreKept, StepsOn
<1> QED
  BY <1>1, <1>2, <1>3, <1>4

(* The recount: the row of an enterprise keeps its name. *)
LEMMA OpenRows ==
  ASSUME UpgradeInv, NEW e \in MigratedEnterprises,
         enterpriseRow' = [f \in MigratedEnterprises |-> IF enterpriseRow[f] = NoRow THEN NoRow
                                                         ELSE [enterpriseRow[f] EXCEPT !.count = members[f]]]
  PROVE  /\ enterpriseRow'[e] \in MaybeRow
         /\ enterpriseRow[e] = NoRow <=> enterpriseRow'[e] = NoRow
         /\ enterpriseRow[e] # NoRow =>
              enterpriseRow'[e].count = members[e] /\ enterpriseRow'[e].print = enterpriseRow[e].print
<1>1. enterpriseRow[e] \in MaybeRow /\ members[e] \in Nat
  BY DEF UpgradeInv, UpgradeTypes
<1> DEFINE row == [enterpriseRow[e] EXCEPT !.count = members[e]]
<1>2. enterpriseRow[e] # NoRow =>
        row \in RowSet /\ row.count = members[e] /\ row.print = enterpriseRow[e].print
  BY <1>1 DEF MaybeRow, RowSet
<1>3. enterpriseRow'[e] = IF enterpriseRow[e] = NoRow THEN NoRow ELSE row
  OBVIOUS
<1> HIDE DEF row
<1> QED
  BY <1>1, <1>2, <1>3, NoRowIsNone DEF MaybeRow

LEMMA KeepsOpen ==
  ASSUME UpgradeInv, NEW r \in Replicas, OpenStore(r)
  PROVE  UpgradeInv'
<1>1. UpgradeAt(r, "open") /\ UNCHANGED <<schema, recorded, members, poolSettings>>
  BY DEF OpenStore
<1>2. CASE Fail(r) /\ UNCHANGED enterpriseRow
  BY <1>1, <1>2, FallsBack
<1>3. CASE /\ poolSettings = [algorithm |-> "r5", config |-> PoolConfig[r]]
           /\ enterpriseRow' = [e \in MigratedEnterprises |-> IF enterpriseRow[e] = NoRow THEN NoRow
                                                              ELSE [enterpriseRow[e] EXCEPT !.count = members[e]]]
           /\ GoOn(r) /\ UNCHANGED seen
  <2>1. Running(r) /\ Op(r) = "open"
    BY <1>1, AtOp
  <2>2. \A e \in MigratedEnterprises :
          /\ enterpriseRow'[e] \in MaybeRow
          /\ enterpriseRow[e] = NoRow <=> enterpriseRow'[e] = NoRow
          /\ enterpriseRow[e] # NoRow => enterpriseRow'[e].count = members[e]
    BY <1>3, OpenRows
  <2>3. enterpriseRow' \in [MigratedEnterprises -> MaybeRow]
    BY <1>3, <2>2
  <2>4. poolSettings # NoRow /\ poolSettings.config = PoolConfig[r]
    <3>1. [algorithm |-> "r5", config |-> PoolConfig[r]] \in PoolRow
      BY DEF PoolRow
    <3> QED
      BY <1>3, <3>1, NoRowIsNone
  <2>5. GrowsOnly
    BY <1>1, <2>2, <2>3 DEF GrowsOnly, UpgradeInv, UpgradeTypes
  <2>6. SeesMore(r) /\ RecordsStep(r)
    BY <1>1, <1>3, SeesSame DEF RecordsStep
  <2>7. StatementDone(r)
    BY <1>1, <2>1, <2>4 DEF StatementDone
  <2>8. CountsMembers(r)
    BY <2>2 DEF CountsMembers
  <2> QED
    BY <1>3, <2>1, <2>5, <2>6, <2>7, <2>8, StepsOn
<1> QED
  BY <1>2, <1>3 DEF OpenStore

LEMMA KeepsMembers ==
  ASSUME UpgradeInv, OldAddsMember \/ WriteEvent \/ (\E r \in Replicas, e \in MigratedEnterprises : AddMember(r, e))
  PROVE  UpgradeInv'
<1>0. /\ members \in [MigratedEnterprises -> Nat] /\ enterpriseRow \in [MigratedEnterprises -> MaybeRow]
      /\ UpgradeTypes
  BY DEF UpgradeInv, UpgradeTypes
<1>1. CASE OldAddsMember
  <2>1. /\ "members required" \notin schema /\ members' = [members EXCEPT !["default"] = @ + 1]
        /\ UNCHANGED <<schema, recorded, enterpriseRow, poolSettings, started, seen>>
    BY <1>1 DEF OldAddsMember
  <2>2. \A r \in Replicas : ~Ready(r)
    BY <2>1, ReadyPassed
  <2>3. members' \in [MigratedEnterprises -> Nat] /\ members'["other"] = members["other"]
    <3> DEFINE d == "default"
               o == "other"
    <3>1. d \in MigratedEnterprises /\ o \in MigratedEnterprises /\ d # o
      BY EnterpriseNames
    <3>2. members' = [members EXCEPT ![d] = @ + 1]
      BY <2>1
    <3> HIDE DEF d, o
    <3>3. members' \in [MigratedEnterprises -> Nat] /\ members'[o] = members[o]
      BY <1>0, <3>1, <3>2
    <3> QED
      BY <3>3 DEF o
  <2> QED
    BY <2>1, <2>2, <2>3 DEF UpgradeInv, UpgradeTypes, PassedChanges, PassedDefault, SeenRowIsThere, UpgradeAt, Running,
         What, ServingAgree, Ready, OtherIsEmpty, RecordedMeansApplied, InventoryAgrees
<1>2. CASE WriteEvent
  <2>1. UNCHANGED <<schema, recorded, enterpriseRow, members, poolSettings, started, seen>>
    BY <1>2 DEF WriteEvent
  <2> QED
    BY <2>1 DEF UpgradeInv, UpgradeTypes, PassedChanges, PassedDefault, SeenRowIsThere, UpgradeAt, Running,
         What, ServingAgree, Ready, OtherIsEmpty, RecordedMeansApplied, InventoryAgrees
<1>3. ASSUME NEW r \in Replicas, NEW e \in MigratedEnterprises, AddMember(r, e) PROVE UpgradeInv'
  <2>1. /\ Ready(r) /\ enterpriseRow[e] # NoRow /\ members' = [members EXCEPT ![e] = @ + 1]
        /\ enterpriseRow' = [enterpriseRow EXCEPT ![e].count = @ + 1]
        /\ UNCHANGED <<schema, recorded, poolSettings, started, seen>>
    BY <1>3 DEF AddMember
  <2> DEFINE row == [enterpriseRow[e] EXCEPT !.count = @ + 1]
  <2>2. enterpriseRow[e] \in RowSet /\ enterpriseRow[e].count = members[e]
    BY <1>0, <2>1 DEF MaybeRow, UpgradeInv, InventoryAgrees
  <2>3. row \in RowSet /\ row.count = members[e] + 1
    BY <2>2 DEF RowSet
  <2>4. enterpriseRow' = [enterpriseRow EXCEPT ![e] = row]
    BY <2>1
  <2> HIDE DEF row
  <2>5. /\ enterpriseRow' \in [MigratedEnterprises -> MaybeRow]
        /\ enterpriseRow'[e] = row /\ row # NoRow
        /\ \A f \in MigratedEnterprises \ {e} : enterpriseRow'[f] = enterpriseRow[f]
    BY <2>3, <2>4, NewRow
  <2>6. /\ members' \in [MigratedEnterprises -> Nat] /\ members'[e] = members[e] + 1
        /\ \A f \in MigratedEnterprises \ {e} : members'[f] = members[f]
    BY <1>0, <2>1
  <2>7. \A f \in MigratedEnterprises : enterpriseRow[f] # NoRow => enterpriseRow'[f] # NoRow
    BY <2>5
  <2>8. UpgradeTypes'
    BY <1>0, <2>1, <2>5, <2>6 DEF UpgradeTypes
  <2>9. PassedChanges' /\ PassedDefault' /\ RecordedMeansApplied'
    BY <2>1, <2>7, EnterpriseNames DEF UpgradeInv, PassedChanges, PassedDefault, RecordedMeansApplied
  <2>10. SeenRowIsThere'
    <3> SUFFICES ASSUME NEW s \in Replicas, UpgradeAt(s, "rewrite"), seen[s].row # NoRow
                 PROVE  enterpriseRow'[What(s)] # NoRow
      BY <2>1 DEF SeenRowIsThere, UpgradeAt, Running, What
    <3>1. RewritesFollow(Script)
      BY ScriptIsSound DEF IsScript
    <3>2. started[s] \in 1..Len(Script) /\ Op(s) = "rewrite"
      BY AtOp, ScriptDomain DEF Running
    <3>3. What(s) \in MigratedEnterprises
      BY <3>1, <3>2 DEF RewritesFollow, Op, What
    <3> QED
      BY <2>7, <3>3 DEF UpgradeInv, SeenRowIsThere
  <2>11. ServingAgree'
    BY <2>1 DEF UpgradeInv, ServingAgree, Ready
  <2>12. OtherIsEmpty'
    BY <2>5, <2>6, <2>7, EnterpriseNames DEF UpgradeInv, OtherIsEmpty
  <2>13. InventoryAgrees'
    <3> SUFFICES ASSUME NEW f \in MigratedEnterprises, enterpriseRow'[f] # NoRow
                 PROVE  enterpriseRow'[f].count = members'[f]
      BY DEF InventoryAgrees
    <3>1. CASE f = e
      BY <2>3, <2>5, <2>6, <3>1
    <3>2. CASE f # e
      BY <2>1, <2>5, <2>6, <3>2 DEF UpgradeInv, InventoryAgrees
    <3> QED
      BY <3>1, <3>2
  <2> QED
    BY <2>8, <2>9, <2>10, <2>11, <2>12, <2>13 DEF UpgradeInv
<1> QED
  BY <1>1, <1>2, <1>3

LEMMA UpgradeKeeps == ASSUME UpgradeInv, [UpgradeNext]_upgradeVars PROVE UpgradeInv'
<1>1. ASSUME NEW r \in Replicas, Start(r) \/ Lock(r) \/ UnlockUpgrade(r) \/ Crash(r) PROVE UpgradeInv'
  BY <1>1, KeepsLock
<1>2. ASSUME NEW r \in Replicas, ValidateBase(r) \/ ValidatePool(r) PROVE UpgradeInv'
  BY <1>2, KeepsValidates DEF ValidateBase, ValidatePool
<1>3. ASSUME NEW r \in Replicas, ApplyChange(r) \/ recordMigration(r) PROVE UpgradeInv'
  BY <1>3, KeepsChange, KeepsRecord
<1>4. ASSUME NEW r \in Replicas, InsertDefault(r) \/ InsertDraft(r) \/ ReadRow(r) \/ RewriteRow(r) PROVE UpgradeInv'
  BY <1>4, KeepsInserts, KeepsRead, KeepsRewrite
<1>5. ASSUME NEW r \in Replicas,
             RegistryCovers(r) \/ InstallFence(r) \/ migratePoolConfigFingerprint(r) \/ InsertSettings(r) \/ OpenStore(r)
      PROVE  UpgradeInv'
  BY <1>5, KeepsPoolSteps, KeepsOpen
<1>6. CASE OldAddsMember \/ WriteEvent \/ (\E r \in Replicas, e \in MigratedEnterprises : AddMember(r, e))
  BY <1>6, KeepsMembers
<1>7. CASE UNCHANGED upgradeVars
  BY <1>7 DEF upgradeVars, UpgradeInv, UpgradeTypes, PassedChanges, PassedDefault, SeenRowIsThere, UpgradeAt, Running,
       What, ServingAgree, Ready, OtherIsEmpty, RecordedMeansApplied, InventoryAgrees
<1> QED
  BY <1>1, <1>2, <1>3, <1>4, <1>5, <1>6, <1>7 DEF UpgradeNext

(* The enterprises that keep their name in a step. *)
NamesAreKept ==
  \A e \in MigratedEnterprises : enterpriseRow[e] # NoRow /\ enterpriseRow[e].count > 0 =>
    enterpriseRow'[e].print = enterpriseRow[e].print \/ enterpriseRow[e].print = Pending

LEMMA StepKeepsNames == ASSUME UpgradeInv, [UpgradeNext]_upgradeVars PROVE NamesAreKept
<1>0. enterpriseRow \in [MigratedEnterprises -> MaybeRow]
  BY DEF UpgradeInv, UpgradeTypes
<1>1. CASE UNCHANGED enterpriseRow
  BY <1>1 DEF NamesAreKept
<1>2. ASSUME NEW r \in Replicas,
             \/ Start(r) \/ Lock(r) \/ UnlockUpgrade(r) \/ Crash(r) \/ ValidateBase(r) \/ ValidatePool(r)
             \/ recordMigration(r) \/ ReadRow(r) \/ RegistryCovers(r) \/ InstallFence(r)
             \/ migratePoolConfigFingerprint(r) \/ InsertSettings(r) \/ OldAddsMember \/ WriteEvent
      PROVE  NamesAreKept
  <2>1. UNCHANGED enterpriseRow
    BY <1>2 DEF Start, Lock, UnlockUpgrade, Crash, ValidateBase, ValidatePool, Validates, recordMigration, ReadRow,
         RegistryCovers, InstallFence, migratePoolConfigFingerprint, InsertSettings, OldAddsMember, WriteEvent
  <2> QED
    BY <1>1, <2>1
<1>3. ASSUME NEW r \in Replicas, ApplyChange(r) PROVE NamesAreKept
  <2>1. CASE UNCHANGED enterpriseRow
    BY <1>1, <2>1
  <2>2. CASE ~(UNCHANGED enterpriseRow)
    <3>1. /\ ~IsApplied(What(r)) /\ What(r) = "default row"
          /\ enterpriseRow' = [enterpriseRow EXCEPT !["default"] = [print |-> Pending, count |-> 0]]
      BY <1>3, <2>2 DEF ApplyChange
    <3>2. enterpriseRow["default"] = NoRow
      BY <3>1 DEF IsApplied
    <3> QED
      BY <1>0, <3>1, <3>2 DEF NamesAreKept
  <2> QED
    BY <2>1, <2>2
<1>4. ASSUME NEW r \in Replicas, InsertDefault(r) PROVE NamesAreKept
  BY <1>0, <1>4 DEF InsertDefault, NamesAreKept
<1>5. ASSUME NEW r \in Replicas, InsertDraft(r) PROVE NamesAreKept
  BY <1>0, <1>5 DEF InsertDraft, NamesAreKept
<1>6. ASSUME NEW r \in Replicas, RewriteRow(r) PROVE NamesAreKept
  <2>1. CASE UNCHANGED enterpriseRow
    BY <1>1, <2>1
  <2>2. CASE ~(UNCHANGED enterpriseRow)
    <3>1. ~Fail(r)
      <4>1. GoOn(r) /\ started[r] # 0
        BY <1>6, <2>2, ScriptDomain DEF RewriteRow, UpgradeAt, Running
      <4>2. started[r] \in Nat /\ started'[r] = started[r] + 1
        BY <4>1, ScriptDomain DEF GoOn, UpgradeInv, UpgradeTypes
      <4>3. Fail(r) => started'[r] = 0
        BY DEF Fail, UpgradeInv, UpgradeTypes
      <4> QED
        BY <4>2, <4>3
    <3>2. \A e \in MigratedEnterprises :
            \/ enterpriseRow'[e] = enterpriseRow[e]
            \/ /\ enterpriseRow[e] # NoRow /\ enterpriseRow'[e] # NoRow
               /\ \/ enterpriseRow[e].print = Pending /\ enterpriseRow'[e].count = members[e]
                  \/ enterpriseRow[e].count = 0 /\ enterpriseRow'[e].count = 0
      BY <1>6, <3>1, RewriteRows
    <3> QED
      BY <3>2 DEF NamesAreKept
  <2> QED
    BY <2>1, <2>2
<1>7. ASSUME NEW r \in Replicas, OpenStore(r) PROVE NamesAreKept
  <2>1. CASE UNCHANGED enterpriseRow
    BY <1>1, <2>1
  <2>2. CASE ~(UNCHANGED enterpriseRow)
    BY <1>7, <2>2, OpenRows DEF OpenStore, NamesAreKept
  <2> QED
    BY <2>1, <2>2
<1>8. ASSUME NEW r \in Replicas, NEW e \in MigratedEnterprises, AddMember(r, e) PROVE NamesAreKept
  <2>1. enterpriseRow[e] # NoRow /\ enterpriseRow' = [enterpriseRow EXCEPT ![e].count = @ + 1]
    BY <1>8 DEF AddMember
  <2>2. enterpriseRow[e] \in RowSet
    BY <1>0, <2>1 DEF MaybeRow
  <2> QED
    BY <1>0, <2>1, <2>2 DEF NamesAreKept, RowSet
<1>9. CASE UNCHANGED upgradeVars
  BY <1>1, <1>9 DEF upgradeVars
<1>10. CASE OldAddsMember \/ WriteEvent
  BY <1>1, <1>10 DEF OldAddsMember, WriteEvent
<1> QED
  BY <1>2, <1>3, <1>4, <1>5, <1>6, <1>7, <1>8, <1>9, <1>10 DEF UpgradeNext

-----------------------------------------------------------------------------
(***************************************************************************)
(* The upgrades of the SQLite databases (ServiceDb).                       *)
(***************************************************************************)

DbTypes ==
  /\ opener \in [Openers -> [at: Nat, legacy: BOOLEAN]]
  /\ dbRows = [t \in DbTables |-> dbRows[t]] /\ children = [t \in DbTables |-> children[t]]

(* An opener of the Proxy's database that is past the upgrade of the accounts,
   or has found it done, left it recorded; and a credential that was stored is
   stored after that. *)
DbInv ==
  /\ DbTypes
  /\ service = "proxy" => \A o \in Openers :
       opener[o].at > 2 \/ (opener[o].at = 2 /\ ~opener[o].legacy) => "oauth" \in version
  /\ dbToken = "stored" => "oauth" \in version

DataIsKept ==
  /\ \A t \in DbTables : children[t] \cap dbRows'[t] \subseteq children'[t]
  /\ \A t \in DbTables : dbRows'[t] # dbRows[t] => \E o \in Openers : Serving(o)
  /\ dbToken = "stored" => dbToken' = "stored"

LEMMA ProxyText ==
  /\ Len(ProxyProgram) = 7
  /\ ProxyProgram[1].op = "oauth read" /\ ProxyProgram[2].op = "oauth write"
<1>1. Other("oauth read").op = "oauth read" /\ Other("oauth write").op = "oauth write"
  BY DEF Other, DbOp
<1> QED
  BY <1>1 DEF ProxyProgram

LEMMA DbStarts == DbInit => DbInv
<1> SUFFICES ASSUME DbInit PROVE DbInv
  OBVIOUS
<1>1. opener = [o \in Openers |-> [at |-> 0, legacy |-> FALSE]]
  BY DEF DbInit
<1>4. opener \in [Openers -> [at: Nat, legacy: BOOLEAN]]
  BY <1>1
<1>5. dbRows = [t \in DbTables |-> dbRows[t]]
  BY DEF DbInit
<1>6. children = [t \in DbTables |-> children[t]]
  BY DEF DbInit
<1>2. DbTypes
  BY <1>4, <1>5, <1>6 DEF DbTypes
<1>3. dbToken # "stored"
  BY DEF DbInit
<1> QED
  BY <1>1, <1>2, <1>3 DEF DbInv

(* The opener o is at its next statement, or closed; the others are where they were. *)
Moves(o) ==
  /\ opener' \in [Openers -> [at: Nat, legacy: BOOLEAN]]
  /\ \A p \in Openers \ {o} : opener'[p] = opener[p]
  /\ \/ opener'[o].at \in {0, 1}
     \/ opener'[o].at = opener[o].at + 1
     
LEMMA OpenerMoves ==
  ASSUME DbInv, NEW o \in Openers
  PROVE  /\ Advance(o) => Moves(o) /\ opener'[o].at = opener[o].at + 1
         /\ CloseDb(o) => Moves(o) /\ opener'[o].at = 0
         /\ \A b \in BOOLEAN : opener' = [opener EXCEPT ![o] = [at |-> @.at + 1, legacy |-> b]] =>
              Moves(o) /\ opener'[o].at = opener[o].at + 1 /\ opener'[o].legacy = b
<1>1. opener \in [Openers -> [at: Nat, legacy: BOOLEAN]]
  BY DEF DbInv, DbTypes
<1>2. Advance(o) => Moves(o) /\ opener'[o].at = opener[o].at + 1
  BY <1>1 DEF Advance, Moves
<1>3. CloseDb(o) => Moves(o) /\ opener'[o].at = 0
  BY <1>1 DEF CloseDb, Moves
<1>4. ASSUME NEW b \in BOOLEAN, opener' = [opener EXCEPT ![o] = [at |-> @.at + 1, legacy |-> b]]
      PROVE  Moves(o) /\ opener'[o].at = opener[o].at + 1 /\ opener'[o].legacy = b
  <2>1. [at |-> opener[o].at + 1, legacy |-> b] \in [at: Nat, legacy: BOOLEAN]
    BY <1>1
  <2> QED
    BY <1>1, <1>4, <2>1 DEF Moves
<1> QED
  BY <1>2, <1>3, <1>4

(* The invariant after a step of o that keeps the rows. *)
LEMMA MovesKeep ==
  ASSUME DbInv, NEW o \in Openers, Moves(o), version \subseteq version', UNCHANGED <<service, dbRows>>,
         children' = [t \in DbTables |-> children'[t]],
         dbToken' = "stored" => dbToken = "stored",
         service = "proxy" /\ opener[o].at = 1 /\ opener'[o].at = 2 /\ ~opener'[o].legacy => "oauth" \in version',
         service = "proxy" /\ opener[o].at = 2 /\ opener'[o].at = 3 => "oauth" \in version'
  PROVE  DbInv'
<1>1. DbTypes'
  BY DEF DbInv, DbTypes, Moves
<1>2. ASSUME service = "proxy", NEW p \in Openers, opener'[p].at > 2 \/ (opener'[p].at = 2 /\ ~opener'[p].legacy)
      PROVE  "oauth" \in version'
  <2>1. CASE p # o
    BY <1>2, <2>1 DEF DbInv, Moves
  <2>2. CASE p = o
    <3>1. opener[o].at \in Nat /\ opener'[o].at = opener[o].at + 1
      BY <1>2, <2>2 DEF DbInv, DbTypes, Moves
    <3>2. opener[o].at > 2 \/ opener[o].at = 2 \/ (opener[o].at = 1 /\ opener'[o].at = 2 /\ ~opener'[o].legacy)
      BY <1>2, <2>2, <3>1
    <3>3. CASE opener[o].at > 2
      BY <1>2, <3>3 DEF DbInv
    <3> QED
      BY <1>2, <3>1, <3>2, <3>3
  <2> QED
    BY <2>1, <2>2
<1> QED
  BY <1>1, <1>2 DEF DbInv

(* What is done at the first two statements of the Proxy. *)
LEMMA ProxyAt ==
  ASSUME NEW o \in Openers, NEW x, Doing(o, x), service = "proxy"
  PROVE  /\ opener[o].at = 1 => x = "oauth read"
         /\ opener[o].at = 2 => x = "oauth write"
<1>1. Program = ProxyProgram
  BY DEF Program
<1> QED
  BY <1>1, ProxyText DEF Doing

LEMMA DbKeeps == ASSUME DbInv, [DbNext]_dbVars PROVE DbInv' /\ DataIsKept
<1>0. /\ opener \in [Openers -> [at: Nat, legacy: BOOLEAN]]
      /\ dbRows = [t \in DbTables |-> dbRows[t]] /\ children = [t \in DbTables |-> children[t]]
  BY DEF DbInv, DbTypes
<1>1. ASSUME NEW o \in Openers, OpenDb(o) \/ OpenerDies(o) PROVE DbInv' /\ DataIsKept
  <2>1. /\ Moves(o) /\ opener'[o].at \in {0, 1}
    <3>1. CASE OpenDb(o)
      BY <1>0, <3>1 DEF OpenDb, Moves
    <3>2. CASE OpenerDies(o)
      BY <3>2, OpenerMoves DEF OpenerDies
    <3> QED
      BY <1>1, <3>1, <3>2
  <2>2. UNCHANGED <<service, version, dbRows, children, dbToken>>
    BY <1>1 DEF OpenDb, OpenerDies
  <2> QED
    BY <1>0, <2>1, <2>2, MovesKeep DEF DataIsKept
<1>2. ASSUME NEW o \in Openers, NEW x, Doing(o, x), x \notin {"oauth read", "oauth write"}, Moves(o),
             version \subseteq version', UNCHANGED <<service, dbRows, dbToken>>,
             children' = [t \in DbTables |-> children'[t]]
      PROVE  DbInv'
  <2>1. service = "proxy" => opener[o].at # 1 /\ opener[o].at # 2
    BY <1>2, ProxyAt
  <2> QED
    BY <1>2, <2>1, MovesKeep
<1>3. ASSUME NEW o \in Openers, AddSeatColumn(o) PROVE DbInv' /\ DataIsKept
  <2>1. /\ Doing(o, "seat column") /\ UNCHANGED <<service, version, dbRows, children, dbToken>>
        /\ opener' = [opener EXCEPT ![o] = [at |-> @.at + 1, legacy |-> ~seatColumn]]
    BY <1>3 DEF AddSeatColumn
  <2>2. (~seatColumn) \in BOOLEAN
    OBVIOUS
  <2>3. Moves(o)
    BY <2>1, <2>2, OpenerMoves
  <2>4. DbInv'
    BY <1>0, <1>2, <2>1, <2>3
  <2> QED
    BY <2>1, <2>4 DEF DataIsKept
<1>4. ASSUME NEW o \in Openers, RefuseOldPlans(o) PROVE DbInv' /\ DataIsKept
  <2>1. /\ Doing(o, "seat conflicts") /\ UNCHANGED <<service, version, dbRows, children, dbToken>> /\ Advance(o)
    BY <1>4 DEF RefuseOldPlans
  <2>2. DbInv'
    BY <1>0, <1>2, <2>1, OpenerMoves
  <2> QED
    BY <2>1, <2>2 DEF DataIsKept
<1>5. ASSUME NEW o \in Openers, BackfillAttempts(o) PROVE DbInv' /\ DataIsKept
  <2>1. /\ Doing(o, "attempts") /\ UNCHANGED <<service, version, dbRows, dbToken>> /\ Advance(o)
        /\ children' = [children EXCEPT !["tasks"] = dbRows["tasks"]]
    BY <1>5 DEF BackfillAttempts
  <2>2. children' = [t \in DbTables |-> children'[t]]
    BY <1>0, <2>1
  <2>3. DbInv'
    BY <1>2, <2>1, <2>2, OpenerMoves
  <2>4. \A t \in DbTables : children[t] \cap dbRows'[t] \subseteq children'[t]
    BY <1>0, <2>1
  <2> QED
    BY <2>1, <2>3, <2>4 DEF DataIsKept
<1>6. ASSUME NEW o \in Openers, ReadOauthSchema(o) PROVE DbInv' /\ DataIsKept
  <2>1. /\ Doing(o, "oauth read") /\ UNCHANGED <<service, version, dbRows, children, dbToken>>
        /\ opener' = [opener EXCEPT ![o] = [at |-> @.at + 1, legacy |-> "oauth" \notin version]]
    BY <1>6 DEF ReadOauthSchema
  <2>2. ("oauth" \notin version) \in BOOLEAN
    OBVIOUS
  <2>3. Moves(o) /\ opener'[o].legacy = ("oauth" \notin version)
    BY <2>1, <2>2, OpenerMoves
  <2>4. service = "proxy" => opener[o].at # 2
    BY <2>1, ProxyAt
  <2>5. DbInv'
    BY <1>0, <2>1, <2>3, <2>4, MovesKeep
  <2> QED
    BY <2>1, <2>5 DEF DataIsKept
<1>7. ASSUME NEW o \in Openers, CopyWithoutCredentials(o) PROVE DbInv' /\ DataIsKept
  <2>1. Doing(o, "oauth write") /\ UNCHANGED <<service, dbRows, children>>
    BY <1>7 DEF CopyWithoutCredentials
  <2>2. CASE CloseDb(o) /\ UNCHANGED <<version, dbToken>>
    <3>1. Moves(o) /\ opener'[o].at = 0
      BY <2>2, OpenerMoves
    <3>2. opener'[o].at # 2 /\ opener'[o].at # 3
      BY <3>1
    <3>3. DbInv'
      BY <1>0, <2>1, <2>2, <3>1, <3>2, MovesKeep
    <3> QED
      BY <2>1, <2>2, <3>3 DEF DataIsKept
  <2>3. CASE /\ ~(opener[o].legacy /\ "oauth" \in version) /\ Advance(o)
             /\ version' = IF opener[o].legacy THEN version \cup {"oauth"} ELSE version
             /\ dbToken' = IF opener[o].legacy THEN "missing" ELSE dbToken
    <3>1. Moves(o) /\ opener'[o].at = opener[o].at + 1
      BY <2>3, OpenerMoves
    <3>2. dbToken = "stored" => dbToken' = "stored"
      BY <2>3 DEF DbInv
    <3>3. dbToken' = "stored" => dbToken = "stored"
      BY <2>3
    <3>4. service = "proxy" => opener[o].at # 1
      <4>1. "oauth write" # "oauth read"
        OBVIOUS
      <4> QED
        BY <2>1, <4>1, ProxyAt
    <3>5. service = "proxy" /\ opener[o].at = 2 => "oauth" \in version'
      BY <2>3 DEF DbInv
    <3>6. DbInv'
      BY <1>0, <2>1, <2>3, <3>1, <3>3, <3>4, <3>5, MovesKeep
    <3> QED
      BY <2>1, <3>2, <3>6 DEF DataIsKept
  <2> QED
    BY <1>7, <2>2, <2>3 DEF CopyWithoutCredentials
<1>8. ASSUME NEW o \in Openers, applyStep(o) PROVE DbInv' /\ DataIsKept
  <2>1. /\ Doing(o, "step") /\ UNCHANGED <<service, dbRows, dbToken>> /\ Advance(o) /\ version \subseteq version'
    BY <1>8 DEF applyStep
  <2>2. children' = children
    BY <1>0, <1>8 DEF applyStep, RebuiltChildren
  <2>3. DbInv'
    BY <1>0, <1>2, <2>1, <2>2, OpenerMoves
  <2> QED
    BY <2>1, <2>2, <2>3 DEF DataIsKept
<1>9. ASSUME NEW o \in Openers, syncEnterprises(o) PROVE DbInv' /\ DataIsKept
  <2>1. /\ Doing(o, "sync") /\ UNCHANGED <<service, version, dbRows, children, dbToken>>
        /\ Advance(o) \/ CloseDb(o)
    BY <1>9 DEF syncEnterprises
  <2>2. DbInv'
    BY <1>0, <1>2, <2>1, OpenerMoves
  <2> QED
    BY <2>1, <2>2 DEF DataIsKept
<1>10. ASSUME NEW o \in Openers, NEW t \in DbTables, NEW row \in DbRows, InsertRow(o, t, row) PROVE DbInv' /\ DataIsKept
  <2>1. /\ Serving(o) /\ UNCHANGED <<service, version, children, dbToken, opener>>
        /\ dbRows' = [dbRows EXCEPT ![t] = @ \cup {row}]
    BY <1>10 DEF InsertRow
  <2>2. dbRows' = [u \in DbTables |-> dbRows'[u]]
    BY <1>0, <2>1
  <2> QED
    BY <1>0, <2>1, <2>2 DEF DbInv, DbTypes, DataIsKept
<1>11. ASSUME NEW o \in Openers, NEW t \in DbTables, NEW row \in DbRows, DeleteRow(o, t, row) PROVE DbInv' /\ DataIsKept
  <2>1. /\ Serving(o) /\ UNCHANGED <<service, version, dbToken, opener>>
        /\ dbRows' = [dbRows EXCEPT ![t] = @ \ {row}]
        /\ children' = [children EXCEPT ![t] = @ \ {row}]
    BY <1>11 DEF DeleteRow
  <2>2. dbRows' = [u \in DbTables |-> dbRows'[u]] /\ children' = [u \in DbTables |-> children'[u]]
    BY <1>0, <2>1
  <2>3. \A u \in DbTables : children[u] \cap dbRows'[u] \subseteq children'[u]
    BY <1>0, <2>1
  <2> QED
    BY <2>1, <2>2, <2>3 DEF DbInv, DbTypes, DataIsKept
<1>12. ASSUME NEW o \in Openers, StoreToken(o) PROVE DbInv' /\ DataIsKept
  <2>1. Serving(o) /\ service = "proxy" /\ dbToken' = "stored" /\ UNCHANGED <<service, version, dbRows, children, opener>>
    BY <1>12 DEF StoreToken
  <2>2. opener[o].at = 8
    <3>1. Program = ProxyProgram
      BY <2>1 DEF Program
    <3>2. Len(ProxyProgram) = 7
      BY ProxyText
    <3> QED
      BY <2>1, <3>1, <3>2 DEF Serving
  <2>3. "oauth" \in version
    BY <2>1, <2>2 DEF DbInv
  <2> QED
    BY <2>1, <2>3 DEF DbInv, DbTypes, DataIsKept
<1>13. CASE UNCHANGED dbVars
  BY <1>13 DEF dbVars, DbInv, DbTypes, DataIsKept
<1> QED
  BY <1>1, <1>3, <1>4, <1>5, <1>6, <1>7, <1>8, <1>9, <1>10, <1>11, <1>12, <1>13 DEF DbNext

-----------------------------------------------------------------------------
(* Whichever replicas and openers die on the way and however they overlap:
   a step of the MySQL upgrade that is recorded is applied in full, the counts
   of the enterprises agree with the rows once a replica serves, replicas that
   serve share their pool settings, an enterprise with members keeps its
   fingerprint, and the SQLite upgrades lose no rows and no stored credential
   (runMysqlMigrations, syncMysqlEnterprises, runMysqlPoolMigrations, and
   runEnterpriseMigrations with the baselines before it). *)
THEOREM UpgradesStaySafe == MCSpec => UpgradesAreSafe
<1> DEFINE MCVars == <<part, vars, upgradeVars, dbVars>>
<1>1. MCInit => UpgradeInv /\ DbInv
  BY UpgradeStarts, DbStarts DEF MCInit
<1>2. [MCNext]_MCVars => [UpgradeNext]_upgradeVars /\ [DbNext]_dbVars
  BY DEF MCNext
<1>3. UpgradeInv /\ DbInv /\ [UpgradeNext]_upgradeVars /\ [DbNext]_dbVars => (UpgradeInv /\ DbInv)'
  BY UpgradeKeeps, DbKeeps
<1>4. UpgradeInv => RecordedMeansApplied /\ InventoryAgrees /\ ReplicasAgree
  BY ReplicasAgreeThen DEF UpgradeInv
<1>5. UpgradeInv /\ [UpgradeNext]_upgradeVars =>
        [\A e \in MigratedEnterprises :
           enterpriseRow[e] # NoRow /\ enterpriseRow[e].count > 0 =>
             enterpriseRow'[e].print = enterpriseRow[e].print \/ enterpriseRow[e].print = Pending]_upgradeVars
  BY StepKeepsNames DEF NamesAreKept
<1>6. DbInv /\ [DbNext]_dbVars =>
        [/\ \A t \in DbTables : children[t] \cap dbRows'[t] \subseteq children'[t]
         /\ \A t \in DbTables : dbRows'[t] # dbRows[t] => \E o \in Openers : Serving(o)
         /\ dbToken = "stored" => dbToken' = "stored"]_dbVars
  BY DbKeeps DEF DataIsKept
<1> QED
  BY <1>1, <1>2, <1>3, <1>4, <1>5, <1>6, PTL
     DEF MCSpec, UpgradesAreSafe, IdentityIsFixed, UpgradeKeepsData
=============================================================================

--------------------------- MODULE UserPoolProofs ---------------------------
(***************************************************************************)
(* Members are never shared: the sharing properties of UserPool hold for   *)
(* every set of callers, members and requests and every duration.          *)
(*                                                                         *)
(* The argument: the rows of the lease and hold tables pair callers and    *)
(* members one to one.  Every transaction either removes rows (leases only *)
(* when no unexpired hold is left on their member) or, in an admission,    *)
(* adds a row for a pair that is already there or for a caller and a       *)
(* member that appear in no row at all.                                    *)
(***************************************************************************)
EXTENDS UserPool, TLAPS

(* An invalidating update keeps every lease on its member. *)
LEMMA CutLeasesFacts ==
  ASSUME now \in Nat, NEW ls \in LeaseTable, NEW M
  PROVE  /\ CutLeases(ls, M) \in LeaseTable
         /\ \A c \in Callers :
              /\ CutLeases(ls, M)[c] = NoLease <=> ls[c] = NoLease
              /\ ls[c] # NoLease => CutLeases(ls, M)[c].member = ls[c].member
<1> DEFINE cut == CutLeases(ls, M)
<1>1. ASSUME NEW c \in Callers, ls[c] # NoLease
      PROVE  /\ cut[c] \in LeaseRow /\ cut[c] # NoLease
             /\ cut[c].member = ls[c].member
  <2>1. ls[c] \in LeaseRow
    BY <1>1 DEF LeaseTable
  <2>2. Earlier(ls[c].expires, now) \in Nat
    BY <2>1 DEF Earlier, LeaseRow
  <2>3. [ls[c] EXCEPT !.expires = Earlier(@, now)] \in LeaseRow
    BY <2>1, <2>2 DEF LeaseRow
  <2>4. [ls[c] EXCEPT !.expires = Earlier(@, now)].member = ls[c].member
    BY <2>1 DEF LeaseRow
  <2> QED
    BY <1>1, <2>1, <2>3, <2>4, AbsentAssumption DEF CutLeases
<1>2. ASSUME NEW c \in Callers, ls[c] = NoLease PROVE cut[c] = NoLease
  BY <1>2 DEF CutLeases
<1>3. cut \in LeaseTable
  <2>1. cut = [c \in Callers |-> cut[c]]
    BY DEF CutLeases
  <2>2. \A c \in Callers : cut[c] \in LeaseRow \cup {NoLease}
    BY <1>1, <1>2
  <2> QED
    BY <2>1, <2>2 DEF LeaseTable
<1> QED
  BY <1>1, <1>2, <1>3

(* reclaim() only removes holds that have expired. *)
LEMMA ReclaimedHoldsFacts ==
  ASSUME now \in Nat, NEW hs \in HoldTable
  PROVE  /\ ReclaimedHolds(hs) \in HoldTable
         /\ \A r \in Requests :
              /\ ReclaimedHolds(hs)[r] # NoHold
                   => ReclaimedHolds(hs)[r] = hs[r] /\ hs[r].expires > now
              /\ hs[r] # NoHold /\ hs[r].expires > now => ReclaimedHolds(hs)[r] = hs[r]
<1>1. ReclaimedHolds(hs) \in HoldTable
  BY DEF ReclaimedHolds, HoldTable
<1>2. ASSUME NEW r \in Requests, hs[r] # NoHold PROVE hs[r].expires \in Nat
  BY <1>2 DEF HoldTable, HoldRow
<1> QED
  BY <1>1, <1>2 DEF ReclaimedHolds

(* reclaim() keeps every lease on its member, and deletes no lease whose
   member an unexpired hold pins. *)
LEMMA ReclaimedLeasesFacts ==
  ASSUME now \in Nat, NEW ls \in LeaseTable, NEW hs \in HoldTable
  PROVE  /\ ReclaimedLeases(ls, hs) \in LeaseTable
         /\ \A c \in Callers :
              /\ ReclaimedLeases(ls, hs)[c] # NoLease
                   => ls[c] # NoLease /\ ReclaimedLeases(ls, hs)[c].member = ls[c].member
              /\ ls[c] # NoLease /\ HasHolds(hs, ls[c].member)
                   => ReclaimedLeases(ls, hs)[c] # NoLease
<1> DEFINE cut == CutLeases(ls, FailedByReclaim)
           rl == ReclaimedLeases(ls, hs)
<1>1. /\ cut \in LeaseTable
      /\ \A c \in Callers : /\ cut[c] = NoLease <=> ls[c] = NoLease
                            /\ ls[c] # NoLease => cut[c].member = ls[c].member
  BY CutLeasesFacts
<1> HIDE DEF cut
<1>2. rl = [c \in Callers |->
      IF /\ cut[c] # NoLease
         /\ cut[c].expires <= now
         /\ ReclaimedState[cut[c].member] # "cooling"
         /\ ~HasHolds(hs, cut[c].member)
      THEN NoLease ELSE cut[c]]
  BY DEF ReclaimedLeases, cut
<1> HIDE DEF rl
<1>3. rl \in LeaseTable
  BY <1>1, <1>2 DEF LeaseTable
<1>4. \A c \in Callers :
        /\ rl[c] # NoLease => rl[c] = cut[c]
        /\ cut[c] # NoLease /\ HasHolds(hs, cut[c].member) => rl[c] = cut[c]
  BY <1>2
<1> QED
  BY <1>1, <1>3, <1>4 DEF rl

(* Removing rows keeps the pairing, if no inference hold loses its lease. *)
LEMMA ShrinkPreserves ==
  ASSUME NEW ls \in LeaseTable, NEW hs \in HoldTable,
         NEW ls2 \in LeaseTable, NEW hs2 \in HoldTable,
         OneToOneIn(ls, hs), HoldHasLeaseIn(ls, hs),
         \A c \in Callers : ls2[c] # NoLease => ls[c] # NoLease /\ ls2[c].member = ls[c].member,
         \A r \in Requests : hs2[r] # NoHold => hs2[r] = hs[r],
         \A r \in Requests : hs2[r] # NoHold /\ hs2[r].kind = "lease" => ls2[hs2[r].caller] # NoLease
  PROVE  OneToOneIn(ls2, hs2) /\ HoldHasLeaseIn(ls2, hs2)
<1>1. ASSUME NEW c \in Callers, NEW m \in Members, BoundIn(ls2, hs2, c, m)
      PROVE  BoundIn(ls, hs, c, m)
  BY <1>1 DEF BoundIn
<1>2. OneToOneIn(ls2, hs2)
  BY <1>1 DEF OneToOneIn
<1>3. HoldHasLeaseIn(ls2, hs2)
  <2> SUFFICES ASSUME NEW r \in Requests, hs2[r] # NoHold, hs2[r].kind = "lease"
               PROVE  /\ ls2[hs2[r].caller] # NoLease
                      /\ ls2[hs2[r].caller].member = hs2[r].member
    BY DEF HoldHasLeaseIn
  <2>1. hs2[r] = hs[r] /\ hs[r].caller \in Callers
    BY DEF HoldTable, HoldRow
  <2>2. ls[hs[r].caller].member = hs[r].member
    BY <2>1 DEF HoldHasLeaseIn
  <2> QED
    BY <2>1, <2>2
<1> QED
  BY <1>2, <1>3

(* Adding a hold of caller c on member m, and possibly a lease for them,
   keeps the pairing when every bound pair agrees with <<c, m>>. *)
LEMMA GrowPreserves ==
  ASSUME NEW ls \in LeaseTable, NEW hs \in HoldTable,
         NEW ls2 \in LeaseTable, NEW hs2 \in HoldTable,
         NEW c \in Callers, NEW m \in Members, NEW r \in Requests,
         OneToOneIn(ls, hs), HoldHasLeaseIn(ls, hs),
         \A d \in Callers : d # c => ls2[d] = ls[d],
         ls2[c] = ls[c] \/ (ls2[c] # NoLease /\ ls2[c].member = m),
         ls[c] # NoLease => ls2[c] # NoLease,
         \A q \in Requests : q # r => hs2[q] = hs[q],
         hs2[r] # NoHold, hs2[r].caller = c, hs2[r].member = m,
         hs2[r].kind = "lease" => ls2[c] # NoLease,
         \A d \in Callers, n \in Members : BoundIn(ls, hs, d, n) => (d = c <=> n = m)
  PROVE  OneToOneIn(ls2, hs2) /\ HoldHasLeaseIn(ls2, hs2)
<1>1. ASSUME NEW d \in Callers, NEW n \in Members, BoundIn(ls2, hs2, d, n)
      PROVE  BoundIn(ls, hs, d, n) \/ (d = c /\ n = m)
  BY <1>1 DEF BoundIn
<1>2. OneToOneIn(ls2, hs2)
  BY <1>1 DEF OneToOneIn
<1>3. HoldHasLeaseIn(ls2, hs2)
  <2> SUFFICES ASSUME NEW q \in Requests, hs2[q] # NoHold, hs2[q].kind = "lease"
               PROVE  /\ ls2[hs2[q].caller] # NoLease
                      /\ ls2[hs2[q].caller].member = hs2[q].member
    BY DEF HoldHasLeaseIn
  <2>1. CASE q = r
    <3>1. ls2[c] # NoLease /\ ls2[c].member \in Members
      BY <2>1 DEF LeaseTable, LeaseRow
    <3>2. BoundIn(ls2, hs2, c, ls2[c].member)
      BY <3>1 DEF BoundIn
    <3>3. BoundIn(ls2, hs2, c, m)
      BY DEF BoundIn
    <3> QED
      BY <2>1, <1>2, <3>1, <3>2, <3>3 DEF OneToOneIn
  <2>2. CASE q # r
    <3> DEFINE d == hs[q].caller
    <3>1. hs2[q] = hs[q] /\ d \in Callers /\ hs[q].member \in Members
      BY <2>2 DEF HoldTable, HoldRow
    <3>2. ls[d] # NoLease /\ ls[d].member = hs[q].member
      BY <3>1 DEF HoldHasLeaseIn
    <3>3. BoundIn(ls, hs, d, hs[q].member)
      BY <3>2 DEF BoundIn
    <3>4. CASE d = c
      BY <3>1, <3>2, <3>3, <3>4
    <3>5. CASE d # c
      BY <3>1, <3>2, <3>5
    <3> QED
      BY <3>4, <3>5
  <2> QED
    BY <2>1, <2>2
<1> QED
  BY <1>2, <1>3

(* The member rows keep their types through reclaim(). *)
LEMMA ReclaimMembersType ==
  ASSUME TypeOK, ReclaimMembers
  PROVE  /\ state' \in [Members -> MemberStates]
         /\ stage' \in [Members -> Stages]
         /\ generation' \in [Members -> Nat]
         /\ attempt' \in [Members -> Nat]
         /\ attempts' \in [Members -> Nat]
         /\ manual' \in [Members -> BOOLEAN]
         /\ retryAt' \in [Members -> Nat]
         /\ coolUntil' \in [Members -> Nat]
         /\ verified' \in [Members -> BOOLEAN]
         /\ reauthCount' \in [Members -> 0..ReauthMaxCycles]
         /\ reauthAt' \in [Members -> Nat]
<1> USE DEF TypeOK, ReclaimMembers
<1>1. state' \in [Members -> MemberStates]
  BY DEF ReclaimedState, MemberStates
<1>2. stage' \in [Members -> Stages]
  BY DEF ReclaimedStage, Stages
<1>3. generation' \in [Members -> Nat]
  BY DEF ReclaimedGeneration
<1>4. retryAt' \in [Members -> Nat]
  BY DurationAssumption DEF ReclaimedRetryAt
<1>5. coolUntil' \in [Members -> Nat]
  OBVIOUS
<1>6. manual' \in [Members -> BOOLEAN]
  OBVIOUS
<1> QED
  BY <1>1, <1>2, <1>3, <1>4, <1>5, <1>6

(* reclaim() keeps the types of the three tables it cleans. *)
LEMMA ReclaimTablesType ==
  ASSUME TypeOK
  PROVE  /\ ReclaimedHolds(hold) \in HoldTable
         /\ ReclaimedLeases(lease, hold) \in LeaseTable
         /\ ReclaimedCooldown \in [Callers -> Nat]
<1>1. now \in Nat /\ lease \in LeaseTable /\ hold \in HoldTable /\ cooldown \in [Callers -> Nat]
  BY DEF TypeOK
<1>2. ReclaimedCooldown \in [Callers -> Nat]
  BY <1>1 DEF ReclaimedCooldown
<1> QED
  BY <1>1, <1>2, ReclaimedHoldsFacts, ReclaimedLeasesFacts

(* What an admission writes has the type of its table. *)
LEMMA AdmitType ==
  ASSUME TypeOK, NEW kind \in {"lease", "catalog"}, NEW c \in Callers, NEW r \in Requests,
         NEW m \in Members, Admit(kind, c, r, m), lease' \in LeaseTable
  PROVE  TypeOK'
<1>1. /\ ReclaimMembers
      /\ hold' = [ReclaimedHolds(hold) EXCEPT ![r] = NewHold(kind, c, m)]
      /\ handle' = [handle EXCEPT ![r] = NewHandle(kind, c, m)]
      /\ cooldown' = ReclaimedCooldown
      /\ UNCHANGED <<now, credVars, enterprise, job, proven>>
  BY DEF Admit
<1>2. now + RequestTimeout + HoldDrain \in Nat /\ ReclaimedGeneration[m] \in Nat
  BY DurationAssumption DEF TypeOK, ReclaimedGeneration
<1>3. NewHold(kind, c, m) \in HoldRow /\ NewHandle(kind, c, m) \in Handle
  BY <1>2 DEF NewHold, NewHandle, HoldRow, Handle
<1>4. hold' \in HoldTable
  BY <1>1, <1>3, ReclaimTablesType DEF HoldTable
<1>5. handle' \in [Requests -> Handle \cup {NoHandle}]
  BY <1>1, <1>3 DEF TypeOK
<1> QED
  BY <1>1, <1>4, <1>5, ReclaimMembersType, ReclaimTablesType DEF TypeOK, credVars

(* An available member is a member. *)
LEMMA AvailableAreMembers ==
  ASSUME NEW ls, NEW hs \in HoldTable, NEW c
  PROVE  AvailableMembers(ls, hs, c) \subseteq Members
BY DEF AvailableMembers, HoldTable, HoldRow

(* Requests keep the types. *)
LEMMA RequestType ==
  ASSUME TypeOK, RequestNext
  PROVE  TypeOK'
<1> DEFINE ls == ReclaimedLeases(lease, hold)
<1>0. ls \in LeaseTable /\ ReclaimedHolds(hold) \in HoldTable
  BY ReclaimTablesType
<1> HIDE DEF ls
<1>1. PICK r \in Requests :
    \/ \E c \in Callers : AcquireLeased(c, r) \/ AcquireNew(c, r) \/ AcquireCatalog(c, r)
    \/ Authorize(r) \/ RecoverUnauthorized(r) \/ Cool(r) \/ Quarantine(r)
    \/ \E success \in BOOLEAN : Finish(r, success)
    \/ LoseHandle(r)
  BY DEF RequestNext
<1>2. ASSUME NEW c \in Callers, AcquireLeased(c, r) PROVE TypeOK'
  <2>1. ls[c] \in LeaseRow /\ Admit("lease", c, r, ls[c].member) /\ lease' = ls
    BY <1>0, <1>2 DEF AcquireLeased, ls, LeaseTable
  <2>2. ls[c].member \in Members
    BY <2>1 DEF LeaseRow
  <2> QED
    BY <1>0, <2>1, <2>2, AdmitType
<1>3. ASSUME NEW c \in Callers, AcquireNew(c, r) PROVE TypeOK'
  <2>1. PICK m \in AvailableMembers(ls, ReclaimedHolds(hold), c) :
           Admit("lease", c, r, m) /\ lease' = [ls EXCEPT ![c] = NewLease(m)]
    BY <1>3 DEF AcquireNew, ls
  <2>2. m \in Members
    BY <1>0, AvailableAreMembers
  <2>3. NewLease(m) \in LeaseRow
    BY <2>2, DurationAssumption DEF NewLease, LeaseRow, TypeOK, ReclaimedGeneration
  <2>4. lease' \in LeaseTable
    BY <1>0, <2>1, <2>3 DEF LeaseTable
  <2> QED
    BY <2>1, <2>2, <2>4, AdmitType
<1>4. ASSUME NEW c \in Callers, AcquireCatalog(c, r) PROVE TypeOK'
  <2>1. lease' = ls
    BY <1>4 DEF AcquireCatalog, ls
  <2>2. CASE ls[c] # NoLease /\ Admit("catalog", c, r, ls[c].member)
    <3>1. ls[c].member \in Members
      BY <1>0, <2>2 DEF LeaseTable, LeaseRow
    <3> QED
      BY <1>0, <2>1, <2>2, <3>1, AdmitType
  <2>3. CASE \E m \in AvailableMembers(ls, ReclaimedHolds(hold), c) : Admit("catalog", c, r, m)
    BY <1>0, <2>1, <2>3, AvailableAreMembers, AdmitType
  <2> QED
    BY <1>4, <2>2, <2>3 DEF AcquireCatalog, ls
<1>5. ASSUME Authorize(r) PROVE TypeOK'
  <2>1. handle[r] \in Handle /\ handle[r].member \in Members
    BY <1>5 DEF Authorize, TypeOK, Handle
  <2>2. [handle[r] EXCEPT !.token = token[handle[r].member]] \in Handle
    BY <2>1 DEF TypeOK, Handle
  <2>3. handle' \in [Requests -> Handle \cup {NoHandle}]
    BY <1>5, <2>2 DEF Authorize, TypeOK
  <2> QED
    BY <1>5, <2>3 DEF Authorize, TypeOK, memberVars, credVars, leaseVars
<1>6. ASSUME handle[r] # NoHandle PROVE handle[r] \in Handle /\ handle[r].member \in Members
  BY <1>6 DEF TypeOK, Handle
<1>7. \A m : CutLeases(lease, {m}) \in LeaseTable
  BY CutLeasesFacts DEF TypeOK
<1>8. ASSUME RecoverUnauthorized(r) PROVE TypeOK'
  <2> DEFINE m == handle[r].member
             reset == reauthAt[m] = 0 \/ now - reauthAt[m] >= ReauthWindow
             count == IF reset THEN 0 ELSE reauthCount[m]
             exhausted == count >= ReauthMaxCycles
  <2>1. m \in Members
    BY <1>6, <1>8 DEF RecoverUnauthorized
  <2>2. /\ count \in 0..ReauthMaxCycles
        /\ (IF exhausted THEN count ELSE count + 1) \in 0..ReauthMaxCycles
    BY <2>1, DurationAssumption DEF TypeOK
  <2>3. reauthCount' \in [Members -> 0..ReauthMaxCycles]
    BY <1>8, <2>1, <2>2 DEF RecoverUnauthorized, TypeOK
  <2>4. reauthAt' \in [Members -> Nat] /\ attempts' \in [Members -> Nat]
    BY <1>8, <2>1 DEF RecoverUnauthorized, TypeOK, AttemptLimit
  <2>5. /\ state' \in [Members -> MemberStates] /\ stage' \in [Members -> Stages]
        /\ status' \in [Members -> OauthStatuses] /\ token' \in [Members -> Nat]
    BY <1>8 DEF RecoverUnauthorized, CredentialFence, TypeOK, MemberStates, Stages, OauthStatuses
  <2>6. /\ generation' \in [Members -> Nat] /\ attempt' \in [Members -> Nat]
        /\ retryAt' \in [Members -> Nat]
    BY <1>8, <2>1 DEF RecoverUnauthorized, TypeOK
  <2>7. manual' \in [Members -> BOOLEAN] /\ verified' \in [Members -> BOOLEAN]
    BY <1>8 DEF RecoverUnauthorized, TypeOK
  <2>8. lease' \in LeaseTable /\ UNCHANGED <<now, coolUntil, hold, cooldown, enterprise, handle, job, proven>>
    BY <1>7, <1>8 DEF RecoverUnauthorized
  <2> QED
    BY <2>3, <2>4, <2>5, <2>6, <2>7, <2>8 DEF TypeOK
<1>9. ASSUME Cool(r) PROVE TypeOK'
  <2> DEFINE m == handle[r].member
  <2>1. m \in Members
    BY <1>6, <1>9 DEF Cool
  <2>2. Later(coolUntil[m], now + CoolTime) \in Nat
    BY <2>1, DurationAssumption DEF TypeOK, Later
  <2>3. coolUntil' \in [Members -> Nat] /\ state' \in [Members -> MemberStates]
    BY <1>9, <2>2 DEF Cool, TypeOK, MemberStates
  <2>4. cooldown' \in [Callers -> Nat]
    BY <1>9, <2>2 DEF Cool, TypeOK, Later
  <2> QED
    BY <1>9, <2>3, <2>4 DEF Cool, TypeOK, credVars
<1>10. ASSUME Quarantine(r) PROVE TypeOK'
  <2> DEFINE m == handle[r].member
  <2>1. m \in Members
    BY <1>6, <1>10 DEF Quarantine
  <2>2. /\ generation' \in [Members -> Nat] /\ attempts' \in [Members -> Nat]
        /\ retryAt' \in [Members -> Nat]
    BY <1>10, <2>1, DurationAssumption DEF Quarantine, TypeOK, AttemptLimit
  <2>3. state' \in [Members -> MemberStates] /\ manual' \in [Members -> BOOLEAN]
    BY <1>10 DEF Quarantine, TypeOK, MemberStates
  <2> QED
    BY <1>7, <1>10, <2>2, <2>3 DEF Quarantine, TypeOK, credVars
<1>11. ASSUME NEW success \in BOOLEAN, Finish(r, success) PROVE TypeOK'
  <2> DEFINE hs == [hold EXCEPT ![r] = NoHold]
             rn == RenewedLeases(r, success)
  <2>1. handle' \in [Requests -> Handle \cup {NoHandle}]
    BY <1>11 DEF Finish, TypeOK
  <2>2. hs \in HoldTable
    BY DEF TypeOK, HoldTable
  <2>3. rn \in LeaseTable
    <3>1. CASE rn = lease
      BY <3>1 DEF TypeOK
    <3>2. CASE rn # lease
      <4> DEFINE d == handle[r].caller
                 new == [lease[d] EXCEPT !.phase = "active", !.expires = now + LeaseTTL]
      <4>1. d \in Callers /\ lease \in LeaseTable /\ now + LeaseTTL \in Nat
        BY <1>11, DurationAssumption DEF Finish, TypeOK, Handle
      <4>2. rn = [lease EXCEPT ![d] = new] /\ lease[d] # NoLease
        BY <3>2 DEF RenewedLeases
      <4>3. lease[d] \in LeaseRow
        BY <4>1, <4>2 DEF LeaseTable
      <4>4. new \in LeaseRow
        BY <4>1, <4>3 DEF LeaseRow
      <4> QED
        BY <4>1, <4>2, <4>4 DEF LeaseTable
    <3> QED
      BY <3>1, <3>2
  <2>4. CASE hold[r] = NoHold
    BY <1>11, <2>1, <2>4 DEF Finish, TypeOK, memberVars, credVars, leaseVars
  <2>5. CASE hold[r] # NoHold
    <3>1. /\ ReclaimMembers /\ hold' = ReclaimedHolds(hs) /\ lease' = ReclaimedLeases(rn, hs)
          /\ cooldown' = ReclaimedCooldown
          /\ UNCHANGED <<now, credVars, enterprise, job, proven>>
      BY <1>11, <2>5 DEF Finish
    <3>2. hold' \in HoldTable /\ lease' \in LeaseTable
      BY <2>2, <2>3, <3>1, ReclaimedHoldsFacts, ReclaimedLeasesFacts DEF TypeOK
    <3> QED
      BY <2>1, <3>1, <3>2, ReclaimMembersType, ReclaimTablesType DEF TypeOK, credVars
  <2> QED
    BY <2>4, <2>5
<1>12. ASSUME LoseHandle(r) PROVE TypeOK'
  BY <1>12 DEF LoseHandle, TypeOK, memberVars, credVars, leaseVars
<1> QED
  BY <1>1, <1>2, <1>3, <1>4, <1>5, <1>8, <1>9, <1>10, <1>11, <1>12


(* Administration keeps the types. *)
LEMMA AdminType ==
  ASSUME TypeOK, AdminNext
  PROVE  TypeOK'
<1>1. ASSUME NEW C, DeleteLeases(C) PROVE lease' \in LeaseTable /\ hold' \in HoldTable
  BY <1>1 DEF DeleteLeases, TypeOK, LeaseTable, HoldTable
<1>2. ASSUME NEW c \in Callers, Release(c) PROVE TypeOK'
  BY <1>1, <1>2 DEF Release, TypeOK, memberVars, credVars
<1>3. ASSUME NEW m \in Members, Disable(m) PROVE TypeOK'
  <2>1. lease' \in LeaseTable /\ hold' \in HoldTable
    BY <1>1, <1>3, CutLeasesFacts DEF Disable, TypeOK
  <2>2. /\ state' \in [Members -> MemberStates] /\ attempt' \in [Members -> Nat]
        /\ generation' \in [Members -> Nat]
    BY <1>3 DEF Disable, TypeOK, MemberStates
  <2> QED
    BY <1>3, <2>1, <2>2 DEF Disable, TypeOK, credVars
<1>4. ASSUME NEW m \in Members, Retry(m) PROVE TypeOK'
  <2>1. lease' \in LeaseTable /\ hold' \in HoldTable
    BY <1>1, <1>4 DEF Retry
  <2>2. /\ attempts' \in [Members -> Nat] /\ attempt' \in [Members -> Nat]
        /\ generation' \in [Members -> Nat] /\ retryAt' \in [Members -> Nat]
        /\ coolUntil' \in [Members -> Nat]
    BY <1>4 DEF Retry, TypeOK
  <2>3. /\ state' \in [Members -> MemberStates] /\ stage' \in [Members -> Stages]
        /\ verified' \in [Members -> BOOLEAN]
    BY <1>4 DEF Retry, TypeOK, MemberStates, Stages
  <2> QED
    BY <1>4, <2>1, <2>2, <2>3 DEF Retry, TypeOK, credVars
<1>5. ASSUME NEW e \in Enterprises, NEW x \in {"active", "draining"}, SetEnterprise(e, x)
      PROVE  TypeOK'
  BY <1>5 DEF SetEnterprise, TypeOK, memberVars, credVars, leaseVars
<1> QED
  BY <1>2, <1>3, <1>4, <1>5, BoundAssumption DEF AdminNext

(* A write to a credential column keeps the types. *)
LEMMA WriteCredentialType ==
  ASSUME TypeOK, NEW m \in Members, NEW x \in OauthStatuses, NEW t \in Nat, WriteCredential(m, x, t)
  PROVE  TypeOK'
<1>1. /\ status' \in [Members -> OauthStatuses] /\ token' \in [Members -> Nat]
      /\ generation' \in [Members -> Nat] /\ verified' \in [Members -> BOOLEAN]
  BY DEF WriteCredential, CredentialFence, TypeOK
<1> QED
  BY <1>1 DEF WriteCredential, TypeOK, leaseVars

(* Login callbacks and direct-mode writes keep the types. *)
LEMMA LoginType ==
  ASSUME TypeOK, LoginNext
  PROVE  TypeOK'
<1>1. PICK m \in Members : BeginLogin(m) \/ SaveToken(m) \/ FailLogin(m) \/ ImportToken(m)
  BY BoundAssumption DEF LoginNext
<1>2. token[m] \in Nat /\ generation[m] + 1 \in Nat
  BY DEF TypeOK
<1> QED
  BY <1>1, <1>2, WriteCredentialType DEF BeginLogin, SaveToken, FailLogin, ImportToken, OauthStatuses

(* The worker's steps keep the types. *)
LEMMA WorkerType ==
  ASSUME TypeOK, WorkerNext
  PROVE  TypeOK'
<1>1. PICK m \in Members :
        \/ Pick(m) \/ Claim(m) \/ LoginConfirmed(m) \/ LoginStep(m) \/ LinkAccount(m)
        \/ PinCredentials(m) \/ ReadAccount(m) \/ ResetStage(m) \/ InvalidateRejected(m)
        \/ Warmed(m) \/ Promote(m) \/ LoseJob(m)
        \/ \E kind \in {"transient", "terminal", "manual"} : StepFail(m, kind)
  BY BoundAssumption DEF WorkerNext
<1>2. ASSUME job[m] # NoJob PROVE job[m] \in Job
  BY <1>2 DEF TypeOK
<1>3. ASSUME NEW j \in Job, job' = [job EXCEPT ![m] = j] PROVE job' \in [Members -> Job \cup {NoJob}]
  BY <1>3 DEF TypeOK
<1>4. ASSUME job' = [job EXCEPT ![m] = NoJob] PROVE job' \in [Members -> Job \cup {NoJob}]
  BY <1>4 DEF TypeOK
<1>5. ASSUME Pick(m) PROVE TypeOK'
  <2>1. /\ ReclaimMembers /\ hold' = ReclaimedHolds(hold) /\ lease' = ReclaimedLeases(lease, hold)
        /\ cooldown' = ReclaimedCooldown /\ UNCHANGED <<now, credVars, enterprise, handle, proven>>
        /\ job' = [job EXCEPT ![m] = [attempt |-> attempt[m], generation |-> generation'[m],
                                      stage |-> stage'[m], step |-> "picked", token |-> 0]]
    BY <1>5 DEF Pick
  <2>2. attempt[m] \in Nat /\ generation'[m] \in Nat /\ stage'[m] \in Stages
    BY <2>1, ReclaimMembersType DEF TypeOK
  <2>3. [attempt |-> attempt[m], generation |-> generation'[m],
         stage |-> stage'[m], step |-> "picked", token |-> 0] \in Job
    BY <2>2 DEF Job, JobSteps
  <2>4. job' \in [Members -> Job \cup {NoJob}]
    BY <1>3, <2>1, <2>3
  <2> QED
    BY <2>1, <2>4, ReclaimMembersType, ReclaimTablesType DEF TypeOK, credVars
<1>6. ASSUME Claim(m) PROVE TypeOK'
  <2>1. state' \in [Members -> MemberStates] /\ generation' \in [Members -> Nat]
    BY <1>6 DEF Claim, TypeOK, MemberStates
  <2>5. lease' = lease \/ lease' = CutLeases(lease, {m})
    BY <1>6 DEF Claim
  <2>6. lease' \in LeaseTable
    BY <2>5, CutLeasesFacts DEF TypeOK
  <2>2. [job[m] EXCEPT !.step = "claimed", !.generation = generation'[m]] \in Job
    BY <1>2, <1>6, <2>1 DEF Claim, Job, JobSteps
  <2>3. job' = [job EXCEPT ![m] = [job[m] EXCEPT !.step = "claimed", !.generation = generation'[m]]]
    BY <1>6 DEF Claim
  <2>4. job' \in [Members -> Job \cup {NoJob}]
    BY <1>3, <2>2, <2>3
  <2> QED
    BY <1>6, <2>1, <2>4, <2>6 DEF Claim, TypeOK, credVars
<1>7. ASSUME LoginConfirmed(m) PROVE TypeOK'
  <2>1. stage' \in [Members -> Stages] /\ retryAt' \in [Members -> Nat]
    BY <1>7 DEF LoginConfirmed, TypeOK, Stages
  <2> QED
    BY <1>4, <1>7, <2>1 DEF LoginConfirmed, TypeOK, credVars, leaseVars
<1>8. ASSUME LoginStep(m) PROVE TypeOK'
  <2>1. retryAt' \in [Members -> Nat]
    BY <1>8, DurationAssumption DEF LoginStep, TypeOK
  <2> QED
    BY <1>4, <1>8, <2>1 DEF LoginStep, TypeOK, credVars, leaseVars
<1>9. ASSUME PinCredentials(m) PROVE TypeOK'
  <2>1. [job[m] EXCEPT !.step = "pinned", !.generation = generation[m]] \in Job
    BY <1>2, <1>9 DEF PinCredentials, JobCurrent, TypeOK, Job, JobSteps
  <2>2. job' \in [Members -> Job \cup {NoJob}]
    BY <1>3, <1>9, <2>1 DEF PinCredentials
  <2> QED
    BY <1>9, <2>2 DEF PinCredentials, TypeOK, memberVars, credVars, leaseVars
<1>10. ASSUME ReadAccount(m) PROVE TypeOK'
  <2>1. [job[m] EXCEPT !.step = "warming", !.token = token[m]] \in Job
    BY <1>2, <1>10 DEF ReadAccount, TypeOK, Job, JobSteps
  <2>2. job' \in [Members -> Job \cup {NoJob}]
    BY <1>3, <1>10, <2>1 DEF ReadAccount
  <2> QED
    BY <1>10, <2>2 DEF ReadAccount, TypeOK, memberVars, credVars, leaseVars
<1>11. ASSUME ResetStage(m) PROVE TypeOK'
  <2> DEFINE j == [job[m] EXCEPT !.stage = "login",
                                 !.step = IF @ = "pinned" THEN "failing" ELSE "rejected"]
  <2>1. j \in Job
    BY <1>2, <1>11 DEF ResetStage, JobCurrent, Job, JobSteps, Stages
  <2>2. job' = [job EXCEPT ![m] = j]
    BY <1>11 DEF ResetStage
  <2>3. job' \in [Members -> Job \cup {NoJob}] /\ stage' \in [Members -> Stages]
    BY <1>3, <1>11, <2>1, <2>2 DEF ResetStage, TypeOK, Stages
  <2> QED
    BY <1>11, <2>3 DEF ResetStage, TypeOK, credVars, leaseVars
<1>12. ASSUME InvalidateRejected(m) PROVE TypeOK'
  <2> DEFINE j == [job[m] EXCEPT !.step = "failing", !.generation = @ + 1]
  <2>1. job[m] \in Job
    BY <1>2, <1>12 DEF InvalidateRejected, JobCurrent
  <2>6. job[m].generation + 1 \in Nat
    BY <2>1 DEF Job
  <2>2. j \in Job
    BY <2>1, <2>6 DEF Job, JobSteps
  <2>3. job' = [job EXCEPT ![m] = j]
    BY <1>12 DEF InvalidateRejected
  <2>4. job' \in [Members -> Job \cup {NoJob}]
    BY <1>3, <2>2, <2>3
  <2>5. /\ status' \in [Members -> OauthStatuses] /\ token' \in [Members -> Nat]
        /\ generation' \in [Members -> Nat] /\ verified' \in [Members -> BOOLEAN]
    BY <1>12 DEF InvalidateRejected, CredentialFence, TypeOK, OauthStatuses
  <2> QED
    BY <1>12, <2>4, <2>5 DEF InvalidateRejected, TypeOK, leaseVars
<1>13. ASSUME Warmed(m) PROVE TypeOK'
  <2>1. [job[m] EXCEPT !.step = "warmed"] \in Job
    BY <1>2, <1>13 DEF Warmed, Job, JobSteps
  <2>2. job' \in [Members -> Job \cup {NoJob}]
    BY <1>3, <1>13, <2>1 DEF Warmed
  <2> QED
    BY <1>13, <2>2 DEF Warmed, TypeOK, memberVars, credVars, leaseVars
<1>14. ASSUME Promote(m) PROVE TypeOK'
  <2>1. job[m].token \in Nat
    BY <1>2, <1>14 DEF Promote, JobCurrent, Job
  <2>2. /\ attempts' \in [Members -> Nat] /\ retryAt' \in [Members -> Nat]
        /\ proven' \in [Members -> Nat]
    BY <1>14, <2>1 DEF Promote, TypeOK
  <2>3. /\ state' \in [Members -> MemberStates] /\ stage' \in [Members -> Stages]
        /\ verified' \in [Members -> BOOLEAN] /\ manual' \in [Members -> BOOLEAN]
    BY <1>14 DEF Promote, TypeOK, MemberStates, Stages
  <2> QED
    BY <1>4, <1>14, <2>2, <2>3 DEF Promote, TypeOK, credVars, leaseVars
<1>15. ASSUME NEW kind, StepFail(m, kind) PROVE TypeOK'
  <2> DEFINE n == IF kind = "transient" THEN attempts[m] + 1 ELSE Later(AttemptLimit, attempts[m] + 1)
  <2>1. n \in Nat
    BY DEF TypeOK, Later, AttemptLimit
  <2>2. attempts' \in [Members -> Nat]
    BY <1>15, <2>1 DEF StepFail, TypeOK
  <2>3. generation' \in [Members -> Nat] /\ retryAt' \in [Members -> Nat]
    BY <1>15, DurationAssumption DEF StepFail, TypeOK
  <2>4. state' \in [Members -> MemberStates] /\ manual' \in [Members -> BOOLEAN]
    BY <1>15 DEF StepFail, TypeOK, MemberStates
  <2>5. lease' = CutLeases(lease, {m}) /\ lease' \in LeaseTable
    BY <1>15, CutLeasesFacts DEF StepFail, TypeOK
  <2>6. job' \in [Members -> Job \cup {NoJob}]
    BY <1>4, <1>15 DEF StepFail
  <2>7. UNCHANGED <<now, stage, attempt, coolUntil, verified, reauthCount, reauthAt, credVars,
                    hold, cooldown, enterprise, handle, proven>>
    BY <1>15 DEF StepFail
  <2> QED
    BY <2>2, <2>3, <2>4, <2>5, <2>6, <2>7 DEF TypeOK, credVars
<1>17. ASSUME LinkAccount(m) PROVE TypeOK'
  <2>1. status[m] \in OauthStatuses /\ token[m] \in Nat
    BY DEF TypeOK
  <2> QED
    BY <1>17, <2>1, WriteCredentialType DEF LinkAccount
<1>16. ASSUME LoseJob(m) PROVE TypeOK'
  BY <1>4, <1>16 DEF LoseJob, TypeOK, memberVars, credVars, leaseVars
<1> QED
  BY <1>1, <1>5, <1>6, <1>7, <1>8, <1>9, <1>10, <1>11, <1>12, <1>13, <1>14, <1>15, <1>16, <1>17

(* Every step keeps the types. *)
LEMMA NextType ==
  ASSUME TypeOK, [Next]_vars
  PROVE  TypeOK'
<1>1. CASE Tick
  BY <1>1 DEF Tick, TypeOK, memberVars, credVars, leaseVars
<1>2. CASE Reclaim
  <2>1. /\ ReclaimMembers /\ hold' = ReclaimedHolds(hold) /\ lease' = ReclaimedLeases(lease, hold)
        /\ cooldown' = ReclaimedCooldown /\ UNCHANGED <<now, credVars, enterprise, handle, job, proven>>
    BY <1>2 DEF Reclaim
  <2> QED
    BY <2>1, ReclaimMembersType, ReclaimTablesType DEF TypeOK, credVars
<1>3. CASE UNCHANGED vars
  BY <1>3 DEF TypeOK, vars, memberVars, credVars, leaseVars
<1> QED
  BY <1>1, <1>2, <1>3, RequestType, AdminType, LoginType, WorkerType DEF Next

(* TypeOK is an invariant: no sequence of transactions stores a value of
   another type, in particular no reauthorization count past its limit. *)
THEOREM TypeCorrect == Spec => []TypeOK
<1>1. Init => TypeOK
  <2> SUFFICES ASSUME Init PROVE TypeOK
    OBVIOUS
  <2>1. lease \in LeaseTable /\ hold \in HoldTable
    BY DEF Init, LeaseTable, HoldTable
  <2> QED
    BY <2>1, DurationAssumption DEF Init, TypeOK, MemberStates, Stages, OauthStatuses
<1>2. TypeOK /\ [Next]_vars => TypeOK'
  BY NextType
<1> QED
  BY <1>1, <1>2, PTL DEF Spec


-----------------------------------------------------------------------------
(* reclaim() keeps the pairing. *)
LEMMA ReclaimPreserves ==
  ASSUME now \in Nat, NEW ls \in LeaseTable, NEW hs \in HoldTable,
         OneToOneIn(ls, hs), HoldHasLeaseIn(ls, hs)
  PROVE  /\ OneToOneIn(ReclaimedLeases(ls, hs), ReclaimedHolds(hs))
         /\ HoldHasLeaseIn(ReclaimedLeases(ls, hs), ReclaimedHolds(hs))
<1> DEFINE rl == ReclaimedLeases(ls, hs)
           rh == ReclaimedHolds(hs)
<1>1. /\ rl \in LeaseTable
      /\ \A c \in Callers :
           /\ rl[c] # NoLease => ls[c] # NoLease /\ rl[c].member = ls[c].member
           /\ ls[c] # NoLease /\ HasHolds(hs, ls[c].member) => rl[c] # NoLease
  BY ReclaimedLeasesFacts
<1>2. /\ rh \in HoldTable
      /\ \A r \in Requests : rh[r] # NoHold => rh[r] = hs[r] /\ hs[r].expires > now
  BY ReclaimedHoldsFacts
<1> HIDE DEF rl, rh
<1>3. ASSUME NEW r \in Requests, rh[r] # NoHold, rh[r].kind = "lease"
      PROVE  rl[rh[r].caller] # NoLease
  <2>1. rh[r] = hs[r] /\ hs[r].expires > now /\ hs[r].caller \in Callers
    BY <1>2, <1>3 DEF HoldTable, HoldRow
  <2>2. ls[hs[r].caller] # NoLease /\ ls[hs[r].caller].member = hs[r].member
    BY <1>3, <2>1 DEF HoldHasLeaseIn
  <2>3. HasHolds(hs, hs[r].member)
    BY <1>3, <2>1 DEF HasHolds, HeldBy
  <2> QED
    BY <1>1, <2>1, <2>2, <2>3
<1>4. OneToOneIn(rl, rh) /\ HoldHasLeaseIn(rl, rh)
  BY <1>1, <1>2, <1>3, ShrinkPreserves
<1> QED
  BY <1>4 DEF rl, rh

(* An invalidating update keeps the pairing. *)
LEMMA CutPreserves ==
  ASSUME now \in Nat, NEW ls \in LeaseTable, NEW hs \in HoldTable, NEW M,
         OneToOneIn(ls, hs), HoldHasLeaseIn(ls, hs)
  PROVE  OneToOneIn(CutLeases(ls, M), hs) /\ HoldHasLeaseIn(CutLeases(ls, M), hs)
<1> DEFINE cut == CutLeases(ls, M)
<1>1. /\ cut \in LeaseTable
      /\ \A c \in Callers : /\ cut[c] = NoLease <=> ls[c] = NoLease
                            /\ ls[c] # NoLease => cut[c].member = ls[c].member
  BY CutLeasesFacts
<1> HIDE DEF cut
<1>2. ASSUME NEW r \in Requests, hs[r] # NoHold, hs[r].kind = "lease"
      PROVE  cut[hs[r].caller] # NoLease
  BY <1>1, <1>2 DEF HoldHasLeaseIn, HoldTable, HoldRow
<1>3. OneToOneIn(cut, hs) /\ HoldHasLeaseIn(cut, hs)
  BY <1>1, <1>2, ShrinkPreserves
<1> QED
  BY <1>3 DEF cut

(* Deleting leases together with their holds keeps the pairing. *)
LEMMA DeletePreserves ==
  ASSUME SharingInv, NEW C, DeleteLeases(C)
  PROVE  OneToOneIn(lease', hold') /\ HoldHasLeaseIn(lease', hold')
<1>1. lease' \in LeaseTable /\ hold' \in HoldTable
  BY DEF DeleteLeases, SharingInv, TypeOK, LeaseTable, HoldTable
<1>2. \A c \in Callers : lease'[c] # NoLease => lease'[c] = lease[c]
  BY DEF DeleteLeases
<1>3. \A r \in Requests : hold'[r] # NoHold => hold'[r] = hold[r]
  BY DEF DeleteLeases
<1>4. ASSUME NEW r \in Requests, hold'[r] # NoHold, hold'[r].kind = "lease"
      PROVE  lease'[hold'[r].caller] # NoLease
  <2>1. hold'[r] = hold[r] /\ hold[r].caller \in Callers \ C
    BY <1>4 DEF DeleteLeases, SharingInv, TypeOK, HoldTable, HoldRow
  <2>2. lease[hold[r].caller] # NoLease
    BY <1>4, <2>1 DEF SharingInv, HoldHasLeaseIn
  <2> QED
    BY <2>1, <2>2 DEF DeleteLeases
<1> QED
  BY <1>1, <1>2, <1>3, <1>4, ShrinkPreserves DEF SharingInv, TypeOK

(* A step that keeps the unexpired rows of the requests it does not end keeps
   every request in flight pinned. *)
LEMMA PinnedPreserves ==
  ASSUME SharingInv, TypeOK', now' >= now,
         \A r \in Requests : handle'[r] # NoHandle =>
           /\ handle[r] # NoHandle
           /\ handle'[r].kind = handle[r].kind /\ handle'[r].caller = handle[r].caller
           /\ handle'[r].member = handle[r].member /\ handle'[r].expires = handle[r].expires
           /\ hold[r] # NoHold /\ hold[r].expires > now => hold'[r] = hold[r]
  PROVE  HandleHasHold'
<1> SUFFICES ASSUME NEW r \in Requests, InFlight(r)'
             PROVE  /\ hold'[r] # NoHold
                    /\ hold'[r].kind = handle'[r].kind /\ hold'[r].caller = handle'[r].caller
                    /\ hold'[r].member = handle'[r].member /\ hold'[r].expires = handle'[r].expires
  BY DEF HandleHasHold
<1>1. handle'[r] # NoHandle /\ handle'[r].expires > now'
  BY DEF InFlight
<1>2. handle[r] # NoHandle /\ handle'[r].expires = handle[r].expires /\ handle[r].expires \in Nat
  BY <1>1 DEF SharingInv, TypeOK, Handle
<1>3. now \in Nat /\ now' \in Nat
  BY DEF SharingInv, TypeOK
<1>4. InFlight(r)
  BY <1>1, <1>2, <1>3 DEF InFlight
<1>5. hold[r] # NoHold /\ hold[r].expires > now
  BY <1>4 DEF SharingInv, HandleHasHold, InFlight
<1> QED
  BY <1>1, <1>4, <1>5 DEF SharingInv, HandleHasHold

(* An admission pins its request, and keeps the pairing when every bound pair
   agrees with the caller and the member it joins. *)
LEMMA AdmitPreserves ==
  ASSUME SharingInv, TypeOK',
         NEW kind \in {"lease", "catalog"}, NEW c \in Callers, NEW r \in Requests, NEW m \in Members,
         NEW ls, ls = ReclaimedLeases(lease, hold),
         NEW rh, rh = ReclaimedHolds(hold),
         Admit(kind, c, r, m),
         \A d \in Callers : d # c => lease'[d] = ls[d],
         lease'[c] = ls[c] \/ (lease'[c] # NoLease /\ lease'[c].member = m),
         ls[c] # NoLease => lease'[c] # NoLease,
         kind = "lease" => lease'[c] # NoLease,
         \A d \in Callers, n \in Members : BoundIn(ls, rh, d, n) => (d = c <=> n = m)
  PROVE  SharingInv'
<1>1. /\ hold' = [rh EXCEPT ![r] = NewHold(kind, c, m)]
      /\ handle' = [handle EXCEPT ![r] = NewHandle(kind, c, m)]
      /\ handle[r] = NoHandle /\ hold[r] = NoHold /\ now' = now
  BY DEF Admit
<1>2. now \in Nat /\ lease \in LeaseTable /\ hold \in HoldTable
      /\ lease' \in LeaseTable /\ hold' \in HoldTable
  BY DEF SharingInv, TypeOK
<1>3. rh \in HoldTable /\ ls \in LeaseTable
  BY <1>2, ReclaimedHoldsFacts, ReclaimedLeasesFacts
<1>4. OneToOneIn(ls, rh) /\ HoldHasLeaseIn(ls, rh)
  BY <1>2, ReclaimPreserves DEF SharingInv
<1>5. NewHold(kind, c, m) \in HoldRow /\ NewHold(kind, c, m) # NoHold
  <2>1. now + RequestTimeout + HoldDrain \in Nat /\ ReclaimedGeneration[m] \in Nat
    BY DurationAssumption DEF SharingInv, TypeOK, ReclaimedGeneration
  <2> QED
    BY <2>1, AbsentAssumption DEF NewHold, HoldRow
<1>6. /\ hold'[r] = NewHold(kind, c, m)
      /\ \A q \in Requests : q # r => hold'[q] = rh[q]
  BY <1>1, <1>3 DEF HoldTable
<1>7. hold'[r].caller = c /\ hold'[r].member = m /\ hold'[r].kind = kind
  BY <1>6 DEF NewHold
<1>8. OneToOneIn(lease', hold') /\ HoldHasLeaseIn(lease', hold')
  BY <1>2, <1>3, <1>4, <1>5, <1>6, <1>7, GrowPreserves
<1>9. HandleHasHold'
  <2> SUFFICES ASSUME NEW q \in Requests, InFlight(q)'
               PROVE  /\ hold'[q] # NoHold
                      /\ hold'[q].kind = handle'[q].kind /\ hold'[q].caller = handle'[q].caller
                      /\ hold'[q].member = handle'[q].member /\ hold'[q].expires = handle'[q].expires
    BY DEF HandleHasHold
  <2>1. CASE q = r
    <3>1. handle'[r] = NewHandle(kind, c, m)
      BY <1>1 DEF SharingInv, TypeOK
    <3> QED
      BY <2>1, <3>1, <1>5, <1>6 DEF NewHandle, NewHold
  <2>2. CASE q # r
    <3>1. handle'[q] = handle[q]
      BY <1>1, <2>2 DEF SharingInv, TypeOK
    <3>2. InFlight(q)
      BY <1>1, <3>1 DEF InFlight
    <3>3. hold[q] # NoHold /\ hold[q].expires > now
      BY <3>2 DEF SharingInv, HandleHasHold, InFlight
    <3>4. hold'[q] = hold[q]
      BY <1>2, <1>6, <2>2, <3>3, ReclaimedHoldsFacts
    <3> QED
      BY <3>1, <3>2, <3>3, <3>4 DEF SharingInv, HandleHasHold
  <2> QED
    BY <2>1, <2>2
<1> QED
  BY <1>8, <1>9 DEF SharingInv

(* A member that is available to a caller agrees with every bound pair: the
   caller already holds it, or both appear in no row at all. *)
LEMMA AvailableAgrees ==
  ASSUME NEW ls \in LeaseTable, NEW hs \in HoldTable, NEW c \in Callers, NEW m \in Members,
         OneToOneIn(ls, hs), HoldHasLeaseIn(ls, hs),
         ls[c] = NoLease, m \in AvailableMembers(ls, hs, c)
  PROVE  \A d \in Callers, n \in Members : BoundIn(ls, hs, d, n) => (d = c <=> n = m)
<1> DEFINE mine == {r \in Requests : hs[r] # NoHold /\ hs[r].kind = "catalog" /\ hs[r].caller = c}
<1>1. CASE mine # {}
  <2>1. PICK r \in mine : m = hs[r].member
    BY <1>1 DEF AvailableMembers
  <2>2. BoundIn(ls, hs, c, m)
    BY <2>1 DEF BoundIn
  <2> QED
    BY <2>2 DEF OneToOneIn
<1>2. CASE mine = {}
  <2>1. IdleMember(ls, hs, m)
    BY <1>2 DEF AvailableMembers
  <2>2. ASSUME NEW q \in Requests, hs[q] # NoHold PROVE hs[q].caller # c /\ hs[q].member # m
    <3>1. hs[q].caller \in Callers /\ hs[q].kind \in {"lease", "catalog"}
      BY <2>2 DEF HoldTable, HoldRow
    <3>2. CASE hs[q].kind = "lease"
      BY <2>1, <2>2, <3>1, <3>2 DEF HoldHasLeaseIn, IdleMember
    <3>3. CASE hs[q].kind = "catalog"
      BY <1>2, <2>1, <2>2, <3>3 DEF IdleMember, HeldBy
    <3> QED
      BY <3>1, <3>2, <3>3
  <2>3. ASSUME NEW d \in Callers, NEW n \in Members, BoundIn(ls, hs, d, n)
        PROVE  d # c /\ n # m
    BY <2>1, <2>2, <2>3 DEF BoundIn, IdleMember
  <2> QED
    BY <2>3
<1> QED
  BY <1>1, <1>2

(* Admissions keep the sharing invariant. *)
LEMMA AcquireSharing ==
  ASSUME SharingInv, TypeOK', NEW c \in Callers, NEW r \in Requests,
         AcquireLeased(c, r) \/ AcquireNew(c, r) \/ AcquireCatalog(c, r)
  PROVE  SharingInv'
<1> DEFINE ls == ReclaimedLeases(lease, hold)
           rh == ReclaimedHolds(hold)
<1>1. ls \in LeaseTable /\ rh \in HoldTable
  BY ReclaimTablesType DEF SharingInv
<1>2. OneToOneIn(ls, rh) /\ HoldHasLeaseIn(ls, rh)
  BY ReclaimPreserves DEF SharingInv, TypeOK
<1>3. ASSUME NEW kind \in {"lease", "catalog"}, ls[c] # NoLease, Admit(kind, c, r, ls[c].member),
             lease' = ls
      PROVE  SharingInv'
  <2>1. ls[c].member \in Members
    BY <1>1, <1>3 DEF LeaseTable, LeaseRow
  <2>2. BoundIn(ls, rh, c, ls[c].member)
    BY <1>3 DEF BoundIn
  <2>3. \A d \in Callers, n \in Members : BoundIn(ls, rh, d, n) => (d = c <=> n = ls[c].member)
    BY <1>2, <2>1, <2>2 DEF OneToOneIn
  <2> QED
    BY <1>3, <2>1, <2>3, AdmitPreserves
<1>4. ASSUME NEW m \in AvailableMembers(ls, rh, c), ls[c] = NoLease
      PROVE  /\ m \in Members
             /\ \A d \in Callers, n \in Members : BoundIn(ls, rh, d, n) => (d = c <=> n = m)
  <2>1. m \in Members
    BY <1>1, AvailableAreMembers
  <2> QED
    BY <1>1, <1>2, <1>4, <2>1, AvailableAgrees
<1>5. CASE AcquireLeased(c, r)
  BY <1>3, <1>5 DEF AcquireLeased
<1>6. CASE AcquireNew(c, r)
  <2>1. PICK m \in AvailableMembers(ls, rh, c) :
           Admit("lease", c, r, m) /\ lease' = [ls EXCEPT ![c] = NewLease(m)] /\ ls[c] = NoLease
    BY <1>6 DEF AcquireNew
  <2>2. m \in Members
    BY <1>4, <2>1
  <2>3. NewLease(m) \in LeaseRow
    BY <2>2, DurationAssumption DEF NewLease, LeaseRow, SharingInv, TypeOK, ReclaimedGeneration
  <2>4. lease'[c] = NewLease(m) /\ \A d \in Callers : d # c => lease'[d] = ls[d]
    BY <1>1, <2>1 DEF LeaseTable
  <2>5. lease'[c] # NoLease /\ lease'[c].member = m
    BY <2>3, <2>4, AbsentAssumption DEF NewLease
  <2> QED
    BY <1>4, <2>1, <2>2, <2>4, <2>5, AdmitPreserves
<1>7. CASE AcquireCatalog(c, r)
  <2>1. CASE ls[c] # NoLease /\ Admit("catalog", c, r, ls[c].member) /\ lease' = ls
    BY <1>3, <2>1
  <2>2. ASSUME NEW m \in AvailableMembers(ls, rh, c), ls[c] = NoLease,
               Admit("catalog", c, r, m), lease' = ls
        PROVE  SharingInv'
    BY <1>4, <2>2, AdmitPreserves
  <2> QED
    BY <1>7, <2>1, <2>2 DEF AcquireCatalog
<1> QED
  BY <1>5, <1>6, <1>7

(* A step that only cuts leases, or leaves them, keeps the sharing invariant
   when requests keep what they were admitted with. *)
LEMMA CutSharing ==
  ASSUME SharingInv, TypeOK', NEW M, lease' = CutLeases(lease, M) \/ lease' = lease,
         hold' = hold, now' = now \/ now' = now + 1,
         \A r \in Requests : handle'[r] # NoHandle =>
           /\ handle[r] # NoHandle
           /\ handle'[r].kind = handle[r].kind /\ handle'[r].caller = handle[r].caller
           /\ handle'[r].member = handle[r].member /\ handle'[r].expires = handle[r].expires
  PROVE  SharingInv'
<1>1. now \in Nat /\ lease \in LeaseTable /\ hold \in HoldTable
      /\ OneToOneIn(lease, hold) /\ HoldHasLeaseIn(lease, hold)
  BY DEF SharingInv, TypeOK
<1>2. OneToOneIn(lease', hold') /\ HoldHasLeaseIn(lease', hold')
  BY <1>1, CutPreserves
<1>3. HandleHasHold'
  BY <1>1, PinnedPreserves
<1> QED
  BY <1>2, <1>3 DEF SharingInv

(* reclaim() keeps the sharing invariant. *)
LEMMA ReclaimSharing ==
  ASSUME SharingInv, TypeOK', hold' = ReclaimedHolds(hold), lease' = ReclaimedLeases(lease, hold),
         UNCHANGED <<now, handle>>
  PROVE  SharingInv'
<1>1. now \in Nat /\ lease \in LeaseTable /\ hold \in HoldTable
      /\ OneToOneIn(lease, hold) /\ HoldHasLeaseIn(lease, hold)
  BY DEF SharingInv, TypeOK
<1>2. OneToOneIn(lease', hold') /\ HoldHasLeaseIn(lease', hold')
  BY <1>1, ReclaimPreserves
<1>3. \A r \in Requests : hold[r] # NoHold /\ hold[r].expires > now => hold'[r] = hold[r]
  BY <1>1, ReclaimedHoldsFacts
<1>4. HandleHasHold'
  BY <1>1, <1>3, PinnedPreserves
<1> QED
  BY <1>2, <1>4 DEF SharingInv

(* Deleting the leases of callers whose member nobody uses keeps it too. *)
LEMMA DeleteSharing ==
  ASSUME SharingInv, TypeOK', NEW C \in SUBSET Callers, DeleteLeases(C), UNCHANGED <<now, handle>>,
         \A c \in C : lease[c] # NoLease /\ ~HasHolds(hold, lease[c].member)
  PROVE  SharingInv'
<1>1. OneToOneIn(lease', hold') /\ HoldHasLeaseIn(lease', hold')
  BY DeletePreserves
<1>2. ASSUME NEW r \in Requests, hold[r] # NoHold, hold[r].expires > now PROVE hold'[r] = hold[r]
  <2>1. HasHolds(hold, hold[r].member)
    BY <1>2 DEF HasHolds, HeldBy
  <2>2. hold[r].kind = "lease" => lease[hold[r].caller].member = hold[r].member
    BY <1>2 DEF SharingInv, HoldHasLeaseIn
  <2>3. ~(hold[r].kind = "lease" /\ hold[r].caller \in C)
    BY <2>1, <2>2
  <2> QED
    BY <2>3 DEF DeleteLeases
<1>3. now \in Nat
  BY DEF SharingInv, TypeOK
<1>4. HandleHasHold'
  BY <1>2, <1>3, PinnedPreserves
<1> QED
  BY <1>1, <1>4 DEF SharingInv

(* finish() keeps the sharing invariant: it ends one request, renews its
   lease in place, and reclaims. *)
LEMMA FinishSharing ==
  ASSUME SharingInv, TypeOK', NEW r \in Requests, NEW success \in BOOLEAN, Finish(r, success)
  PROVE  SharingInv'
<1> DEFINE hs == [hold EXCEPT ![r] = NoHold]
           rn == RenewedLeases(r, success)
           d == handle[r].caller
           new == [lease[d] EXCEPT !.phase = "active", !.expires = now + LeaseTTL]
<1>1. /\ now \in Nat /\ lease \in LeaseTable /\ hold \in HoldTable
      /\ OneToOneIn(lease, hold) /\ HoldHasLeaseIn(lease, hold)
      /\ handle \in [Requests -> Handle \cup {NoHandle}] /\ handle[r] # NoHandle
      /\ handle' = [handle EXCEPT ![r] = NoHandle] /\ now' = now
  BY DEF SharingInv, TypeOK, Finish
<1>2. \A q \in Requests : handle'[q] # NoHandle => q # r /\ handle'[q] = handle[q]
  BY <1>1
<1>3. CASE hold[r] = NoHold
  <2>1. lease' = lease /\ hold' = hold
    BY <1>3 DEF Finish, leaseVars
  <2> QED
    BY <1>1, <1>2, <2>1, CutSharing
<1>4. CASE hold[r] # NoHold
  <2>1. hold' = ReclaimedHolds(hs) /\ lease' = ReclaimedLeases(rn, hs)
    BY <1>4 DEF Finish
  <2>2. hs \in HoldTable /\ \A q \in Requests : /\ hs[q] # NoHold => hs[q] = hold[q]
                                                /\ q # r => hs[q] = hold[q]
    BY <1>1 DEF HoldTable
  <2>3. rn \in LeaseTable /\ \A c \in Callers : /\ rn[c] = NoLease <=> lease[c] = NoLease
                                                /\ lease[c] # NoLease => rn[c].member = lease[c].member
    <3>1. CASE rn = lease
      BY <1>1, <3>1
    <3>2. CASE rn # lease
      <4>1. d \in Callers /\ now + LeaseTTL \in Nat
        BY <1>1, DurationAssumption DEF Handle
      <4>2. rn = [lease EXCEPT ![d] = new] /\ lease[d] # NoLease
        BY <3>2 DEF RenewedLeases
      <4>3. lease[d] \in LeaseRow
        BY <1>1, <4>1, <4>2 DEF LeaseTable
      <4>4. new \in LeaseRow /\ new.member = lease[d].member
        BY <4>1, <4>3 DEF LeaseRow
      <4>5. new # NoLease
        BY <4>4, AbsentAssumption
      <4> HIDE DEF new, rn
      <4>6. rn \in LeaseTable
        BY <1>1, <4>2, <4>4 DEF LeaseTable
      <4> QED
        BY <1>1, <4>1, <4>2, <4>4, <4>5, <4>6 DEF LeaseTable
    <3> QED
      BY <3>1, <3>2
  <2> HIDE DEF hs, rn
  <2>4. ASSUME NEW q \in Requests, hs[q] # NoHold, hs[q].kind = "lease"
        PROVE  rn[hs[q].caller] # NoLease
    <3>1. hs[q] = hold[q] /\ hold[q].caller \in Callers
      BY <1>1, <2>2, <2>4 DEF HoldTable, HoldRow
    <3> QED
      BY <1>1, <2>3, <2>4, <3>1 DEF HoldHasLeaseIn
  <2>5. OneToOneIn(rn, hs) /\ HoldHasLeaseIn(rn, hs)
    BY <1>1, <2>2, <2>3, <2>4, ShrinkPreserves
  <2>6. OneToOneIn(lease', hold') /\ HoldHasLeaseIn(lease', hold')
    BY <1>1, <2>1, <2>2, <2>3, <2>5, ReclaimPreserves
  <2>7. \A q \in Requests : q # r /\ hold[q] # NoHold /\ hold[q].expires > now => hold'[q] = hold[q]
    BY <1>1, <2>1, <2>2, ReclaimedHoldsFacts
  <2>8. HandleHasHold'
    BY <1>1, <1>2, <2>7, PinnedPreserves
  <2> QED
    BY <2>6, <2>8 DEF SharingInv
<1> QED
  BY <1>3, <1>4

(* Every step keeps the sharing invariant. *)
LEMMA NextSharing ==
  ASSUME SharingInv, [Next]_vars
  PROVE  SharingInv'
<1>0. TypeOK /\ TypeOK' /\ now \in Nat
  BY NextType DEF SharingInv, TypeOK
<1>1. CASE Tick
  BY <1>0, <1>1, CutSharing DEF Tick, leaseVars
<1>2. CASE Reclaim
  BY <1>0, <1>2, ReclaimSharing DEF Reclaim
<1>3. CASE RequestNext
  <2>1. PICK r \in Requests :
      \/ \E c \in Callers : AcquireLeased(c, r) \/ AcquireNew(c, r) \/ AcquireCatalog(c, r)
      \/ Authorize(r) \/ RecoverUnauthorized(r) \/ Cool(r) \/ Quarantine(r)
      \/ \E success \in BOOLEAN : Finish(r, success)
      \/ LoseHandle(r)
    BY <1>3 DEF RequestNext
  <2>2. CASE \E c \in Callers : AcquireLeased(c, r) \/ AcquireNew(c, r) \/ AcquireCatalog(c, r)
    BY <1>0, <2>2, AcquireSharing
  <2>3. CASE Authorize(r)
    <3>1. handle[r] \in Handle /\ handle \in [Requests -> Handle \cup {NoHandle}]
      BY <1>0, <2>3 DEF Authorize, TypeOK
    <3>2. handle' = [handle EXCEPT ![r] = [handle[r] EXCEPT !.token = token[handle[r].member]]]
          /\ lease' = lease /\ hold' = hold /\ now' = now
      BY <2>3 DEF Authorize, leaseVars
    <3>3. [handle[r] EXCEPT !.token = token[handle[r].member]] # NoHandle
          => handle[r] # NoHandle
      BY <3>1, AbsentAssumption
    <3>4. \A q \in Requests : handle'[q] # NoHandle =>
            /\ handle[q] # NoHandle
            /\ handle'[q].kind = handle[q].kind /\ handle'[q].caller = handle[q].caller
            /\ handle'[q].member = handle[q].member /\ handle'[q].expires = handle[q].expires
      BY <3>1, <3>2, <3>3 DEF Handle
    <3> QED
      BY <1>0, <3>2, <3>4, CutSharing
  <2>4. CASE RecoverUnauthorized(r)
    <3>1. lease' = CutLeases(lease, {handle[r].member}) /\ UNCHANGED <<now, hold, handle>>
      BY <2>4 DEF RecoverUnauthorized
    <3> QED
      BY <1>0, <3>1, CutSharing
  <2>5. CASE Cool(r)
    BY <1>0, <2>5, CutSharing DEF Cool
  <2>6. CASE Quarantine(r)
    <3>1. lease' = CutLeases(lease, {handle[r].member}) /\ UNCHANGED <<now, hold, handle>>
      BY <2>6 DEF Quarantine
    <3> QED
      BY <1>0, <3>1, CutSharing
  <2>7. CASE \E success \in BOOLEAN : Finish(r, success)
    BY <1>0, <2>7, FinishSharing
  <2>8. CASE LoseHandle(r)
    <3>1. \A q \in Requests : handle'[q] # NoHandle => handle'[q] = handle[q]
      BY <1>0, <2>8 DEF LoseHandle, TypeOK
    <3> QED
      BY <1>0, <2>8, <3>1, CutSharing DEF LoseHandle, leaseVars
  <2> QED
    BY <2>1, <2>2, <2>3, <2>4, <2>5, <2>6, <2>7, <2>8
<1>4. CASE AdminNext
  <2>1. ASSUME NEW c \in Callers, Release(c) PROVE SharingInv'
    <3>1. DeleteLeases({c}) /\ lease[c] # NoLease /\ ~HasHolds(hold, lease[c].member)
          /\ UNCHANGED <<now, handle>>
      BY <2>1 DEF Release
    <3> QED
      BY <1>0, <3>1, DeleteSharing
  <2>2. ASSUME NEW m \in Members, ~HasHolds(hold, m), DeleteLeases(LeasedTo(m)), UNCHANGED <<now, handle>>
        PROVE  SharingInv'
    <3>1. LeasedTo(m) \in SUBSET Callers
          /\ \A c \in LeasedTo(m) : lease[c] # NoLease /\ lease[c].member = m
      BY DEF LeasedTo
    <3> QED
      BY <1>0, <2>2, <3>1, DeleteSharing
  <2>3. ASSUME NEW m \in Members, Disable(m) PROVE SharingInv'
    <3>1. CASE HasHolds(hold, m)
      BY <1>0, <2>3, <3>1, CutSharing DEF Disable
    <3>2. CASE ~HasHolds(hold, m)
      BY <2>2, <2>3, <3>2 DEF Disable
    <3> QED
      BY <3>1, <3>2
  <2>4. ASSUME NEW m \in Members, Retry(m) PROVE SharingInv'
    BY <2>2, <2>4 DEF Retry
  <2>5. ASSUME NEW e \in Enterprises, NEW x, SetEnterprise(e, x) PROVE SharingInv'
    BY <1>0, <2>5, CutSharing DEF SetEnterprise, leaseVars
  <2> QED
    BY <1>4, <2>1, <2>3, <2>4, <2>5, BoundAssumption DEF AdminNext
<1>5. ASSUME UNCHANGED <<now, lease, hold, handle>> PROVE SharingInv'
  BY <1>0, <1>5, CutSharing
<1>6. CASE LoginNext
  BY <1>5, <1>6 DEF LoginNext, BeginLogin, SaveToken, FailLogin, ImportToken, WriteCredential, leaseVars
<1>7. CASE WorkerNext
  <2>1. PICK m \in Members :
        \/ Pick(m) \/ Claim(m) \/ LoginConfirmed(m) \/ LoginStep(m) \/ LinkAccount(m)
        \/ PinCredentials(m) \/ ReadAccount(m) \/ ResetStage(m) \/ InvalidateRejected(m)
        \/ Warmed(m) \/ Promote(m) \/ LoseJob(m)
        \/ \E kind \in {"transient", "terminal", "manual"} : StepFail(m, kind)
    BY <1>7, BoundAssumption DEF WorkerNext
  <2>2. CASE Pick(m)
    BY <1>0, <2>2, ReclaimSharing DEF Pick
  <2>3. CASE Claim(m)
    BY <1>0, <2>3, CutSharing DEF Claim
  <2>4. CASE \E kind \in {"transient", "terminal", "manual"} : StepFail(m, kind)
    <3>1. lease' = CutLeases(lease, {m}) /\ UNCHANGED <<now, hold, handle>>
      BY <2>4 DEF StepFail
    <3> QED
      BY <1>0, <3>1, CutSharing
  <2>5. CASE \/ LoginConfirmed(m) \/ LoginStep(m) \/ LinkAccount(m) \/ PinCredentials(m) \/ ReadAccount(m)
             \/ ResetStage(m) \/ InvalidateRejected(m) \/ Warmed(m) \/ Promote(m) \/ LoseJob(m)
    BY <1>5, <2>5 DEF LoginConfirmed, LoginStep, LinkAccount, WriteCredential, PinCredentials, ReadAccount, ResetStage,
                      InvalidateRejected, Warmed, Promote, LoseJob, leaseVars
  <2> QED
    BY <2>1, <2>2, <2>3, <2>4, <2>5
<1>8. CASE UNCHANGED vars
  BY <1>5, <1>8 DEF vars, leaseVars
<1> QED
  BY <1>1, <1>2, <1>3, <1>4, <1>6, <1>7, <1>8 DEF Next

(* It holds of the initial rows. *)
LEMMA InitSharing ==
  ASSUME Init
  PROVE  SharingInv
<1>1. TypeOK
  <2>1. lease \in LeaseTable /\ hold \in HoldTable
    BY DEF Init, LeaseTable, HoldTable
  <2> QED
    BY <2>1, DurationAssumption DEF Init, TypeOK, MemberStates, Stages, OauthStatuses
<1>2. \A c \in Callers : lease[c] = NoLease
  BY DEF Init
<1>3. \A r \in Requests : hold[r] = NoHold /\ handle[r] = NoHandle
  BY DEF Init
<1> QED
  BY <1>1, <1>2, <1>3 DEF SharingInv, OneToOneIn, BoundIn, HoldHasLeaseIn, HandleHasHold, InFlight

(* The sharing invariant holds in every reachable state. *)
THEOREM Sharing == Spec => []SharingInv
<1>1. Init => SharingInv
  BY InitSharing
<1>2. SharingInv /\ [Next]_vars => SharingInv'
  BY NextSharing
<1> QED
  BY <1>1, <1>2, PTL DEF Spec

(* Two requests in flight use the same member exactly when they belong to the
   same caller. *)
THEOREM MembersAreNotShared == Spec => []OneCallerPerMember
<1>1. SharingInv => OneCallerPerMember
  <2> SUFFICES ASSUME SharingInv, NEW r \in Requests, NEW q \in Requests, InFlight(r), InFlight(q)
               PROVE  handle[r].member = handle[q].member <=> handle[r].caller = handle[q].caller
    BY DEF OneCallerPerMember
  <2>1. ASSUME NEW p \in Requests, InFlight(p)
        PROVE  /\ handle[p].caller \in Callers /\ handle[p].member \in Members
               /\ BoundIn(lease, hold, handle[p].caller, handle[p].member)
    <3>1. hold[p] # NoHold /\ hold[p].caller = handle[p].caller /\ hold[p].member = handle[p].member
      BY <2>1 DEF SharingInv, HandleHasHold
    <3>2. hold[p].caller \in Callers /\ hold[p].member \in Members
      BY <3>1 DEF SharingInv, TypeOK, HoldTable, HoldRow
    <3> QED
      BY <3>1, <3>2 DEF BoundIn
  <2> QED
    BY <2>1 DEF SharingInv, OneToOneIn
<1> QED
  BY <1>1, Sharing, PTL

(* A request in flight keeps its hold row and the lease it was admitted under. *)
THEOREM RequestsStayPinned == Spec => []InFlightIsPinned
<1>1. SharingInv => InFlightIsPinned
  BY DEF SharingInv, HandleHasHold, HoldHasLeaseIn, InFlightIsPinned
<1> QED
  BY <1>1, Sharing, PTL

(* No two callers are leased the same member. *)
THEOREM LeasesStayExclusive == Spec => []LeasesAreExclusive
<1>1. SharingInv => LeasesAreExclusive
  <2> SUFFICES ASSUME SharingInv, NEW c \in Callers, NEW d \in Callers, lease[c] # NoLease,
                      lease[d] # NoLease, lease[c].member = lease[d].member
               PROVE  c = d
    BY DEF LeasesAreExclusive
  <2>1. lease[c].member \in Members
    BY DEF SharingInv, TypeOK, LeaseTable, LeaseRow
  <2> QED
    BY <2>1 DEF SharingInv, OneToOneIn, BoundIn
<1> QED
  BY <1>1, Sharing, PTL

=============================================================================

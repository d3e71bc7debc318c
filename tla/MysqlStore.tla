----------------------------- MODULE MysqlStore -----------------------------
(* Transactions of the MySQL pool store (userPool/mysqlStore.ts) on one      *)
(* database. Unlike the SQLite store, whose operations exclude each other,   *)
(* admissions here run beside maintenance and administration: they take the  *)
(* caller's named lock and the credential rows of members, never the row of  *)
(* user_pool_settings that serialises everything else. A candidate is found  *)
(* without a lock and checked again behind its row lock. Writes take effect  *)
(* at COMMIT (READ COMMITTED); a lost connection rolls back.                 *)
(* Time is a set of flags: a row is live until a step lets it expire. What   *)
(* a member's credential and generation do is the subject of UserPool.       *)
EXTENDS Naturals, FiniteSets, FiniteSetsExt, TLC

CONSTANTS Sessions,  \* pooled connections at work
          Callers,
          Members,   \* identities, in their order
          Requests,  \* request ids of holds
          MaxEvents, \* bound on expiries, administration and rollbacks
          Nobody,    \* no owner of a lock, no job
          NoRow

VARIABLES
    state,      \* user_pool_accounts.state; "cooled": cooling, cooldown passed
    lease,      \* user_pool_leases by caller: [m, live]
    hold,       \* user_pool_holds and user_pool_catalog_holds by request
    gate,       \* the session that locks the row of user_pool_settings
    callerLock, \* the session that owns GET_LOCK of a caller
    row,        \* the session that locks the credential row of a member
    tx,         \* the transaction of each session
    events      \* expiries, administration and rollbacks so far

tables == <<state, lease, hold>>
locks == <<gate, callerLock, row>>
vars == <<tables, locks, tx, events>>

Init == /\ state = [m \in Members |-> "ready"]
        /\ lease = [c \in Callers |-> NoRow]
        /\ hold = [r \in Requests |-> NoRow]
        /\ gate = Nobody
        /\ callerLock = [c \in Callers |-> Nobody]
        /\ row = [m \in Members |-> Nobody]
        /\ tx = [s \in Sessions |-> Nobody]
        /\ events = 0

(* A transaction: an admission on its way through resolveAdmission, a finish,  *)
(* an operation behind the settings row, or a batch of reclaimTx.              *)
AdminJobs == {"quarantine", "cool", "release", "retry"}

Marks == ({"thaw"} \X Members) \cup ({"hold"} \X Requests) \cup ({"lease"} \X Callers)

AdmissionTx == [job: {"lease", "catalog"}, step: {"bound", "pick", "claim", "insert"}, c: Callers,
                bound: SUBSET Members, tried: SUBSET Members, m: Members \cup {NoRow}, gone: SUBSET Marks]
FinishTx == [job: {"finish"}, r: Requests, m: Members]
AdminTx == [job: AdminJobs, step: {"row", "commit"}, m: Members]
ReclaimTx == [job: {"reclaim"}, gone: SUBSET Marks]

LeaseRow == [m: Members, live: BOOLEAN]
HoldRow == [c: Callers, m: Members, kind: {"lease", "catalog"}, live: BOOLEAN]

ASSUME StoreAssumption == Members \subseteq Nat /\ IsFiniteSet(Members)

ASSUME AbsentAssumption ==
    /\ Nobody \notin Sessions
    /\ Nobody \notin AdmissionTx \cup FinishTx \cup AdminTx \cup ReclaimTx
    /\ NoRow \notin LeaseRow \cup HoldRow

(* Types of the rows, of the locks on them and of the transactions. *)
TypeOK == /\ state \in [Members -> {"ready", "cooling", "cooled", "failed"}]
          /\ lease \in [Callers -> LeaseRow \cup {NoRow}]
          /\ hold \in [Requests -> HoldRow \cup {NoRow}]
          /\ gate \in Sessions \cup {Nobody}
          /\ callerLock \in [Callers -> Sessions \cup {Nobody}]
          /\ row \in [Members -> Sessions \cup {Nobody}]
          /\ tx \in [Sessions -> AdmissionTx \cup FinishTx \cup AdminTx \cup ReclaimTx \cup {Nobody}]

-----------------------------------------------------------------------------
(* Reads.                                                                    *)
Held(m) == {r \in Requests : hold[r] # NoRow /\ hold[r].m = m}
HasHolds(m) == \E r \in Held(m) : hold[r].live
LeasedTo(m) == {c \in Callers : lease[c] # NoRow /\ lease[c].m = m}
CatalogHolds(c) == {r \in Requests : hold[r] # NoRow /\ hold[r].c = c /\ hold[r].kind = "catalog"}

Idle(s) == tx[s] = Nobody

(* reclaimMemberTx, as soon as the member's row is locked: a passed cooldown  *)
(* ends, expired holds go, and so does an expired lease nothing uses. The set *)
(* names the rows the transaction changes when it commits.                    *)
Gone(m) == {<<"thaw", x>> : x \in {x \in {m} : state[m] = "cooled"}}
           \cup {<<"hold", r>> : r \in {r \in Held(m) : ~hold[r].live}}
           \cup {<<"lease", c>> : c \in {c \in LeasedTo(m) :
                    ~lease[c].live /\ state[m] # "cooling" /\ ~HasHolds(m)}}

Thaw(g) == [m \in Members |-> IF <<"thaw", m>> \in g THEN "ready" ELSE state[m]]
DropHolds(g) == [r \in Requests |-> IF <<"hold", r>> \in g THEN NoRow ELSE hold[r]]
DropLeases(g) == [c \in Callers |-> IF <<"lease", c>> \in g THEN NoRow ELSE lease[c]]

(* The foreign key of user_pool_holds deletes the holds of a deleted lease.   *)
Cascade(holds, leases) ==
    [r \in Requests |-> IF holds[r] # NoRow /\ holds[r].kind = "lease" /\ leases[holds[r].c] = NoRow
                        THEN NoRow ELSE holds[r]]

Event == events < MaxEvents /\ events' = events + 1

(* COMMIT or ROLLBACK, then RELEASE_LOCK and the connection's return.        *)
Close(s) == /\ tx' = [tx EXCEPT ![s] = Nobody]
            /\ gate' = IF gate = s THEN Nobody ELSE gate
            /\ callerLock' = [c \in Callers |-> IF callerLock[c] = s THEN Nobody ELSE callerLock[c]]
            /\ row' = [m \in Members |-> IF row[m] = s THEN Nobody ELSE row[m]]

(* The deadline destroys the socket, or InnoDB refuses a lock.               *)
Rollback(s) == /\ ~Idle(s) /\ Event
               /\ Close(s)
               /\ UNCHANGED tables

-----------------------------------------------------------------------------
(* admitTx: one admission per caller across replicas, then the members bound *)
(* to the caller, in the order of their identities.                          *)
Bound(c) == {m \in Members : c \in LeasedTo(m) \/ \E r \in CatalogHolds(c) : hold[r].m = m}

(* Those with a catalog cooldown of the caller are bound as well: the rows of *)
(* user_pool_catalog_cooldowns are left open.                                *)
Admission(c, kind, cooled) == [job |-> kind, step |-> "bound", c |-> c, bound |-> Bound(c) \cup cooled,
                               tried |-> {}, m |-> NoRow, gone |-> {}]

LockCaller(s, c, kind) ==
    /\ Idle(s) /\ callerLock[c] = Nobody
    /\ callerLock' = [callerLock EXCEPT ![c] = s]
    /\ \E cooled \in SUBSET Members : tx' = [tx EXCEPT ![s] = Admission(c, kind, cooled)]
    /\ UNCHANGED <<tables, gate, row>>

Admitting(s, step) == /\ ~Idle(s) /\ tx[s].job \in {"lease", "catalog"} /\ tx[s].step = step

LockBound(s) ==
    /\ Admitting(s, "bound") /\ tx[s].bound # {}
    /\ LET m == Min(tx[s].bound) IN
       /\ row[m] \in {Nobody, s}
       /\ row' = [row EXCEPT ![m] = s]
       /\ tx' = [tx EXCEPT ![s] = [@ EXCEPT !.bound = tx[s].bound \ {m},
                                              !.gone = tx[s].gone \cup Gone(m)]]
    /\ UNCHANGED <<tables, gate, callerLock>>

(* resolveAdmission and availableMember: the caller's lease keeps its member, *)
(* then its catalog hold does; otherwise a member must be found.              *)
Leased(s) == DropLeases(tx[s].gone)[tx[s].c] # NoRow

Kept(s) == LET c == tx[s].c IN
           IF Leased(s) THEN {lease[c].m}
           ELSE {hold[r].m : r \in {r \in CatalogHolds(c) : DropHolds(tx[s].gone)[r] # NoRow}}

Resolve(s) ==
    /\ Admitting(s, "bound") /\ tx[s].bound = {}
    /\ IF Kept(s) = {}
       THEN tx' = [tx EXCEPT ![s] = [@ EXCEPT !.step = "pick"]]
       ELSE \E m \in Kept(s) : tx' = [tx EXCEPT ![s] = [@ EXCEPT !.step = "insert", !.m = m]]
    /\ UNCHANGED <<tables, locks>>

(* idleCandidate: what the committed rows show, without a lock.              *)
Candidates(s) == {m \in Members \ tx[s].tried :
                     /\ state[m] \in {"ready", "cooled"} /\ ~HasHolds(m)
                     /\ \A c \in LeasedTo(m) : ~lease[c].live}

Pick(s) ==
    /\ Admitting(s, "pick")
    /\ \E m \in Candidates(s) :
         tx' = [tx EXCEPT ![s] = [@ EXCEPT !.step = "claim", !.m = m,
                                              !.tried = tx[s].tried \cup {m}]]
    /\ UNCHANGED <<tables, locks>>

(* The candidate is taken as discovery saw it.                               *)
ClaimStale(s, m) == Thaw(Gone(m))[m] = "ready"

(* claimCandidate: FOR UPDATE SKIP LOCKED, then the recheck behind the lock. *)
Claimable(s, m) == /\ Thaw(Gone(m))[m] = "ready"
                   /\ LeasedTo(m) = {c \in Callers : <<"lease", c>> \in Gone(m)}
                   /\ Held(m) = {r \in Requests : <<"hold", r>> \in Gone(m)}

(* lockCredential with and without SKIP LOCKED.                              *)
WaitLocked == FALSE
SkipLocked == TRUE

ClaimCandidate(s) ==
    /\ Admitting(s, "claim")
    /\ LET m == tx[s].m IN
       \/ /\ row[m] \notin {Nobody, s} /\ SkipLocked
          /\ tx' = [tx EXCEPT ![s] = [@ EXCEPT !.step = "pick"]]
          /\ UNCHANGED row
       \/ /\ row[m] \in {Nobody, s}
          /\ row' = [row EXCEPT ![m] = s]
          /\ tx' = [tx EXCEPT ![s] = [@ EXCEPT !.gone = tx[s].gone \cup Gone(m),
                                              !.step = IF Claimable(s, m) THEN "insert" ELSE "pick"]]
    /\ UNCHANGED <<tables, gate, callerLock>>

(* assertReady, the second read of the lease, insertLease and hold, COMMIT.  *)
Admissible(s) == /\ Thaw(tx[s].gone)[tx[s].m] = "ready"
                 /\ Leased(s) => lease[tx[s].c].live

Admit(s) ==
    /\ Admitting(s, "insert") /\ Admissible(s)
    /\ LET c == tx[s].c  m == tx[s].m  kind == tx[s].job  g == tx[s].gone IN
       \E r \in Requests :
          /\ DropHolds(g)[r] = NoRow
          /\ state' = Thaw(g)
          /\ hold' = [DropHolds(g) EXCEPT ![r] = [c |-> c, m |-> m, kind |-> kind, live |-> TRUE]]
          /\ lease' = IF kind = "lease" /\ ~Leased(s)
                      THEN [DropLeases(g) EXCEPT ![c] = [m |-> m, live |-> TRUE]]
                      ELSE DropLeases(g)
    /\ Close(s)

CommitCleanup(s) == /\ state' = Thaw(tx[s].gone)
                    /\ hold' = DropHolds(tx[s].gone)
                    /\ lease' = DropLeases(tx[s].gone)
                    /\ Close(s)

(* The cleanup is committed even when the admission is refused.              *)
Reject(s) ==
    /\ \/ Admitting(s, "insert") /\ ~Admissible(s)
       \/ Admitting(s, "pick") /\ Candidates(s) = {}
    /\ CommitCleanup(s)

-----------------------------------------------------------------------------
(* finish: the credential row only. A success renews the lease of a ready    *)
(* member; the last hold takes an expired lease with it.                     *)
BeginFinish(s, r) ==
    /\ Idle(s) /\ hold[r] # NoRow
    /\ row[hold[r].m] = Nobody
    /\ row' = [row EXCEPT ![hold[r].m] = s]
    /\ tx' = [tx EXCEPT ![s] = [job |-> "finish", r |-> r, m |-> hold[r].m]]
    /\ UNCHANGED <<tables, gate, callerLock>>

Finish(s, success) ==
    /\ ~Idle(s) /\ tx[s].job = "finish"
    /\ LET r == tx[s].r
           m == tx[s].m
           renewed == [c \in Callers |->
                         IF /\ success /\ hold[r].kind = "lease" /\ hold[r].live
                            /\ c = hold[r].c /\ c \in LeasedTo(m) /\ state[m] = "ready"
                         THEN [m |-> m, live |-> TRUE] ELSE lease[c]]
           used == \E q \in Held(m) \ {r} : hold[q].live
           left == [c \in Callers |->
                         IF /\ renewed[c] # NoRow /\ renewed[c].m = m /\ ~renewed[c].live
                            /\ state[m] \notin {"cooling", "cooled"} /\ ~used
                         THEN NoRow ELSE renewed[c]]
       IN /\ lease' = left
          /\ hold' = Cascade([hold EXCEPT ![r] = NoRow], left)
    /\ Close(s)
    /\ UNCHANGED state

(* quarantine and disable fail the member and cut its lease short, cool cools *)
(* it, release frees an unused one, retry readies a failed one (after its     *)
(* rebuild): all behind the settings row and the credential row.              *)
BeginAdmin(s, job, m) ==
    /\ Idle(s) /\ gate = Nobody /\ Event
    /\ gate' = s
    /\ tx' = [tx EXCEPT ![s] = [job |-> job, step |-> "row", m |-> m]]
    /\ UNCHANGED <<tables, callerLock, row>>

LockMember(s) ==
    /\ ~Idle(s) /\ tx[s].job \in AdminJobs /\ tx[s].step = "row"
    /\ row[tx[s].m] = Nobody
    /\ row' = [row EXCEPT ![tx[s].m] = s]
    /\ tx' = [tx EXCEPT ![s] = [@ EXCEPT !.step = "commit"]]
    /\ UNCHANGED <<tables, gate, callerLock>>

(* releaseInactiveTx, and the expiry updateTx gives the lease of a member it  *)
(* invalidates.                                                               *)
Unleased(m) == [c \in Callers |-> IF c \in LeasedTo(m) THEN NoRow ELSE lease[c]]
Cut(m) == [c \in Callers |-> IF c \in LeasedTo(m) THEN [lease[c] EXCEPT !.live = FALSE] ELSE lease[c]]

Administer(s) ==
    /\ ~Idle(s) /\ tx[s].job \in AdminJobs /\ tx[s].step = "commit"
    /\ LET m == tx[s].m  job == tx[s].job
       IN \/ /\ job = "quarantine"
             /\ state' = [state EXCEPT ![m] = "failed"]
             /\ lease' = IF state[m] = "failed" THEN lease ELSE Cut(m)
          \/ /\ job = "cool" /\ state[m] # "failed"
             /\ state' = [state EXCEPT ![m] = "cooling"]
             /\ UNCHANGED lease
          \/ /\ job = "release" /\ ~HasHolds(m)
             /\ lease' = Unleased(m)
             /\ UNCHANGED state
          \/ /\ job = "retry" /\ state[m] = "failed" /\ ~HasHolds(m)
             /\ state' = [state EXCEPT ![m] = "ready"]
             /\ lease' = Unleased(m)
          \/ /\ \/ job = "cool" /\ state[m] = "failed"
                \/ job = "release" /\ HasHolds(m)
                \/ job = "retry" /\ (state[m] # "failed" \/ HasHolds(m))
             /\ UNCHANGED <<state, lease>>
    /\ hold' = Cascade(hold, lease')
    /\ Close(s)

-----------------------------------------------------------------------------
(* reclaimTx, behind the settings row: the members with something expired    *)
(* that the batch reaches (ReclaimCursor says which), each only if its row   *)
(* is free.                                                                  *)
Reclaimable == {m \in Members : \/ state[m] = "cooled"
                                \/ \E c \in LeasedTo(m) : ~lease[c].live
                                \/ \E r \in Held(m) : ~hold[r].live}

BeginReclaim(s) ==
    /\ Idle(s) /\ gate = Nobody /\ Reclaimable # {}
    /\ gate' = s
    /\ tx' = [tx EXCEPT ![s] = [job |-> "reclaim", gone |-> {}]]
    /\ UNCHANGED <<tables, callerLock, row>>

Visit(s) ==
    /\ ~Idle(s) /\ tx[s].job = "reclaim"
    /\ \E m \in Reclaimable :
       /\ row[m] = Nobody
       /\ row' = [row EXCEPT ![m] = s]
       /\ tx' = [tx EXCEPT ![s] = [@ EXCEPT !.gone = tx[s].gone \cup Gone(m)]]
    /\ UNCHANGED <<tables, gate, callerLock>>

Reclaim(s) ==
    /\ ~Idle(s) /\ tx[s].job = "reclaim"
    /\ CommitCleanup(s)

(* Time passes for one row.                                                  *)
Expire ==
    /\ \/ \E c \in Callers : /\ lease[c] # NoRow /\ lease[c].live
                             /\ lease' = [lease EXCEPT ![c] = [@ EXCEPT !.live = FALSE]]
                             /\ UNCHANGED <<state, hold>>
       \/ \E r \in Requests : /\ hold[r] # NoRow /\ hold[r].live
                              /\ hold' = [hold EXCEPT ![r] = [@ EXCEPT !.live = FALSE]]
                              /\ UNCHANGED <<state, lease>>
       \/ \E m \in Members : /\ state[m] = "cooling"
                             /\ state' = [state EXCEPT ![m] = "cooled"]
                             /\ UNCHANGED <<lease, hold>>
    /\ Event
    /\ UNCHANGED <<locks, tx>>

Transaction(s) ==
    \/ \E c \in Callers, kind \in {"lease", "catalog"} : LockCaller(s, c, kind)
    \/ LockBound(s) \/ Resolve(s) \/ Pick(s) \/ ClaimCandidate(s)
    \/ Admit(s) \/ Reject(s)
    \/ \E r \in Requests : BeginFinish(s, r)
    \/ \E success \in BOOLEAN : Finish(s, success)
    \/ LockMember(s) \/ Administer(s)
    \/ BeginReclaim(s) \/ Visit(s) \/ Reclaim(s)

Next == \/ \E s \in Sessions : Transaction(s) /\ UNCHANGED events
        \/ \E s \in Sessions, m \in Members, job \in AdminJobs : BeginAdmin(s, job, m)
        \/ \E s \in Sessions : Rollback(s)
        \/ Expire

Spec == Init /\ [][Next]_vars

-----------------------------------------------------------------------------
(* A member never serves two callers, through leases, through catalog holds  *)
(* or through one of each, although no key of the schema relates the two     *)
(* tables: discovery without locks is caught by the recheck.                 *)
MemberServesOneCaller ==
    \A m \in Members :
        Cardinality(LeasedTo(m) \cup {hold[r].c : r \in Held(m)}) <= 1

(* A caller's lease and its requests stay on one member, whichever replicas  *)
(* admitted them: the named lock orders admissions that no row lock would.   *)
CallerStaysOnOneMember ==
    \A c \in Callers :
        Cardinality({m \in Members : c \in LeasedTo(m)} \cup
                    {hold[r].m : r \in {r \in Requests : hold[r] # NoRow /\ hold[r].c = c}}) <= 1

(* What the SQLite store gets from its single writer holds across replicas.  *)
StoreIsSafe == MemberServesOneCaller /\ CallerStaysOnOneMember

(* The session a blocked session waits for; one that waits for a caller's    *)
(* lock has no other and is not begun here.                                  *)
WaitsFor(s) ==
    IF Idle(s) THEN Nobody
    ELSE IF Admitting(s, "bound") /\ tx[s].bound # {} THEN row[Min(tx[s].bound)]
    ELSE IF Admitting(s, "claim") /\ ~SkipLocked THEN row[tx[s].m]
    ELSE IF tx[s].job \in AdminJobs /\ tx[s].step = "row" THEN row[tx[s].m]
    ELSE Nobody

(* Transactions never wait for each other in a circle, so that a lock wait   *)
(* ends with the transaction that owns the lock: rows of bound members are   *)
(* taken in order, candidates only when they are free, and nobody asks for   *)
(* the settings row or a caller's lock with a credential row in hand.        *)
NoLockCycle ==
    \A S \in SUBSET Sessions : S # {} => \E s \in S : WaitsFor(s) \notin S \ {s}

-----------------------------------------------------------------------------
(* The inductive invariant behind the two. A transaction relies on what it    *)
(* read behind a lock it still owns; everybody else needs that lock to change *)
(* it.                                                                        *)

(* Caller c has member m, by its lease or by a hold. *)
Has(c, m) == c \in LeasedTo(m) \/ \E r \in Held(m) : hold[r].c = c

OneToOne == \A c, d \in Callers, m, n \in Members : Has(c, m) /\ Has(d, n) => (c = d <=> m = n)

(* The foreign key of user_pool_holds. *)
HoldHasLease == \A r \in Requests : hold[r] # NoRow /\ hold[r].kind = "lease"
                    => hold[r].c \in LeasedTo(hold[r].m)

Admits(s) == ~Idle(s) /\ tx[s].job \in {"lease", "catalog"}

(* Locks belong to transactions, and an admission has its caller's. *)
LocksAreOwned ==
    \A s \in Sessions :
        /\ Idle(s) => /\ \A m \in Members : row[m] # s
                      /\ \A c \in Callers : callerLock[c] # s
        /\ Admits(s) => callerLock[tx[s].c] = s

(* The rows a transaction deletes when it commits are of members it has       *)
(* locked, and a lease is not deleted without the holds that are on it.       *)
GoneIsLocked(s) ==
    /\ \A r \in Requests : <<"hold", r>> \in tx[s].gone => hold[r] # NoRow /\ row[hold[r].m] = s
    /\ \A c \in Callers : <<"lease", c>> \in tx[s].gone =>
           /\ lease[c] # NoRow /\ row[lease[c].m] = s
           /\ \A r \in Held(lease[c].m) : <<"hold", r>> \in tx[s].gone

(* After its cleanup the caller of an admission has nothing. *)
CallerIsFree(s) ==
    /\ ~Leased(s)
    /\ \A r \in Requests : hold[r] # NoRow /\ hold[r].c = tx[s].c => <<"hold", r>> \in tx[s].gone

(* After its cleanup nobody has the member. *)
MemberIsFree(s, m) ==
    /\ \A c \in LeasedTo(m) : <<"lease", c>> \in tx[s].gone
    /\ \A r \in Held(m) : <<"hold", r>> \in tx[s].gone

(* The member is the one the caller keeps. *)
MemberIsKept(s, m) ==
    /\ Leased(s) => lease[tx[s].c].m = m
    /\ ~Leased(s) => \E r \in Held(m) : hold[r].c = tx[s].c /\ <<"hold", r>> \notin tx[s].gone

(* What a transaction knows at each of its steps. *)
AdmissionIsSound(s) ==
    Admits(s) =>
        /\ tx[s].step = "bound" => \A m \in Members : Has(tx[s].c, m) => m \in tx[s].bound \/ row[m] = s
        /\ tx[s].step \in {"pick", "claim"} => CallerIsFree(s)
        /\ tx[s].step \in {"claim", "insert"} => tx[s].m \in Members
        /\ tx[s].step = "insert" =>
               /\ row[tx[s].m] = s
               /\ MemberIsKept(s, tx[s].m) \/ (CallerIsFree(s) /\ MemberIsFree(s, tx[s].m))

TransactionIsSound(s) ==
    ~Idle(s) =>
        /\ AdmissionIsSound(s)
        /\ tx[s].job \in {"lease", "catalog", "reclaim"} => GoneIsLocked(s)
        /\ tx[s].job = "finish" => /\ row[tx[s].m] = s
                                   /\ hold[tx[s].r] # NoRow /\ hold[tx[s].r].m = tx[s].m
        /\ tx[s].job \in AdminJobs /\ tx[s].step = "commit" => row[tx[s].m] = s

(* Rows of bound members are locked in the order of the identities, and what  *)
(* waits behind the settings row has no row yet.                              *)
LocksAreOrdered ==
    \A s \in Sessions, m \in Members : row[m] = s =>
        /\ Admitting(s, "bound") => \A n \in tx[s].bound : m < n
        /\ ~Idle(s) /\ tx[s].job \in AdminJobs => tx[s].step # "row"

StoreInv == /\ TypeOK
            /\ OneToOne
            /\ HoldHasLease
            /\ LocksAreOwned
            /\ \A s \in Sessions : TransactionIsSound(s)
            /\ LocksAreOrdered

=============================================================================

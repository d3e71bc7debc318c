----------------------------- MODULE MysqlProofs -----------------------------
(***************************************************************************)
(* The MySQL pool store, for any number of sessions, callers, members and  *)
(* requests: members and callers are paired one to one across replicas,    *)
(* and transactions never wait for each other in a circle.                 *)
(*                                                                         *)
(* A transaction reads rows at one time and writes at another.  The        *)
(* argument says what it still knows when it writes (TransactionIsSound)   *)
(* and that nobody else could have changed it: every step of another       *)
(* transaction is Confined to members whose credential row that one has    *)
(* locked, and gives a caller something new only under its named lock.     *)
(*                                                                         *)
(* And the gate that admits a caller's requests to the database, which     *)
(* shares no state with it, is a line per caller.                          *)
(*                                                                         *)
(* Last, the offline tools: whatever runs of them and Proxies overlap, a   *)
(* copy into MySQL is all or nothing.  A run keeps what it inspected under *)
(* the lock of the settings row (TransactionHolds), or counts its rows     *)
(* again (CommitIsWhole), and what is stored stays whole (ImportedIsAlone, *)
(* StoredIsWhole).                                                         *)
(***************************************************************************)
EXTENDS MCMysqlStore, CallerGate, FiniteSetTheorems, WellFoundedInduction, TLAPS

USE AbsentAssumption

(* The fields of the transaction of a session that is not idle. *)
LEMMA TxParts ==
  ASSUME TypeOK, NEW s \in Sessions, ~Idle(s)
  PROVE  /\ tx[s] \in AdmissionTx \cup FinishTx \cup AdminTx \cup ReclaimTx
         /\ tx[s].job \in {"lease", "catalog", "finish", "reclaim"} \cup AdminJobs
         /\ tx[s].job \in {"lease", "catalog"} =>
              /\ tx[s] \in AdmissionTx /\ tx[s].c \in Callers /\ tx[s].bound \subseteq Members
              /\ tx[s].step \in {"bound", "pick", "claim", "insert"} /\ tx[s].m \in Members \cup {NoRow}
         /\ tx[s].job = "finish" => tx[s] \in FinishTx /\ tx[s].r \in Requests /\ tx[s].m \in Members
         /\ tx[s].job \in AdminJobs =>
              tx[s] \in AdminTx /\ tx[s].m \in Members /\ tx[s].step \in {"row", "commit"}
         /\ tx[s].job = "reclaim" => tx[s] \in ReclaimTx
         /\ tx[s].job \in {"lease", "catalog", "reclaim"} => tx[s].gone \subseteq Marks
<1>1. tx[s] \in AdmissionTx \cup FinishTx \cup AdminTx \cup ReclaimTx
  BY DEF TypeOK, Idle
<1>2. CASE tx[s] \in AdmissionTx
  BY <1>2 DEF AdmissionTx, AdminJobs
<1>3. CASE tx[s] \in FinishTx
  BY <1>3 DEF FinishTx, AdminJobs
<1>4. CASE tx[s] \in AdminTx
  BY <1>4 DEF AdminTx, AdminJobs
<1>5. CASE tx[s] \in ReclaimTx
  BY <1>5 DEF ReclaimTx, AdminJobs
<1> QED
  BY <1>1, <1>2, <1>3, <1>4, <1>5

(* The fields of the rows. *)
LEMMA RowParts ==
  ASSUME TypeOK
  PROVE  /\ \A c \in Callers : lease[c] # NoRow =>
              lease[c] \in LeaseRow /\ lease[c].m \in Members /\ lease[c].live \in BOOLEAN
         /\ \A r \in Requests : hold[r] # NoRow =>
              /\ hold[r] \in HoldRow /\ hold[r].c \in Callers /\ hold[r].m \in Members
              /\ hold[r].kind \in {"lease", "catalog"} /\ hold[r].live \in BOOLEAN
BY DEF TypeOK, LeaseRow, HoldRow

-----------------------------------------------------------------------------
(* What a step leaves to the other transactions. *)

SameLease(c) ==
  \/ lease[c] = NoRow /\ lease'[c] = NoRow
  \/ lease[c] # NoRow /\ lease'[c] # NoRow /\ lease'[c].m = lease[c].m

SameHold(r) ==
  \/ hold[r] = NoRow /\ hold'[r] = NoRow
  \/ /\ hold[r] # NoRow /\ hold'[r] # NoRow
     /\ hold'[r].c = hold[r].c /\ hold'[r].m = hold[r].m /\ hold'[r].kind = hold[r].kind

(* Only rows of members that s has locked come or go, and only for a caller
   that s has locked do they come. *)
Confined(s) ==
  /\ \A c \in Callers :
       \/ SameLease(c)
       \/ /\ lease[c] # NoRow => row[lease[c].m] = s
          /\ lease'[c] # NoRow => row[lease'[c].m] = s /\ callerLock[c] = s
  /\ \A r \in Requests :
       \/ SameHold(r)
       \/ /\ hold[r] # NoRow => row[hold[r].m] = s
          /\ hold'[r] # NoRow => row[hold'[r].m] = s /\ callerLock[hold'[r].c] = s

(* The step leaves the transaction of t and its locks alone. *)
Untouched(t) ==
  /\ tx'[t] = tx[t]
  /\ \A m \in Members : row'[m] = t <=> row[m] = t
  /\ \A c \in Callers : callerLock'[c] = t <=> callerLock[c] = t

(* Whatever another transaction knows stays true. *)
LEMMA OthersStay ==
  ASSUME StoreInv, NEW s, Confined(s), NEW t \in Sessions, t # s, Untouched(t)
  PROVE  TransactionIsSound(t)'
<1>1. TypeOK /\ TransactionIsSound(t) /\ (Admits(t) => callerLock[tx[t].c] = t)
  BY DEF StoreInv, LocksAreOwned
<1>2. Idle(t)' <=> Idle(t)
  BY DEF Idle, Untouched
<1>3. CASE ~Idle(t)
  <2>1. tx'[t] = tx[t] /\ \A m \in Members : row[m] = t => row'[m] = t /\ row[m] # s
    BY DEF Untouched
  <2>2. ASSUME NEW c \in Callers, lease[c] # NoRow, row[lease[c].m] = t PROVE SameLease(c)
    BY <2>2 DEF Confined
  <2>3. ASSUME NEW r \in Requests, hold[r] # NoRow, row[hold[r].m] = t PROVE SameHold(r)
    BY <2>3 DEF Confined
  <2>4. ASSUME NEW m \in Members, row[m] = t, NEW r \in Held(m)' PROVE r \in Held(m) /\ SameHold(r)
    BY <2>4 DEF Confined, Held, SameHold
  <2>5. ASSUME NEW m \in Members, row[m] = t, NEW c \in LeasedTo(m)' PROVE c \in LeasedTo(m) /\ SameLease(c)
    BY <2>5 DEF Confined, LeasedTo, SameLease
  <2>6. tx[t].job \in {"lease", "catalog", "reclaim"} => GoneIsLocked(t)'
    <3> SUFFICES ASSUME tx[t].job \in {"lease", "catalog", "reclaim"} PROVE GoneIsLocked(t)'
      OBVIOUS
    <3>1. GoneIsLocked(t)
      BY <1>1, <1>3 DEF TransactionIsSound
    <3>2. ASSUME NEW r \in Requests, <<"hold", r>> \in tx[t].gone
          PROVE  hold'[r] # NoRow /\ row'[hold'[r].m] = t
      <4>1. hold[r] # NoRow /\ row[hold[r].m] = t /\ hold[r].m \in Members
        BY <1>1, <3>1, <3>2, RowParts DEF GoneIsLocked
      <4> QED
        BY <2>1, <2>3, <4>1 DEF SameHold
    <3>3. ASSUME NEW c \in Callers, <<"lease", c>> \in tx[t].gone
          PROVE  /\ lease'[c] # NoRow /\ row'[lease'[c].m] = t
                 /\ \A r \in Requests : hold'[r] # NoRow /\ hold'[r].m = lease'[c].m => <<"hold", r>> \in tx[t].gone
      <4>1. /\ lease[c] # NoRow /\ row[lease[c].m] = t /\ lease[c].m \in Members
            /\ \A r \in Held(lease[c].m) : <<"hold", r>> \in tx[t].gone
        BY <1>1, <3>1, <3>3, RowParts DEF GoneIsLocked
      <4>2. lease'[c] # NoRow /\ lease'[c].m = lease[c].m
        BY <2>2, <4>1 DEF SameLease
      <4>3. ASSUME NEW m, m = lease[c].m PROVE \A r \in Held(m)' : <<"hold", r>> \in tx[t].gone
        BY <2>4, <4>1, <4>3
      <4>4. \A r \in Requests : hold'[r] # NoRow /\ hold'[r].m = lease'[c].m => <<"hold", r>> \in tx[t].gone
        BY <4>2, <4>3 DEF Held
      <4> QED
        BY <2>1, <4>1, <4>2, <4>4
    <3> QED
      BY <2>1, <3>2, <3>3 DEF GoneIsLocked, Held
  <2>7. tx[t].job = "finish" => /\ row'[tx[t].m] = t
                                /\ hold'[tx[t].r] # NoRow /\ hold'[tx[t].r].m = tx[t].m
    <3> SUFFICES ASSUME tx[t].job = "finish"
                 PROVE  /\ row'[tx[t].m] = t
                        /\ hold'[tx[t].r] # NoRow /\ hold'[tx[t].r].m = tx[t].m
      OBVIOUS
    <3>1. tx[t].r \in Requests /\ tx[t].m \in Members
      BY <1>1, <1>3, TxParts
    <3>2. row[tx[t].m] = t /\ hold[tx[t].r] # NoRow /\ hold[tx[t].r].m = tx[t].m
      BY <1>1, <1>3 DEF TransactionIsSound
    <3> QED
      BY <2>1, <2>3, <3>1, <3>2 DEF SameHold
  <2>8. tx[t].job \in AdminJobs /\ tx[t].step = "commit" => row'[tx[t].m] = t
    BY <1>1, <1>3, <2>1, TxParts DEF TransactionIsSound
  <2>9. AdmissionIsSound(t)'
    <3> DEFINE c == tx[t].c
    <3> SUFFICES ASSUME Admits(t) PROVE AdmissionIsSound(t)'
      BY <2>1 DEF AdmissionIsSound, Admits, Idle
    <3>1. AdmissionIsSound(t) /\ callerLock[c] = t /\ c \in Callers /\ tx[t].m \in Members \cup {NoRow}
      BY <1>1, <1>3, TxParts DEF TransactionIsSound, Admits
    <3>2. lease'[c] # NoRow => SameLease(c)
      BY <3>1 DEF Confined
    <3>3. ASSUME NEW r \in Requests, hold'[r] # NoRow, hold'[r].c = c PROVE SameHold(r)
      BY <3>1, <3>3 DEF Confined
    <3> HIDE DEF c
    <3>4. ASSUME NEW m \in Members, Has(c, m)' PROVE Has(c, m)
      BY <3>1, <3>2, <3>3, <3>4 DEF Has, LeasedTo, Held, SameLease, SameHold, c, Untouched
    <3>5. Leased(t) <=> lease[c] # NoRow /\ <<"lease", c>> \notin tx[t].gone
      BY <3>1 DEF Leased, DropLeases, c
    <3>6. Leased(t)' <=> lease'[c] # NoRow /\ <<"lease", c>> \notin tx[t].gone
      BY <2>1, <3>1 DEF Leased, DropLeases, c
    <3>7. CallerIsFree(t) => CallerIsFree(t)'
      BY <2>1, <3>2, <3>3, <3>5, <3>6 DEF CallerIsFree, SameLease, SameHold, c
    <3>8. ASSUME NEW m \in Members, row[m] = t, MemberIsFree(t, m)
          PROVE  MemberIsFree(t, m)'
      BY <2>1, <2>4, <2>5, <3>8 DEF MemberIsFree
    <3>9. ASSUME NEW m \in Members, row[m] = t, MemberIsKept(t, m)
          PROVE  MemberIsKept(t, m)'
      <4>1. CASE Leased(t)
        <5>1. lease[c].m = m /\ SameLease(c)
          BY <2>2, <3>1, <3>5, <3>9, <4>1 DEF MemberIsKept, c
        <5> QED
          BY <2>1, <3>5, <3>6, <4>1, <5>1 DEF MemberIsKept, SameLease, c
      <4>2. CASE ~Leased(t)
        <5>1. ~Leased(t)'
          BY <3>2, <3>5, <3>6, <4>2 DEF SameLease
        <5>2. PICK r \in Held(m) : hold[r].c = c /\ <<"hold", r>> \notin tx[t].gone
          BY <3>9, <4>2 DEF MemberIsKept, c
        <5>3. r \in Held(m)' /\ hold'[r].c = c
          BY <2>3, <3>9, <5>2 DEF Held, SameHold
        <5> QED
          BY <2>1, <5>1, <5>2, <5>3 DEF MemberIsKept, c
      <4> QED
        BY <4>1, <4>2
    <3>10. /\ tx[t].step = "bound" => \A m \in Members : Has(c, m)' => m \in tx[t].bound \/ row'[m] = t
           /\ tx[t].step \in {"pick", "claim"} => CallerIsFree(t)'
           /\ tx[t].step \in {"claim", "insert"} => tx[t].m \in Members
      BY <2>1, <3>1, <3>4, <3>7 DEF AdmissionIsSound, c
    <3>11. ASSUME tx[t].step = "insert", NEW m, m = tx[t].m
           PROVE  row'[m] = t /\ (MemberIsKept(t, m)' \/ (CallerIsFree(t)' /\ MemberIsFree(t, m)'))
      BY <2>1, <3>1, <3>7, <3>8, <3>9, <3>11 DEF AdmissionIsSound
    <3>12. tx[t].step = "insert" =>
             /\ row'[tx'[t].m] = t
             /\ MemberIsKept(t, tx[t].m)' \/ (CallerIsFree(t)' /\ MemberIsFree(t, tx[t].m)')
      BY <2>1, <3>11 DEF MemberIsKept, MemberIsFree, Held, LeasedTo
    <3>13. \A m \in Members : Has(tx[t].c, m)' <=> Has(c, m)'
      BY <2>1 DEF Has, c
    <3> QED
      BY <2>1, <3>10, <3>12, <3>13 DEF AdmissionIsSound
  <2> QED
    BY <2>1, <2>6, <2>7, <2>8, <2>9 DEF TransactionIsSound
<1> QED
  BY <1>2, <1>3 DEF TransactionIsSound

OwnsItsLocks(s) ==
  /\ Idle(s) => /\ \A m \in Members : row[m] # s
                /\ \A c \in Callers : callerLock[c] # s
  /\ Admits(s) => callerLock[tx[s].c] = s

LocksInOrder(s) ==
  \A m \in Members : row[m] = s =>
    /\ Admitting(s, "bound") => \A n \in tx[s].bound : m < n
    /\ ~Idle(s) /\ tx[s].job \in AdminJobs => tx[s].step # "row"

(* A step of s, once its own part and the tables are seen to. *)
LEMMA StepOf ==
  ASSUME StoreInv, TypeOK', NEW s, Confined(s), OneToOne', HoldHasLease',
         \A t \in Sessions : t # s => Untouched(t),
         s \in Sessions => OwnsItsLocks(s)' /\ LocksInOrder(s)' /\ TransactionIsSound(s)'
  PROVE  StoreInv'
<1>1. ASSUME NEW t \in Sessions PROVE OwnsItsLocks(t)' /\ LocksInOrder(t)' /\ TransactionIsSound(t)'
  <2>1. CASE t = s
    BY <2>1
  <2>2. CASE t # s
    <3>1. Untouched(t) /\ OwnsItsLocks(t) /\ LocksInOrder(t)
      BY <2>2 DEF StoreInv, LocksAreOwned, LocksAreOrdered, OwnsItsLocks, LocksInOrder
    <3>2. TransactionIsSound(t)'
      BY <2>2, <3>1, OthersStay
    <3>3. OwnsItsLocks(t)'
      <4>1. Admits(t) => tx[t].c \in Callers
        BY TxParts DEF StoreInv, Admits
      <4> QED
        BY <3>1, <4>1 DEF OwnsItsLocks, Untouched, Idle, Admits
    <3>4. LocksInOrder(t)'
      BY <3>1 DEF LocksInOrder, Untouched, Idle, Admitting
    <3> QED
      BY <3>2, <3>3, <3>4
  <2> QED
    BY <2>1, <2>2
<1>2. LocksAreOwned' /\ LocksAreOrdered' /\ \A t \in Sessions : TransactionIsSound(t)'
  BY <1>1 DEF LocksAreOwned, LocksAreOrdered, OwnsItsLocks, LocksInOrder
<1> QED
  BY <1>2 DEF StoreInv

(* A step that leaves the tables alone. *)
LEMMA ReadStep ==
  ASSUME StoreInv, TypeOK', NEW s \in Sessions, UNCHANGED tables,
         \A t \in Sessions : t # s => Untouched(t),
         OwnsItsLocks(s)', LocksInOrder(s)', TransactionIsSound(s)'
  PROVE  StoreInv'
<1>1. lease' = lease /\ hold' = hold
  BY DEF tables
<1>2. Confined(s)
  BY <1>1 DEF Confined, SameLease, SameHold
<1>3. OneToOne' /\ HoldHasLease'
  BY <1>1 DEF StoreInv, OneToOne, HoldHasLease, Has, Held, LeasedTo
<1> QED
  BY <1>2, <1>3, StepOf

(* The end of a transaction. *)
LEMMA CloseStep ==
  ASSUME StoreInv, TypeOK', NEW s \in Sessions, Close(s), Confined(s), OneToOne', HoldHasLease'
  PROVE  StoreInv'
<1>1. TypeOK
  BY DEF StoreInv
<1>2. tx'[s] = Nobody /\ \A t \in Sessions : t # s => tx'[t] = tx[t]
  BY <1>1 DEF Close, TypeOK
<1>3. /\ \A m \in Members : row'[m] = IF row[m] = s THEN Nobody ELSE row[m]
      /\ \A c \in Callers : callerLock'[c] = IF callerLock[c] = s THEN Nobody ELSE callerLock[c]
  BY DEF Close
<1>4. \A t \in Sessions : t # s => Untouched(t)
  BY <1>2, <1>3 DEF Untouched
<1>5. Idle(s)' /\ (\A m \in Members : row'[m] # s) /\ \A c \in Callers : callerLock'[c] # s
  BY <1>2, <1>3 DEF Idle
<1>6. OwnsItsLocks(s)' /\ LocksInOrder(s)' /\ TransactionIsSound(s)'
  BY <1>5 DEF OwnsItsLocks, LocksInOrder, TransactionIsSound, Admits
<1> QED
  BY <1>4, <1>6, StepOf

(* Rows that only go away, or change nothing of whom they join, keep the
   pairing. *)
LEMMA FewerRows ==
  ASSUME OneToOne, \A c \in Callers : lease'[c] = NoRow \/ SameLease(c),
         \A r \in Requests : hold'[r] = NoRow \/ SameHold(r)
  PROVE  OneToOne'
<1>1. ASSUME NEW c \in Callers, NEW m \in Members, Has(c, m)' PROVE Has(c, m)
  BY <1>1 DEF Has, LeasedTo, Held, SameLease, SameHold
<1> QED
  BY <1>1 DEF OneToOne

-----------------------------------------------------------------------------
(* Types. *)

(* An admission with some of its fields replaced. *)
Edited(x, y, step, m, bound, gone) ==
  /\ y \in AdmissionTx /\ y # Nobody
  /\ y.job = x.job /\ y.c = x.c /\ y.step = step /\ y.m = m /\ y.bound = bound /\ y.gone = gone

LEMMA BoundEdit ==
  ASSUME NEW x \in AdmissionTx, NEW b \in SUBSET Members, NEW g \in SUBSET Marks
  PROVE  Edited(x, [x EXCEPT !.bound = b, !.gone = g], x.step, x.m, b, g)
BY DEF AdmissionTx, Edited

LEMMA StepEdit ==
  ASSUME NEW x \in AdmissionTx, NEW st \in {"bound", "pick", "claim", "insert"}
  PROVE  Edited(x, [x EXCEPT !.step = st], st, x.m, x.bound, x.gone)
BY DEF AdmissionTx, Edited

LEMMA MemberEdit ==
  ASSUME NEW x \in AdmissionTx, NEW st \in {"bound", "pick", "claim", "insert"}, NEW m \in Members
  PROVE  Edited(x, [x EXCEPT !.step = st, !.m = m], st, m, x.bound, x.gone)
BY DEF AdmissionTx, Edited

LEMMA PickEdit ==
  ASSUME NEW x \in AdmissionTx, NEW st \in {"bound", "pick", "claim", "insert"}, NEW m \in Members,
         NEW tr \in SUBSET Members
  PROVE  Edited(x, [x EXCEPT !.step = st, !.m = m, !.tried = tr], st, m, x.bound, x.gone)
BY DEF AdmissionTx, Edited

LEMMA ClaimEdit ==
  ASSUME NEW x \in AdmissionTx, NEW st \in {"bound", "pick", "claim", "insert"}, NEW g \in SUBSET Marks
  PROVE  Edited(x, [x EXCEPT !.gone = g, !.step = st], st, x.m, x.bound, g)
BY DEF AdmissionTx, Edited

LEMMA GoneType ==
  ASSUME NEW m \in Members
  PROVE  Gone(m) \subseteq Marks
BY DEF Gone, Marks, Held, LeasedTo

(* A commit of the rows reclaimMemberTx found. *)
LEMMA CleanupType ==
  ASSUME TypeOK, NEW g
  PROVE  /\ Thaw(g) \in [Members -> {"ready", "cooling", "cooled", "failed"}]
         /\ DropHolds(g) \in [Requests -> HoldRow \cup {NoRow}]
         /\ DropLeases(g) \in [Callers -> LeaseRow \cup {NoRow}]
BY DEF TypeOK, Thaw, DropHolds, DropLeases

LEMMA CloseType ==
  ASSUME TypeOK, NEW s, Close(s)
  PROVE  /\ gate' \in Sessions \cup {Nobody}
         /\ callerLock' \in [Callers -> Sessions \cup {Nobody}]
         /\ row' \in [Members -> Sessions \cup {Nobody}]
         /\ tx' \in [Sessions -> AdmissionTx \cup FinishTx \cup AdminTx \cup ReclaimTx \cup {Nobody}]
BY DEF TypeOK, Close

-----------------------------------------------------------------------------
(* The steps of a transaction that only read. *)

(* An admission begins with what its caller has, and the members that cool
   for it. *)
LEMMA LockCallerStep ==
  ASSUME StoreInv, NEW s \in Sessions, NEW c \in Callers, NEW kind \in {"lease", "catalog"},
         LockCaller(s, c, kind)
  PROVE  StoreInv'
<1>0. PICK cooled \in SUBSET Members : tx' = [tx EXCEPT ![s] = Admission(c, kind, cooled)]
  BY DEF LockCaller
<1> DEFINE a == Admission(c, kind, cooled)
<1>1. TypeOK /\ Idle(s) /\ callerLock[c] = Nobody /\ OwnsItsLocks(s)
  BY DEF StoreInv, LockCaller, LocksAreOwned, OwnsItsLocks
<1>2. a \in AdmissionTx
  BY DEF Admission, AdmissionTx, Bound
<1>3. a.job = kind /\ a.c = c /\ a.step = "bound" /\ a.bound = Bound(c) \cup cooled /\ a.gone = {} /\ a # Nobody
  BY <1>2 DEF Admission
<1> HIDE DEF a
<1>4. /\ tx' = [tx EXCEPT ![s] = a] /\ callerLock' = [callerLock EXCEPT ![c] = s]
      /\ UNCHANGED <<tables, gate, row>>
  BY <1>0 DEF LockCaller, a
<1>5. TypeOK'
  BY <1>1, <1>2, <1>4 DEF TypeOK, tables
<1>6. tx'[s] = a /\ callerLock'[c] = s /\ row' = row /\ lease' = lease /\ hold' = hold
  BY <1>1, <1>4 DEF TypeOK, tables
<1>7. \A t \in Sessions : t # s => Untouched(t)
  BY <1>1, <1>4 DEF Untouched, TypeOK
<1>8. OwnsItsLocks(s)' /\ LocksInOrder(s)'
  BY <1>1, <1>3, <1>6 DEF OwnsItsLocks, LocksInOrder, Idle, Admits
<1>9. AdmissionIsSound(s)'
  <2>1. ASSUME NEW m \in Members, Has(c, m) PROVE m \in Bound(c)
    BY <2>1 DEF StoreInv, HoldHasLease, Has, Bound, Held, LeasedTo, CatalogHolds, TypeOK, HoldRow
  <2>2. \A m \in Members : Has(c, m)' => m \in Bound(c)
    BY <1>6, <2>1 DEF Has, Held, LeasedTo
  <2> QED
    BY <1>3, <1>6, <2>2 DEF AdmissionIsSound
<1>10. TransactionIsSound(s)'
  BY <1>3, <1>6, <1>9 DEF TransactionIsSound, GoneIsLocked, AdminJobs
<1> QED
  BY <1>4, <1>5, <1>7, <1>8, <1>10, ReadStep

(* What reclaimMemberTx finds of a member once its row is locked. *)
LEMMA GoneOfMember ==
  ASSUME TypeOK, NEW m \in Members
  PROVE  /\ \A r \in Requests : <<"hold", r>> \in Gone(m) => hold[r] # NoRow /\ hold[r].m = m
         /\ \A c \in Callers : <<"lease", c>> \in Gone(m) =>
              /\ lease[c] # NoRow /\ lease[c].m = m
              /\ \A r \in Held(m) : <<"hold", r>> \in Gone(m)
BY DEF Gone, Held, LeasedTo, HasHolds

LEMMA MoreIsGone ==
  ASSUME TypeOK, NEW s \in Sessions, NEW m \in Members, GoneIsLocked(s), UNCHANGED <<lease, hold>>,
         tx'[s].gone = tx[s].gone \cup Gone(m), row' = [row EXCEPT ![m] = s]
  PROVE  GoneIsLocked(s)'
<1>1. row'[m] = s /\ \A n \in Members : row[n] = s => row'[n] = s
  BY DEF TypeOK
<1>2. ASSUME NEW r \in Requests, <<"hold", r>> \in tx'[s].gone
      PROVE  hold[r] # NoRow /\ row'[hold[r].m] = s
  <2>1. CASE <<"hold", r>> \in tx[s].gone
    BY <1>1, <2>1, RowParts DEF GoneIsLocked
  <2>2. CASE <<"hold", r>> \in Gone(m)
    BY <1>1, <2>2, GoneOfMember
  <2> QED
    BY <1>2, <2>1, <2>2
<1>3. ASSUME NEW c \in Callers, <<"lease", c>> \in tx'[s].gone
      PROVE  /\ lease[c] # NoRow /\ row'[lease[c].m] = s
             /\ \A r \in Held(lease[c].m) : <<"hold", r>> \in tx'[s].gone
  <2>1. CASE <<"lease", c>> \in tx[s].gone
    BY <1>1, <2>1, RowParts DEF GoneIsLocked
  <2>2. CASE <<"lease", c>> \in Gone(m)
    BY <1>1, <2>2, GoneOfMember
  <2> QED
    BY <1>3, <2>1, <2>2
<1> QED
  BY <1>2, <1>3 DEF GoneIsLocked, Held

(* A nonempty set of members has a first and a last one. *)
LEMMA SetEnds ==
  ASSUME NEW S \in SUBSET Members, S # {}
  PROVE  (\E x \in S : \A y \in S : x <= y) /\ (\E x \in S : \A y \in S : y <= x)
<1>1. S \subseteq Nat /\ IsFiniteSet(S)
  BY StoreAssumption, FS_Subset
<1>2. ASSUME NEW f \in [S -> SUBSET S] PROVE \E x \in S : \A y \in S : ~(f[y] \subseteq f[x] /\ f[y] # f[x])
  <2> DEFINE T == {f[x] : x \in S}
  <2>1. T \subseteq FiniteSubsetsOf(S) /\ T # {}
    <3>1. \A x \in S : f[x] \in SUBSET S
      OBVIOUS
    <3>2. T \subseteq SUBSET S /\ T # {}
      BY <3>1
    <3> HIDE DEF T
    <3> QED
      BY <1>1, <3>2, FS_Subset DEF FiniteSubsetsOf
  <2>2. IsWellFoundedOn(StrictSubsetOrdering(S), FiniteSubsetsOf(S))
    BY FS_StrictSubsetOrderingWellFounded
  <2> HIDE DEF T
  <2>3. PICK D \in T : \A E \in T : ~(<<E, D>> \in StrictSubsetOrdering(S))
    BY <2>1, <2>2, WFMin
  <2> USE DEF T
  <2>4. PICK x \in S : D = f[x]
    OBVIOUS
  <2>5. ASSUME NEW y \in S, f[y] \subseteq f[x], f[y] # f[x] PROVE FALSE
    <3>1. <<f[y], f[x]>> \in StrictSubsetOrdering(S)
      BY <2>5 DEF StrictSubsetOrdering
    <3> QED
      BY <2>3, <2>4, <3>1
  <2> QED
    BY <2>5
<1>3. \E x \in S : \A y \in S : x <= y
  <2> DEFINE f == [x \in S |-> {z \in S : z < x}]
  <2>1. f \in [S -> SUBSET S]
    OBVIOUS
  <2>2. \A x \in S : f[x] = {z \in S : z < x}
    OBVIOUS
  <2> HIDE DEF f
  <2>3. PICK x \in S : \A y \in S : ~(f[y] \subseteq f[x] /\ f[y] # f[x])
    BY <1>2, <2>1
  <2>4. ASSUME NEW y \in S, y < x PROVE FALSE
    <3>1. x \in Nat /\ y \in Nat /\ f[x] \in SUBSET S /\ f[y] \in SUBSET S
      BY <1>1, <2>1
    <3>2. y \in f[x] /\ y \notin f[y]
      BY <2>4, <2>2, <3>1
    <3>3. ASSUME NEW z \in f[y] PROVE z \in f[x]
      <4>1. z \in S /\ z \in Nat
        BY <1>1, <3>1
      <4>2. z < y => z < x
        BY <2>4, <3>1, <4>1
      <4> QED
        BY <2>2, <4>1, <4>2
    <3> QED
      BY <2>3, <3>2, <3>3
  <2> QED
    BY <1>1, <2>4
<1>4. \E x \in S : \A y \in S : y <= x
  <2> DEFINE f == [x \in S |-> {z \in S : x < z}]
  <2>1. f \in [S -> SUBSET S]
    OBVIOUS
  <2>2. \A x \in S : f[x] = {z \in S : x < z}
    OBVIOUS
  <2> HIDE DEF f
  <2>3. PICK x \in S : \A y \in S : ~(f[y] \subseteq f[x] /\ f[y] # f[x])
    BY <1>2, <2>1
  <2>4. ASSUME NEW y \in S, x < y PROVE FALSE
    <3>1. x \in Nat /\ y \in Nat /\ f[x] \in SUBSET S /\ f[y] \in SUBSET S
      BY <1>1, <2>1
    <3>2. y \in f[x] /\ y \notin f[y]
      BY <2>4, <2>2, <3>1
    <3>3. ASSUME NEW z \in f[y] PROVE z \in f[x]
      <4>1. z \in S /\ z \in Nat
        BY <1>1, <3>1
      <4>2. y < z => x < z
        BY <2>4, <3>1, <4>1
      <4> QED
        BY <2>2, <4>1, <4>2
    <3> QED
      BY <2>3, <3>2, <3>3
  <2> QED
    BY <1>1, <2>4
<1> QED
  BY <1>3, <1>4

LEMMA MinOfSet ==
  ASSUME NEW S \in SUBSET Members, S # {}
  PROVE  Min(S) \in S /\ \A n \in S : Min(S) <= n
BY SetEnds DEF Min

(* The rows of bound members are locked one after the other. *)
LEMMA LockBoundStep ==
  ASSUME StoreInv, NEW s \in Sessions, LockBound(s)
  PROVE  StoreInv'
<1> DEFINE m == Min(tx[s].bound)
           b == tx[s].bound \ {m}
           g == tx[s].gone \cup Gone(m)
           a == [tx[s] EXCEPT !.bound = b, !.gone = g]
<1>1. /\ TypeOK /\ Admitting(s, "bound") /\ tx[s].bound # {} /\ ~Idle(s) /\ Admits(s)
      /\ OwnsItsLocks(s) /\ LocksInOrder(s) /\ TransactionIsSound(s)
  BY DEF StoreInv, LockBound, LocksAreOwned, OwnsItsLocks, LocksAreOrdered, LocksInOrder, Admitting, Admits
<1>2. /\ tx[s] \in AdmissionTx /\ tx[s].c \in Callers /\ tx[s].bound \subseteq Members
      /\ tx[s].gone \subseteq Marks /\ tx[s].step = "bound"
  BY <1>1, TxParts DEF Admits, Admitting
<1>3. m \in tx[s].bound /\ (\A n \in tx[s].bound : m <= n) /\ m \in Members
  BY <1>1, <1>2, MinOfSet
<1>4. g \subseteq Marks /\ b \subseteq Members
  BY <1>2, <1>3, GoneType
<1> HIDE DEF m, b, g
<1>5. Edited(tx[s], a, tx[s].step, tx[s].m, b, g)
  BY <1>2, <1>4, BoundEdit
<1>6. /\ row[m] \in {Nobody, s} /\ row' = [row EXCEPT ![m] = s] /\ tx' = [tx EXCEPT ![s] = a]
      /\ UNCHANGED <<tables, gate, callerLock>>
  BY DEF LockBound, m, b, g
<1> HIDE DEF a
<1> USE DEF Edited
<1>7. TypeOK'
  BY <1>1, <1>3, <1>5, <1>6 DEF TypeOK, tables
<1>8. tx'[s] = a /\ a # Nobody /\ callerLock' = callerLock /\ lease' = lease /\ hold' = hold
      /\ row'[m] = s /\ \A n \in Members : n # m => row'[n] = row[n]
  BY <1>1, <1>3, <1>5, <1>6 DEF TypeOK, tables
<1>9. \A t \in Sessions : t # s => Untouched(t)
  BY <1>1, <1>3, <1>6, <1>8 DEF Untouched, TypeOK
<1>10. OwnsItsLocks(s)'
  BY <1>1, <1>5, <1>8 DEF OwnsItsLocks, Idle, Admits
<1>11. LocksInOrder(s)'
  <2>1. ASSUME NEW n \in Members, row'[n] = s, NEW k \in b PROVE n < k
    <3>1. k \in tx[s].bound /\ k # m /\ k \in Nat /\ m \in Nat /\ n \in Nat
      BY <1>2, <1>3, StoreAssumption DEF b
    <3>2. CASE n = m
      BY <1>3, <3>1, <3>2
    <3>3. CASE n # m
      BY <1>1, <1>8, <2>1, <3>1, <3>3 DEF LocksInOrder
    <3> QED
      BY <3>2, <3>3
  <2>2. tx'[s].job \notin AdminJobs
    BY <1>1, <1>5, <1>8 DEF Admits, AdminJobs
  <2> QED
    BY <1>5, <1>8, <2>1, <2>2 DEF LocksInOrder
<1>12. AdmissionIsSound(s)'
  <2>1. ASSUME NEW n \in Members, Has(tx[s].c, n) PROVE n \in b \/ row'[n] = s
    <3>1. n \in tx[s].bound \/ row[n] = s
      BY <1>1, <1>2, <2>1 DEF TransactionIsSound, AdmissionIsSound
    <3> QED
      BY <1>8, <3>1 DEF b
  <2>2. tx'[s].c = tx[s].c /\ tx'[s].step = "bound" /\ tx'[s].bound = b
    BY <1>2, <1>5, <1>8
  <2>3. \A n \in Members : Has(tx[s].c, n)' <=> Has(tx[s].c, n)
    BY <1>8, <2>2 DEF Has, Held, LeasedTo
  <2> QED
    BY <2>1, <2>2, <2>3 DEF AdmissionIsSound
<1>13. GoneIsLocked(s)'
  BY <1>1, <1>3, <1>5, <1>6, <1>8, MoreIsGone DEF g, TransactionIsSound, Admits
<1>14. TransactionIsSound(s)'
  BY <1>1, <1>5, <1>8, <1>12, <1>13 DEF TransactionIsSound, Admits, AdminJobs
<1> QED
  BY <1>6, <1>7, <1>9, <1>10, <1>11, <1>14, ReadStep

(* A later step of an admission, which locks no row or one that is free. *)
LEMMA AdmissionStep ==
  ASSUME StoreInv, NEW s \in Sessions, Admits(s),
         NEW a, NEW step, step # "bound", NEW m, NEW b, NEW g, Edited(tx[s], a, step, m, b, g),
         tx' = [tx EXCEPT ![s] = a], UNCHANGED <<tables, gate, callerLock>>,
         \/ row' = row
         \/ \E k \in Members : row[k] \in {Nobody, s} /\ row' = [row EXCEPT ![k] = s],
         AdmissionIsSound(s)', GoneIsLocked(s)'
  PROVE  StoreInv'
<1>1. TypeOK /\ ~Idle(s) /\ OwnsItsLocks(s)
  BY DEF StoreInv, LocksAreOwned, OwnsItsLocks, Admits
<1>2. tx'[s] = a /\ \A t \in Sessions : t # s => tx'[t] = tx[t]
  BY <1>1 DEF TypeOK
<1>3. /\ row' \in [Members -> Sessions \cup {Nobody}]
      /\ \A t \in Sessions, k \in Members : t # s => (row'[k] = t <=> row[k] = t)
  BY <1>1 DEF TypeOK
<1>4. TypeOK'
  BY <1>1, <1>3 DEF TypeOK, tables, Edited
<1>5. \A t \in Sessions : t # s => Untouched(t)
  BY <1>2, <1>3 DEF Untouched
<1>6. Admits(s)' /\ ~Idle(s)' /\ tx'[s].c = tx[s].c /\ tx'[s].step # "bound" /\ tx'[s].job \notin AdminJobs
      /\ tx'[s].job \in {"lease", "catalog"}
  BY <1>2 DEF Admits, Idle, Edited, AdminJobs
<1>7. OwnsItsLocks(s)' /\ LocksInOrder(s)'
  BY <1>1, <1>6 DEF OwnsItsLocks, LocksInOrder, Admitting
<1>8. TransactionIsSound(s)'
  BY <1>6 DEF TransactionIsSound
<1> QED
  BY <1>4, <1>5, <1>7, <1>8, ReadStep

(* What every step of an admission starts from. *)
LEMMA AdmissionFacts ==
  ASSUME StoreInv, NEW s \in Sessions, Admits(s)
  PROVE  /\ TypeOK /\ ~Idle(s) /\ AdmissionIsSound(s) /\ GoneIsLocked(s)
         /\ tx[s] \in AdmissionTx /\ tx[s].c \in Callers /\ tx[s].m \in Members \cup {NoRow}
         /\ tx[s].bound \subseteq Members /\ tx[s].gone \subseteq Marks /\ tx[s].tried \subseteq Members
         /\ tx[s].job \in {"lease", "catalog"} /\ callerLock[tx[s].c] = s
<1>1. TypeOK /\ ~Idle(s) /\ TransactionIsSound(s) /\ tx[s].job \in {"lease", "catalog"}
      /\ callerLock[tx[s].c] = s
  BY DEF StoreInv, Admits, LocksAreOwned
<1>2. /\ tx[s] \in AdmissionTx /\ tx[s].c \in Callers /\ tx[s].m \in Members \cup {NoRow}
      /\ tx[s].bound \subseteq Members /\ tx[s].gone \subseteq Marks
  BY <1>1, TxParts
<1>3. tx[s].tried \subseteq Members
  BY <1>2 DEF AdmissionTx
<1> QED
  BY <1>1, <1>2, <1>3 DEF TransactionIsSound

(* Leased in the rows as they are. *)
LEMMA LeasedMeans ==
  ASSUME NEW s, tx[s].c \in Callers
  PROVE  Leased(s) <=> lease[tx[s].c] # NoRow /\ <<"lease", tx[s].c>> \notin tx[s].gone
BY DEF Leased, DropLeases

(* A caller for whom nothing is kept has nothing after the cleanup. *)
LEMMA NothingKept ==
  ASSUME StoreInv, NEW s \in Sessions, Admits(s), Kept(s) = {}
  PROVE  CallerIsFree(s)
<1> DEFINE c == tx[s].c
<1>1. TypeOK /\ GoneIsLocked(s) /\ c \in Callers
  BY AdmissionFacts
<1>2. ~Leased(s)
  BY DEF Kept
<1>3. ASSUME NEW r \in Requests, hold[r] # NoRow, hold[r].c = c PROVE <<"hold", r>> \in tx[s].gone
  <2>1. hold[r].kind \in {"lease", "catalog"} /\ hold[r].m \in Members
    BY <1>1, <1>3, RowParts
  <2>2. CASE hold[r].kind = "catalog"
    <3>1. r \in CatalogHolds(c)
      BY <1>3, <2>2 DEF CatalogHolds
    <3>2. DropHolds(tx[s].gone)[r] = NoRow
      BY <1>2, <3>1 DEF Kept
    <3> QED
      BY <1>3, <3>2 DEF DropHolds
  <2>3. CASE hold[r].kind = "lease"
    <3>1. lease[c] # NoRow /\ lease[c].m = hold[r].m
      BY <1>3, <2>3 DEF StoreInv, HoldHasLease, LeasedTo
    <3>2. <<"lease", c>> \in tx[s].gone
      BY <1>1, <1>2, <3>1, LeasedMeans
    <3> QED
      BY <1>1, <1>3, <3>1, <3>2 DEF GoneIsLocked, Held
  <2> QED
    BY <2>1, <2>2, <2>3
<1> QED
  BY <1>2, <1>3 DEF CallerIsFree

(* A member that is kept is the caller's, and its row is locked. *)
LEMMA KeptIsLocked ==
  ASSUME StoreInv, NEW s \in Sessions, Admitting(s, "bound"), tx[s].bound = {}, NEW m \in Kept(s)
  PROVE  m \in Members /\ row[m] = s /\ MemberIsKept(s, m)
<1> DEFINE c == tx[s].c
<1>1. /\ TypeOK /\ c \in Callers
      /\ \A n \in Members : Has(c, n) => row[n] = s
  BY AdmissionFacts DEF Admitting, Admits, AdmissionIsSound
<1>2. CASE Leased(s)
  <2>1. m = lease[c].m /\ lease[c] # NoRow
    BY <1>1, <1>2, LeasedMeans DEF Kept
  <2>2. m \in Members /\ Has(c, m)
    BY <1>1, <2>1, RowParts DEF Has, LeasedTo
  <2> QED
    BY <1>1, <1>2, <2>1, <2>2 DEF MemberIsKept
<1>3. CASE ~Leased(s)
  <2>1. PICK r \in CatalogHolds(c) : DropHolds(tx[s].gone)[r] # NoRow /\ m = hold[r].m
    BY <1>3 DEF Kept
  <2>2. r \in Requests /\ hold[r] # NoRow /\ hold[r].c = c /\ <<"hold", r>> \notin tx[s].gone
    BY <2>1 DEF CatalogHolds, DropHolds
  <2>3. m \in Members /\ Has(c, m) /\ r \in Held(m)
    BY <1>1, <2>1, <2>2, RowParts DEF Has, Held
  <2> QED
    BY <1>1, <1>3, <2>2, <2>3 DEF MemberIsKept
<1> QED
  BY <1>2, <1>3

(* The member of the admission is the one its caller keeps, or a search for
   one begins. *)
LEMMA ResolveStep ==
  ASSUME StoreInv, NEW s \in Sessions, Resolve(s)
  PROVE  StoreInv'
<1>1. /\ Admitting(s, "bound") /\ tx[s].bound = {} /\ UNCHANGED <<tables, locks>> /\ Admits(s)
      /\ lease' = lease /\ hold' = hold /\ row' = row
  BY DEF Resolve, Admitting, Admits, tables, locks
<1>2. /\ TypeOK /\ GoneIsLocked(s) /\ tx[s] \in AdmissionTx
  BY <1>1, AdmissionFacts
<1>3. CASE Kept(s) = {}
  <2> DEFINE a == [tx[s] EXCEPT !.step = "pick"]
  <2>1. Edited(tx[s], a, "pick", tx[s].m, tx[s].bound, tx[s].gone)
    BY <1>2, StepEdit
  <2>2. tx' = [tx EXCEPT ![s] = a]
    BY <1>3 DEF Resolve
  <2> HIDE DEF a
  <2>3. tx'[s].c = tx[s].c /\ tx'[s].gone = tx[s].gone /\ tx'[s].step = "pick"
    BY <1>2, <2>1, <2>2 DEF Edited, TypeOK
  <2>4. CallerIsFree(s)
    BY <1>1, <1>3, NothingKept
  <2>5. CallerIsFree(s)' /\ GoneIsLocked(s)'
    BY <1>1, <1>2, <2>3, <2>4 DEF CallerIsFree, Leased, DropLeases, GoneIsLocked, Held
  <2>6. AdmissionIsSound(s)'
    BY <2>3, <2>5 DEF AdmissionIsSound
  <2> QED
    BY <1>1, <2>1, <2>2, <2>5, <2>6, AdmissionStep DEF locks
<1>4. ASSUME NEW m \in Kept(s), tx' = [tx EXCEPT ![s] = [@ EXCEPT !.step = "insert", !.m = m]] PROVE StoreInv'
  <2> DEFINE a == [tx[s] EXCEPT !.step = "insert", !.m = m]
  <2>1. m \in Members /\ row[m] = s /\ MemberIsKept(s, m)
    BY <1>1, KeptIsLocked
  <2>2. Edited(tx[s], a, "insert", m, tx[s].bound, tx[s].gone)
    BY <1>2, <2>1, MemberEdit
  <2>3. tx' = [tx EXCEPT ![s] = a]
    BY <1>4
  <2> HIDE DEF a
  <2>4. tx'[s].c = tx[s].c /\ tx'[s].gone = tx[s].gone /\ tx'[s].step = "insert" /\ tx'[s].m = m
    BY <1>2, <2>2, <2>3 DEF Edited, TypeOK
  <2>5. MemberIsKept(s, m)' /\ GoneIsLocked(s)'
    BY <1>1, <1>2, <2>1, <2>4 DEF MemberIsKept, Leased, DropLeases, GoneIsLocked, Held
  <2>6. MemberIsKept(s, tx[s].m)'
    BY <2>4, <2>5 DEF MemberIsKept, Held
  <2>7. AdmissionIsSound(s)'
    BY <1>1, <2>1, <2>4, <2>6 DEF AdmissionIsSound
  <2> QED
    BY <1>1, <2>2, <2>3, <2>5, <2>7, AdmissionStep DEF locks
<1> QED
  BY <1>3, <1>4 DEF Resolve

LEMMA PickStep ==
  ASSUME StoreInv, NEW s \in Sessions, Pick(s)
  PROVE  StoreInv'
<1>1. /\ Admitting(s, "pick") /\ UNCHANGED <<tables, locks>> /\ Admits(s)
      /\ lease' = lease /\ hold' = hold /\ row' = row
  BY DEF Pick, Admitting, Admits, tables, locks
<1>2. /\ TypeOK /\ GoneIsLocked(s) /\ tx[s] \in AdmissionTx /\ CallerIsFree(s) /\ tx[s].tried \subseteq Members
  BY <1>1, AdmissionFacts DEF Admitting, AdmissionIsSound
<1>3. PICK m \in Candidates(s) :
        tx' = [tx EXCEPT ![s] = [@ EXCEPT !.step = "claim", !.m = m, !.tried = tx[s].tried \cup {m}]]
  BY DEF Pick
<1>4. m \in Members
  BY DEF Candidates
<1> DEFINE tr == tx[s].tried \cup {m}
<1>5. tr \in SUBSET Members
  BY <1>2, <1>4
<1> HIDE DEF tr
<1> DEFINE a == [tx[s] EXCEPT !.step = "claim", !.m = m, !.tried = tr]
<1>6. Edited(tx[s], a, "claim", m, tx[s].bound, tx[s].gone)
  BY <1>2, <1>4, <1>5, PickEdit
<1>7. tx' = [tx EXCEPT ![s] = a]
  BY <1>3 DEF tr
<1> HIDE DEF a
<1>8. tx'[s].c = tx[s].c /\ tx'[s].gone = tx[s].gone /\ tx'[s].step = "claim" /\ tx'[s].m = m
  BY <1>2, <1>6, <1>7 DEF Edited, TypeOK
<1>9. CallerIsFree(s)' /\ GoneIsLocked(s)'
  BY <1>1, <1>2, <1>8 DEF CallerIsFree, Leased, DropLeases, GoneIsLocked, Held
<1>10. AdmissionIsSound(s)'
  BY <1>4, <1>8, <1>9 DEF AdmissionIsSound
<1> QED
  BY <1>1, <1>6, <1>7, <1>9, <1>10, AdmissionStep DEF locks

(* The candidate is checked behind its lock. *)
LEMMA ClaimCandidateStep ==
  ASSUME StoreInv, NEW s \in Sessions, ClaimCandidate(s)
  PROVE  StoreInv'
<1> DEFINE m == tx[s].m
<1>1. /\ Admitting(s, "claim") /\ UNCHANGED <<tables, gate, callerLock>> /\ Admits(s)
      /\ lease' = lease /\ hold' = hold
  BY DEF ClaimCandidate, Admitting, Admits, tables
<1>2. /\ TypeOK /\ GoneIsLocked(s) /\ tx[s] \in AdmissionTx /\ CallerIsFree(s)
      /\ m \in Members /\ tx[s].gone \subseteq Marks /\ tx[s].c \in Callers
  BY <1>1, AdmissionFacts DEF Admitting, AdmissionIsSound
<1>3. CASE tx' = [tx EXCEPT ![s] = [@ EXCEPT !.step = "pick"]] /\ UNCHANGED row
  <2> DEFINE a == [tx[s] EXCEPT !.step = "pick"]
  <2>1. Edited(tx[s], a, "pick", tx[s].m, tx[s].bound, tx[s].gone)
    BY <1>2, StepEdit
  <2>2. tx' = [tx EXCEPT ![s] = a] /\ row' = row
    BY <1>3
  <2> HIDE DEF a
  <2>3. tx'[s].c = tx[s].c /\ tx'[s].gone = tx[s].gone /\ tx'[s].step = "pick"
    BY <1>2, <2>1, <2>2 DEF Edited, TypeOK
  <2>4. CallerIsFree(s)' /\ GoneIsLocked(s)'
    BY <1>1, <1>2, <2>2, <2>3 DEF CallerIsFree, Leased, DropLeases, GoneIsLocked, Held
  <2>5. AdmissionIsSound(s)'
    BY <2>3, <2>4 DEF AdmissionIsSound
  <2> QED
    BY <1>1, <2>1, <2>2, <2>4, <2>5, AdmissionStep
<1>4. ASSUME row[m] \in {Nobody, s}, row' = [row EXCEPT ![m] = s],
             tx' = [tx EXCEPT ![s] = [@ EXCEPT !.gone = tx[s].gone \cup Gone(m),
                                              !.step = IF Claimable(s, m) THEN "insert" ELSE "pick"]]
      PROVE  StoreInv'
  <2> DEFINE g == tx[s].gone \cup Gone(m)
             st == IF Claimable(s, m) THEN "insert" ELSE "pick"
  <2>1. g \in SUBSET Marks /\ st \in {"insert", "pick"}
    BY <1>2, GoneType
  <2> HIDE DEF g, st
  <2> DEFINE a == [tx[s] EXCEPT !.gone = g, !.step = st]
  <2>2. Edited(tx[s], a, st, tx[s].m, tx[s].bound, g)
    BY <1>2, <2>1, ClaimEdit
  <2>3. tx' = [tx EXCEPT ![s] = a]
    BY <1>4 DEF g, st
  <2> HIDE DEF a
  <2>4. tx'[s].c = tx[s].c /\ tx'[s].gone = g /\ tx'[s].step = st /\ tx'[s].m = m /\ row'[m] = s
    BY <1>2, <1>4, <2>2, <2>3 DEF Edited, TypeOK
  <2>5. GoneIsLocked(s)'
    BY <1>1, <1>2, <1>4, <2>4, MoreIsGone DEF g
  <2>6. CallerIsFree(s)'
    <3>1. tx[s].gone \subseteq g
      BY DEF g
    <3>2. ~Leased(s)'
      BY <1>1, <1>2, <2>4, <3>1 DEF CallerIsFree, Leased, DropLeases
    <3> QED
      BY <1>1, <1>2, <2>4, <3>1, <3>2 DEF CallerIsFree
  <2>7. ASSUME st = "insert", NEW n, n = m PROVE MemberIsFree(s, n)'
    <3>1. Claimable(s, n)
      BY <2>7 DEF st
    <3>2. Gone(n) \subseteq g
      BY <2>7 DEF g
    <3> QED
      BY <1>1, <2>4, <3>1, <3>2 DEF MemberIsFree, Claimable, Held, LeasedTo
  <2>8. st = "insert" => MemberIsFree(s, tx[s].m)'
    BY <2>4, <2>7 DEF MemberIsFree, Held, LeasedTo
  <2>9. AdmissionIsSound(s)'
    BY <1>2, <2>1, <2>4, <2>6, <2>8 DEF AdmissionIsSound
  <2> QED
    BY <1>1, <1>2, <1>4, <2>1, <2>2, <2>3, <2>5, <2>9, AdmissionStep
<1> QED
  BY <1>3, <1>4 DEF ClaimCandidate

(* Nobody but s changes, and the tables stay. *)
LEMMA RowLocked ==
  ASSUME StoreInv, NEW s \in Sessions, NEW m \in Members, row[m] \in {Nobody, s}, row' = [row EXCEPT ![m] = s],
         NEW a \in FinishTx \cup AdminTx \cup ReclaimTx, tx' = [tx EXCEPT ![s] = a],
         UNCHANGED <<tables, gate, callerLock>>,
         a.job \in {"finish", "reclaim"} \/ (a.job \in AdminJobs /\ a.step = "commit"),
         TransactionIsSound(s)'
  PROVE  StoreInv'
<1>1. TypeOK /\ a # Nobody
  BY DEF StoreInv
<1>2. TypeOK'
  BY <1>1 DEF TypeOK, tables
<1>3. tx'[s] = a /\ callerLock' = callerLock
  BY <1>1 DEF TypeOK
<1>4. \A t \in Sessions : t # s => Untouched(t)
  BY <1>1 DEF Untouched, TypeOK
<1>5. ~Idle(s)' /\ ~Admits(s)' /\ ~Admitting(s, "bound")' /\ (tx'[s].job \in AdminJobs => tx'[s].step # "row")
  BY <1>1, <1>3 DEF Idle, Admits, Admitting, AdminJobs
<1>6. OwnsItsLocks(s)' /\ LocksInOrder(s)'
  BY <1>5 DEF OwnsItsLocks, LocksInOrder
<1> QED
  BY <1>2, <1>4, <1>6, ReadStep

(* A finish locks the row of the member of its hold. *)
LEMMA BeginFinishStep ==
  ASSUME StoreInv, NEW s \in Sessions, NEW r \in Requests, BeginFinish(s, r)
  PROVE  StoreInv'
<1> DEFINE m == hold[r].m
           a == [job |-> "finish", r |-> r, m |-> m]
<1>1. TypeOK /\ hold[r] # NoRow /\ m \in Members /\ row[m] = Nobody
  BY RowParts DEF StoreInv, BeginFinish
<1>2. a \in FinishTx /\ a.job = "finish" /\ a.r = r /\ a.m = m
  BY <1>1 DEF FinishTx
<1>3. /\ row' = [row EXCEPT ![m] = s] /\ tx' = [tx EXCEPT ![s] = a] /\ UNCHANGED <<tables, gate, callerLock>>
      /\ hold' = hold
  BY DEF BeginFinish, tables
<1> HIDE DEF m, a
<1>4. tx'[s] = a /\ row'[m] = s
  BY <1>1, <1>3 DEF TypeOK
<1>5. TransactionIsSound(s)'
  BY <1>1, <1>2, <1>3, <1>4 DEF TransactionIsSound, AdmissionIsSound, Admits, AdminJobs, m
<1> QED
  BY <1>1, <1>2, <1>3, <1>4, <1>5, RowLocked

(* Administration gets the row of its member last. *)
LEMMA LockMemberStep ==
  ASSUME StoreInv, NEW s \in Sessions, LockMember(s)
  PROVE  StoreInv'
<1> DEFINE m == tx[s].m
           a == [tx[s] EXCEPT !.step = "commit"]
<1>1. TypeOK /\ ~Idle(s) /\ tx[s].job \in AdminJobs /\ row[m] = Nobody
  BY DEF StoreInv, LockMember
<1>2. m \in Members /\ tx[s] \in AdminTx
  BY <1>1, TxParts
<1>3. a \in AdminTx /\ a.job = tx[s].job /\ a.m = m /\ a.step = "commit"
  BY <1>2 DEF AdminTx
<1>4. /\ row' = [row EXCEPT ![m] = s] /\ tx' = [tx EXCEPT ![s] = a] /\ UNCHANGED <<tables, gate, callerLock>>
  BY DEF LockMember
<1> HIDE DEF m, a
<1>5. tx'[s] = a /\ row'[m] = s
  BY <1>1, <1>2, <1>4 DEF TypeOK
<1>6. TransactionIsSound(s)'
  BY <1>1, <1>3, <1>5 DEF TransactionIsSound, AdmissionIsSound, Admits, AdminJobs
<1> QED
  BY <1>1, <1>2, <1>3, <1>4, <1>6, RowLocked

(* A batch takes rows that are free. *)
LEMMA VisitStep ==
  ASSUME StoreInv, NEW s \in Sessions, Visit(s)
  PROVE  StoreInv'
<1>1. TypeOK /\ ~Idle(s) /\ tx[s].job = "reclaim" /\ GoneIsLocked(s)
  BY DEF StoreInv, Visit, TransactionIsSound
<1>2. tx[s] \in ReclaimTx /\ tx[s].gone \subseteq Marks
  BY <1>1, TxParts
<1>3. PICK m \in Reclaimable :
        /\ row[m] = Nobody /\ row' = [row EXCEPT ![m] = s]
        /\ tx' = [tx EXCEPT ![s] = [@ EXCEPT !.gone = tx[s].gone \cup Gone(m)]]
  BY DEF Visit
<1>4. m \in Members /\ UNCHANGED <<tables, gate, callerLock>> /\ UNCHANGED <<lease, hold>>
  BY DEF Reclaimable, Visit, tables
<1> DEFINE g == tx[s].gone \cup Gone(m)
<1>5. g \in SUBSET Marks
  BY <1>2, <1>4, GoneType
<1> HIDE DEF g
<1> DEFINE a == [tx[s] EXCEPT !.gone = g]
<1>6. a \in ReclaimTx /\ a.job = "reclaim" /\ a.gone = g
  BY <1>1, <1>2, <1>5 DEF ReclaimTx
<1>7. tx' = [tx EXCEPT ![s] = a]
  BY <1>3 DEF g
<1> HIDE DEF a
<1>8. tx'[s] = a
  BY <1>1, <1>7 DEF TypeOK
<1>9. GoneIsLocked(s)'
  BY <1>1, <1>3, <1>4, <1>6, <1>8, MoreIsGone DEF g
<1>10. TransactionIsSound(s)'
  BY <1>6, <1>8, <1>9 DEF TransactionIsSound, AdmissionIsSound, Admits, AdminJobs
<1> QED
  BY <1>1, <1>3, <1>4, <1>6, <1>7, <1>10, RowLocked

(* A transaction that begins with the settings row. *)
LEMMA GateTaken ==
  ASSUME StoreInv, NEW s \in Sessions, Idle(s), gate' = s,
         NEW a \in AdminTx \cup ReclaimTx, tx' = [tx EXCEPT ![s] = a],
         UNCHANGED <<tables, callerLock, row>>, TransactionIsSound(s)'
  PROVE  StoreInv'
<1>1. TypeOK /\ OwnsItsLocks(s) /\ a # Nobody /\ a.job \notin {"lease", "catalog"}
  BY DEF StoreInv, LocksAreOwned, OwnsItsLocks, AdminTx, ReclaimTx, AdminJobs
<1>2. TypeOK'
  BY <1>1 DEF TypeOK, tables
<1>3. tx'[s] = a /\ callerLock' = callerLock /\ row' = row
  BY <1>1 DEF TypeOK
<1>4. \A t \in Sessions : t # s => Untouched(t)
  BY <1>1, <1>3 DEF Untouched, TypeOK
<1>5. OwnsItsLocks(s)' /\ LocksInOrder(s)'
  BY <1>1, <1>3 DEF OwnsItsLocks, LocksInOrder, Idle, Admits
<1> QED
  BY <1>2, <1>4, <1>5, ReadStep

LEMMA BeginAdminStep ==
  ASSUME StoreInv, NEW s \in Sessions, NEW m \in Members, NEW job \in AdminJobs, BeginAdmin(s, job, m)
  PROVE  StoreInv'
<1> DEFINE a == [job |-> job, step |-> "row", m |-> m]
<1>1. a \in AdminTx /\ a.job = job /\ a.step = "row"
  BY DEF AdminTx
<1>2. Idle(s) /\ gate' = s /\ tx' = [tx EXCEPT ![s] = a] /\ UNCHANGED <<tables, callerLock, row>>
  BY DEF BeginAdmin
<1> HIDE DEF a
<1>3. tx'[s] = a
  BY <1>2 DEF StoreInv, TypeOK
<1>4. TransactionIsSound(s)'
  BY <1>1, <1>3 DEF TransactionIsSound, AdmissionIsSound, Admits, AdminJobs
<1> QED
  BY <1>1, <1>2, <1>4, GateTaken

LEMMA BeginReclaimStep ==
  ASSUME StoreInv, NEW s \in Sessions, BeginReclaim(s)
  PROVE  StoreInv'
<1> DEFINE a == [job |-> "reclaim", gone |-> {}]
<1>1. a \in ReclaimTx /\ a.job = "reclaim" /\ a.gone = {}
  BY DEF ReclaimTx
<1>2. Idle(s) /\ gate' = s /\ tx' = [tx EXCEPT ![s] = a] /\ UNCHANGED <<tables, callerLock, row>>
  BY DEF BeginReclaim
<1> HIDE DEF a
<1>3. tx'[s] = a
  BY <1>2 DEF StoreInv, TypeOK
<1>4. TransactionIsSound(s)'
  BY <1>1, <1>3 DEF TransactionIsSound, AdmissionIsSound, Admits, AdminJobs, GoneIsLocked
<1> QED
  BY <1>1, <1>2, <1>4, GateTaken

-----------------------------------------------------------------------------
(* The ends of transactions, and time. *)

(* A rollback leaves every row. *)
LEMMA RollbackStep ==
  ASSUME StoreInv, NEW s \in Sessions, Rollback(s)
  PROVE  StoreInv'
<1>1. TypeOK /\ Close(s) /\ state' = state /\ lease' = lease /\ hold' = hold
  BY DEF StoreInv, Rollback, tables
<1>2. TypeOK'
  BY <1>1, CloseType DEF TypeOK
<1>3. Confined(s)
  BY <1>1 DEF Confined, SameLease, SameHold
<1>4. OneToOne' /\ HoldHasLease'
  BY <1>1 DEF StoreInv, OneToOne, HoldHasLease, Has, Held, LeasedTo
<1> QED
  BY <1>1, <1>2, <1>3, <1>4, CloseStep

(* What is left after the cleanup was there before, and a hold that is left has
   its lease left. *)
LEMMA CleanupLeaves ==
  ASSUME StoreInv, NEW s \in Sessions, GoneIsLocked(s), NEW g, g = tx[s].gone
  PROVE  /\ \A c \in Callers :
              \/ DropLeases(g)[c] = lease[c]
              \/ DropLeases(g)[c] = NoRow /\ lease[c] # NoRow /\ row[lease[c].m] = s
         /\ \A r \in Requests :
              \/ DropHolds(g)[r] = hold[r]
              \/ DropHolds(g)[r] = NoRow /\ hold[r] # NoRow /\ row[hold[r].m] = s
         /\ \A r \in Requests : DropHolds(g)[r] # NoRow /\ hold[r].kind = "lease" =>
              /\ DropHolds(g)[r] = hold[r]
              /\ lease[hold[r].c] # NoRow /\ lease[hold[r].c].m = hold[r].m
              /\ DropLeases(g)[hold[r].c] = lease[hold[r].c]
<1>1. ASSUME NEW r \in Requests, DropHolds(g)[r] # NoRow, hold[r].kind = "lease"
      PROVE  /\ DropHolds(g)[r] = hold[r]
             /\ lease[hold[r].c] # NoRow /\ lease[hold[r].c].m = hold[r].m
             /\ DropLeases(g)[hold[r].c] = lease[hold[r].c]
  <2> DEFINE c == hold[r].c
  <2>1. DropHolds(g)[r] = hold[r] /\ hold[r] # NoRow /\ <<"hold", r>> \notin g
    BY <1>1 DEF DropHolds
  <2>2. c \in Callers /\ lease[c] # NoRow /\ lease[c].m = hold[r].m
    BY <1>1, <2>1, RowParts DEF StoreInv, HoldHasLease, LeasedTo
  <2>3. <<"lease", c>> \notin g
    BY <1>1, <2>1, <2>2 DEF GoneIsLocked, Held
  <2> QED
    BY <2>1, <2>2, <2>3 DEF DropLeases
<1>2. \A c \in Callers : \/ DropLeases(g)[c] = lease[c]
                         \/ DropLeases(g)[c] = NoRow /\ lease[c] # NoRow /\ row[lease[c].m] = s
  BY DEF DropLeases, GoneIsLocked
<1>3. \A r \in Requests : \/ DropHolds(g)[r] = hold[r]
                          \/ DropHolds(g)[r] = NoRow /\ hold[r] # NoRow /\ row[hold[r].m] = s
  BY DEF DropHolds, GoneIsLocked
<1> QED
  BY <1>1, <1>2, <1>3

(* The cleanup of a refused admission or of a batch. *)
LEMMA CommitCleanupStep ==
  ASSUME StoreInv, NEW s \in Sessions, GoneIsLocked(s), CommitCleanup(s)
  PROVE  StoreInv'
<1> DEFINE g == tx[s].gone
<1>1. /\ TypeOK /\ Close(s)
      /\ state' = Thaw(g) /\ hold' = DropHolds(g) /\ lease' = DropLeases(g)
  BY DEF StoreInv, CommitCleanup
<1>2. TypeOK'
  BY <1>1, CleanupType, CloseType DEF TypeOK
<1> HIDE DEF g
<1>3. /\ \A c \in Callers : lease'[c] = lease[c] \/ (lease'[c] = NoRow /\ lease[c] # NoRow /\ row[lease[c].m] = s)
      /\ \A r \in Requests : hold'[r] = hold[r] \/ (hold'[r] = NoRow /\ hold[r] # NoRow /\ row[hold[r].m] = s)
      /\ \A r \in Requests : hold'[r] # NoRow /\ hold[r].kind = "lease" =>
           /\ hold'[r] = hold[r] /\ lease[hold[r].c] # NoRow /\ lease[hold[r].c].m = hold[r].m
           /\ lease'[hold[r].c] = lease[hold[r].c]
  BY <1>1, CleanupLeaves DEF g
<1>4. Confined(s)
  BY <1>3 DEF Confined, SameLease, SameHold
<1>5. OneToOne'
  BY <1>3, FewerRows DEF StoreInv, SameLease, SameHold
<1>6. HoldHasLease'
  BY <1>1, <1>3, RowParts DEF HoldHasLease, LeasedTo
<1> QED
  BY <1>1, <1>2, <1>4, <1>5, <1>6, CloseStep

(* Deletes of leases of a locked member, with the foreign key's. *)
LEMMA CascadeStep ==
  ASSUME StoreInv, TypeOK', NEW s \in Sessions, Close(s), NEW h,
         hold' = Cascade(h, lease'),
         \A c \in Callers : SameLease(c) \/ (lease'[c] = NoRow /\ lease[c] # NoRow /\ row[lease[c].m] = s),
         \A r \in Requests : h[r] = hold[r] \/ (h[r] = NoRow /\ hold[r] # NoRow /\ row[hold[r].m] = s)
  PROVE  StoreInv'
<1>1. \A r \in Requests : hold'[r] = IF h[r] # NoRow /\ h[r].kind = "lease" /\ lease'[h[r].c] = NoRow
                                    THEN NoRow ELSE h[r]
  BY DEF Cascade
<1>2. ASSUME NEW r \in Requests, hold[r] # NoRow, hold[r].kind = "lease"
      PROVE  hold[r].c \in Callers /\ lease[hold[r].c] # NoRow /\ lease[hold[r].c].m = hold[r].m
  BY <1>2, RowParts DEF StoreInv, HoldHasLease, LeasedTo
<1>3. \A r \in Requests : hold'[r] = hold[r] \/ (hold'[r] = NoRow /\ hold[r] # NoRow /\ row[hold[r].m] = s)
  <2> SUFFICES ASSUME NEW r \in Requests, hold'[r] # hold[r]
               PROVE  hold'[r] = NoRow /\ hold[r] # NoRow /\ row[hold[r].m] = s
    OBVIOUS
  <2>1. CASE h[r] = NoRow
    BY <1>1, <2>1
  <2>2. CASE h[r] # NoRow
    <3>1. h[r] = hold[r] /\ hold[r] # NoRow /\ hold[r].kind = "lease" /\ lease'[hold[r].c] = NoRow /\ hold'[r] = NoRow
      BY <1>1, <2>2
    <3> QED
      BY <1>2, <3>1 DEF SameLease
  <2> QED
    BY <2>1, <2>2
<1>4. ASSUME NEW r \in Requests, hold'[r] # NoRow, hold'[r].kind = "lease"
      PROVE  lease'[hold'[r].c] # NoRow /\ lease'[hold'[r].c].m = hold'[r].m /\ hold'[r].c \in Callers
  <2>1. hold'[r] = hold[r] /\ lease'[hold[r].c] # NoRow
    BY <1>1, <1>3, <1>4
  <2> QED
    BY <1>2, <1>4, <2>1 DEF SameLease
<1>5. Confined(s)
  BY <1>3 DEF Confined, SameLease, SameHold
<1>6. OneToOne'
  BY <1>3, FewerRows DEF StoreInv, SameLease, SameHold
<1>7. HoldHasLease'
  BY <1>4 DEF HoldHasLease, LeasedTo
<1> QED
  BY <1>5, <1>6, <1>7, CloseStep

(* The foreign key leaves rows as they are, or nothing. *)
LEMMA CascadeType ==
  ASSUME NEW h \in [Requests -> HoldRow \cup {NoRow}], NEW l
  PROVE  Cascade(h, l) \in [Requests -> HoldRow \cup {NoRow}]
BY DEF Cascade

(* A finish takes its hold, and perhaps the expired lease of the member. *)
LEMMA FinishStep ==
  ASSUME StoreInv, NEW s \in Sessions, NEW success \in BOOLEAN, Finish(s, success)
  PROVE  StoreInv'
<1> DEFINE r == tx[s].r
           m == tx[s].m
           renewed == [c \in Callers |->
                         IF /\ success /\ hold[r].kind = "lease" /\ hold[r].live
                            /\ c = hold[r].c /\ c \in LeasedTo(m) /\ state[m] = "ready"
                         THEN [m |-> m, live |-> TRUE] ELSE lease[c]]
           used == \E q \in Held(m) \ {r} : hold[q].live
           left == [c \in Callers |->
                         IF /\ renewed[c] # NoRow /\ renewed[c].m = m /\ ~renewed[c].live
                            /\ state[m] \notin {"cooling", "cooled"} /\ ~used
                         THEN NoRow ELSE renewed[c]]
           h == [hold EXCEPT ![r] = NoRow]
<1>1. /\ TypeOK /\ ~Idle(s) /\ tx[s].job = "finish"
      /\ lease' = left /\ hold' = Cascade(h, left) /\ Close(s) /\ state' = state
  BY DEF StoreInv, Finish
<1>2. r \in Requests /\ m \in Members /\ row[m] = s /\ hold[r] # NoRow /\ hold[r].m = m
  BY <1>1, TxParts DEF StoreInv, TransactionIsSound
<1>3. [m |-> m, live |-> TRUE] \in LeaseRow
  BY <1>2 DEF LeaseRow
<1> HIDE DEF r, m, used
<1>4. ASSUME NEW c \in Callers
      PROVE  /\ renewed[c] = lease[c] \/ (renewed[c] = [m |-> m, live |-> TRUE] /\ lease[c] # NoRow /\ lease[c].m = m)
             /\ left[c] = renewed[c] \/ (left[c] = NoRow /\ renewed[c] # NoRow /\ renewed[c].m = m)
  BY DEF LeasedTo
<1>5. renewed \in [Callers -> LeaseRow \cup {NoRow}]
  BY <1>1, <1>3 DEF TypeOK
<1> HIDE DEF renewed
<1>6. left \in [Callers -> LeaseRow \cup {NoRow}]
  BY <1>5
<1> HIDE DEF left
<1>7. h \in [Requests -> HoldRow \cup {NoRow}]
  BY <1>1 DEF TypeOK
<1>8. TypeOK'
  BY <1>1, <1>6, <1>7, CascadeType, CloseType DEF TypeOK
<1>9. \A c \in Callers : SameLease(c) \/ (lease'[c] = NoRow /\ lease[c] # NoRow /\ row[lease[c].m] = s)
  <2> SUFFICES ASSUME NEW c \in Callers
               PROVE  SameLease(c) \/ (lease'[c] = NoRow /\ lease[c] # NoRow /\ row[lease[c].m] = s)
    OBVIOUS
  <2>1. renewed[c] # NoRow => lease[c] # NoRow /\ renewed[c].m = lease[c].m
    BY <1>4
  <2>2. renewed[c] = NoRow => lease[c] = NoRow
    BY <1>3, <1>4
  <2> QED
    BY <1>1, <1>2, <1>4, <2>1, <2>2 DEF SameLease
<1>10. \A q \in Requests : h[q] = hold[q] \/ (h[q] = NoRow /\ hold[q] # NoRow /\ row[hold[q].m] = s)
  BY <1>1, <1>2 DEF TypeOK
<1> HIDE DEF h
<1> QED
  BY <1>1, <1>8, <1>9, <1>10, CascadeStep

LEMMA CutShort ==
  ASSUME NEW x \in LeaseRow
  PROVE  [x EXCEPT !.live = FALSE] \in LeaseRow /\ [x EXCEPT !.live = FALSE].m = x.m
BY DEF LeaseRow

(* Administration of a member deletes or cuts its leases. *)
LEMMA AdministerStep ==
  ASSUME StoreInv, NEW s \in Sessions, Administer(s)
  PROVE  StoreInv'
<1> DEFINE m == tx[s].m
<1>1. /\ TypeOK /\ ~Idle(s) /\ tx[s].job \in AdminJobs /\ Close(s)
      /\ hold' = Cascade(hold, lease') /\ row[m] = s
  BY DEF StoreInv, Administer, TransactionIsSound
<1>2. m \in Members
  BY <1>1, TxParts
<1>3. \/ lease' = lease \/ lease' = Cut(m) \/ lease' = Unleased(m)
  BY DEF Administer
<1>4. state' \in [Members -> {"ready", "cooling", "cooled", "failed"}]
  <2>1. \/ state' = state
        \/ \E x \in {"failed", "cooling", "ready"} : state' = [state EXCEPT ![m] = x]
    BY DEF Administer
  <2> QED
    BY <1>1, <2>1 DEF TypeOK
<1> HIDE DEF m
<1>5. \A c \in Callers : lease[c] # NoRow =>
        /\ [lease[c] EXCEPT !.live = FALSE] \in LeaseRow
        /\ [lease[c] EXCEPT !.live = FALSE].m = lease[c].m
  BY <1>1, RowParts, CutShort
<1>6. /\ Cut(m) \in [Callers -> LeaseRow \cup {NoRow}]
      /\ Unleased(m) \in [Callers -> LeaseRow \cup {NoRow}]
  BY <1>1, <1>5 DEF Cut, Unleased, TypeOK, LeasedTo
<1>7. TypeOK'
  BY <1>1, <1>3, <1>4, <1>6, CascadeType, CloseType DEF TypeOK
<1>8. \A c \in Callers : SameLease(c) \/ (lease'[c] = NoRow /\ lease[c] # NoRow /\ row[lease[c].m] = s)
  <2> SUFFICES ASSUME NEW c \in Callers
               PROVE  SameLease(c) \/ (lease'[c] = NoRow /\ lease[c] # NoRow /\ row[lease[c].m] = s)
    OBVIOUS
  <2>1. CASE lease' = lease
    BY <2>1 DEF SameLease
  <2>2. CASE lease' = Cut(m)
    <3>1. lease[c] # NoRow => [lease[c] EXCEPT !.live = FALSE] # NoRow
      BY <1>5
    <3> QED
      BY <1>5, <2>2, <3>1 DEF SameLease, Cut, LeasedTo
  <2>3. CASE lease' = Unleased(m)
    BY <1>1, <2>3 DEF SameLease, Unleased, LeasedTo
  <2> QED
    BY <1>3, <2>1, <2>2, <2>3
<1> QED
  BY <1>1, <1>7, <1>8, CascadeStep

(* An admission gives its caller a lease or a hold on a member that is the
   caller's already, or nobody's, as its caller has no other. *)
LEMMA AdmitStep ==
  ASSUME StoreInv, NEW s \in Sessions, Admit(s)
  PROVE  StoreInv'
<1> DEFINE c == tx[s].c
           m == tx[s].m
           g == tx[s].gone
           kind == tx[s].job
<1>1. /\ Admitting(s, "insert") /\ Admits(s) /\ Close(s) /\ state' = Thaw(g)
      /\ lease' = IF kind = "lease" /\ ~Leased(s) THEN [DropLeases(g) EXCEPT ![c] = [m |-> m, live |-> TRUE]]
                                                  ELSE DropLeases(g)
  BY DEF Admit, Admitting, Admits
<1>2. PICK r \in Requests : /\ DropHolds(g)[r] = NoRow
                            /\ hold' = [DropHolds(g) EXCEPT ![r] = [c |-> c, m |-> m, kind |-> kind, live |-> TRUE]]
  BY DEF Admit
<1>3. /\ TypeOK /\ GoneIsLocked(s) /\ c \in Callers /\ m \in Members /\ row[m] = s /\ callerLock[c] = s
      /\ kind \in {"lease", "catalog"}
      /\ MemberIsKept(s, m) \/ (CallerIsFree(s) /\ MemberIsFree(s, m))
  BY <1>1, AdmissionFacts DEF Admitting, AdmissionIsSound
<1>4. Leased(s) <=> DropLeases(g)[c] # NoRow
  BY DEF Leased
<1> HIDE DEF c, m, g, kind
<1> DEFINE newLease == [m |-> m, live |-> TRUE]
           newHold == [c |-> c, m |-> m, kind |-> kind, live |-> TRUE]
<1>5. /\ newLease \in LeaseRow /\ newLease.m = m /\ newLease # NoRow
      /\ newHold \in HoldRow /\ newHold.c = c /\ newHold.m = m /\ newHold.kind = kind /\ newHold # NoRow
  <2>1. newLease \in LeaseRow /\ newHold \in HoldRow
    BY <1>3 DEF LeaseRow, HoldRow
  <2>2. newLease.m = m /\ newHold.c = c /\ newHold.m = m /\ newHold.kind = kind
    OBVIOUS
  <2> HIDE DEF newLease, newHold
  <2> QED
    BY <2>1, <2>2
<1> HIDE DEF newLease, newHold
<1>6. /\ DropHolds(g) \in [Requests -> HoldRow \cup {NoRow}]
      /\ DropLeases(g) \in [Callers -> LeaseRow \cup {NoRow}]
  BY <1>3, CleanupType
<1>7. TypeOK'
  <2>1. lease' \in [Callers -> LeaseRow \cup {NoRow}] /\ hold' \in [Requests -> HoldRow \cup {NoRow}]
    BY <1>1, <1>2, <1>5, <1>6 DEF newLease, newHold
  <2> QED
    BY <1>1, <1>3, <2>1, CleanupType, CloseType DEF TypeOK
<1>8. /\ \A x \in Callers :
           \/ DropLeases(g)[x] = lease[x]
           \/ DropLeases(g)[x] = NoRow /\ lease[x] # NoRow /\ row[lease[x].m] = s
      /\ \A q \in Requests :
           \/ DropHolds(g)[q] = hold[q]
           \/ DropHolds(g)[q] = NoRow /\ hold[q] # NoRow /\ row[hold[q].m] = s
      /\ \A q \in Requests : DropHolds(g)[q] # NoRow /\ hold[q].kind = "lease" =>
           /\ DropHolds(g)[q] = hold[q]
           /\ lease[hold[q].c] # NoRow /\ lease[hold[q].c].m = hold[q].m
           /\ DropLeases(g)[hold[q].c] = lease[hold[q].c]
  BY <1>3, CleanupLeaves DEF g
<1>9. /\ \A x \in Callers :
           \/ lease'[x] = DropLeases(g)[x]
           \/ lease'[x] = newLease /\ x = c /\ kind = "lease" /\ DropLeases(g)[c] = NoRow
      /\ \A q \in Requests :
           \/ hold'[q] = DropHolds(g)[q] /\ q # r
           \/ hold'[q] = newHold /\ q = r
      /\ DropHolds(g)[r] = NoRow
      /\ kind = "lease" /\ DropLeases(g)[c] = NoRow => lease'[c] = newLease
  BY <1>1, <1>2, <1>3, <1>4, <1>6 DEF newLease, newHold
<1>10. Confined(s)
  <2>1. ASSUME NEW x \in Callers
        PROVE  \/ SameLease(x)
               \/ /\ lease[x] # NoRow => row[lease[x].m] = s
                  /\ lease'[x] # NoRow => row[lease'[x].m] = s /\ callerLock[x] = s
    BY <1>3, <1>5, <1>8, <1>9 DEF SameLease
  <2>2. ASSUME NEW q \in Requests
        PROVE  \/ SameHold(q)
               \/ /\ hold[q] # NoRow => row[hold[q].m] = s
                  /\ hold'[q] # NoRow => row[hold'[q].m] = s /\ callerLock[hold'[q].c] = s
    BY <1>3, <1>5, <1>8, <1>9 DEF SameHold
  <2> QED
    BY <2>1, <2>2 DEF Confined
<1>11. ASSUME NEW x \in Callers, NEW n \in Members, Has(x, n)'
       PROVE  \/ x = c /\ n = m
              \/ /\ Has(x, n)
                 /\ \/ DropLeases(g)[x] # NoRow /\ DropLeases(g)[x] = lease[x] /\ lease[x].m = n
                    \/ \E q \in Held(n) : hold[q].c = x /\ DropHolds(g)[q] # NoRow
  <2>1. CASE lease'[x] # NoRow /\ lease'[x].m = n
    BY <1>5, <1>8, <1>9, <2>1 DEF Has, LeasedTo
  <2>2. CASE \E q \in Requests : hold'[q] # NoRow /\ hold'[q].m = n /\ hold'[q].c = x
    <3>1. PICK q \in Requests : hold'[q] # NoRow /\ hold'[q].m = n /\ hold'[q].c = x
      BY <2>2
    <3>2. CASE hold'[q] = newHold
      BY <1>5, <3>1, <3>2
    <3>3. CASE hold'[q] = DropHolds(g)[q]
      BY <1>8, <3>1, <3>3 DEF Has, Held
    <3> QED
      BY <1>9, <3>2, <3>3
  <2> QED
    BY <1>11, <2>1, <2>2 DEF Has, LeasedTo, Held
<1>12. OneToOne'
  <2>1. CASE MemberIsKept(s, m)
    <3>1. Has(c, m)
      <4>1. Leased(s) => lease[c] # NoRow /\ lease[c].m = m
        BY <1>3, <2>1, LeasedMeans DEF MemberIsKept, c
      <4>2. ~Leased(s) => \E q \in Held(m) : hold[q].c = c
        BY <2>1 DEF MemberIsKept, c
      <4> QED
        BY <1>3, <4>1, <4>2 DEF Has, LeasedTo
    <3>2. \A x \in Callers, n \in Members : Has(x, n)' => Has(x, n)
      BY <1>11, <3>1
    <3> QED
      BY <3>2 DEF StoreInv, OneToOne
  <2>2. CASE CallerIsFree(s) /\ MemberIsFree(s, m)
    <3>1. DropLeases(g)[c] = NoRow
      BY <1>4, <2>2 DEF CallerIsFree
    <3>2. \A q \in Requests : hold[q] # NoRow /\ (hold[q].c = c \/ hold[q].m = m) => DropHolds(g)[q] = NoRow
      BY <2>2 DEF CallerIsFree, MemberIsFree, DropHolds, Held, c, g
    <3>3. \A x \in Callers : lease[x] # NoRow /\ lease[x].m = m => DropLeases(g)[x] = NoRow
      BY <2>2 DEF MemberIsFree, DropLeases, LeasedTo, g
    <3>4. ASSUME NEW x \in Callers, NEW n \in Members, Has(x, n)'
          PROVE  (x = c /\ n = m) \/ (Has(x, n) /\ x # c /\ n # m)
      BY <1>11, <3>1, <3>2, <3>3, <3>4 DEF Held
    <3> QED
      BY <3>4 DEF StoreInv, OneToOne
  <2> QED
    BY <1>3, <2>1, <2>2
<1>13. HoldHasLease'
  <2> SUFFICES ASSUME NEW q \in Requests, hold'[q] # NoRow, hold'[q].kind = "lease"
               PROVE  /\ hold'[q].c \in Callers
                      /\ lease'[hold'[q].c] # NoRow /\ lease'[hold'[q].c].m = hold'[q].m
    BY DEF HoldHasLease, LeasedTo
  <2>1. CASE hold'[q] = newHold
    <3>1. kind = "lease" /\ hold'[q].c = c /\ hold'[q].m = m
      BY <1>5, <2>1
    <3>2. CASE Leased(s)
      <4>1. lease[c].m = m /\ DropLeases(g)[c] = lease[c] /\ DropLeases(g)[c] # NoRow
        BY <1>3, <1>4, <1>8, <3>2 DEF MemberIsKept, CallerIsFree, c
      <4> QED
        BY <1>3, <1>9, <3>1, <4>1
    <3>3. CASE ~Leased(s)
      BY <1>3, <1>4, <1>5, <1>9, <3>1, <3>3
    <3> QED
      BY <3>2, <3>3
  <2>2. CASE hold'[q] # newHold
    <3>1. hold'[q] = DropHolds(g)[q] /\ hold'[q] = hold[q]
      BY <1>8, <1>9, <2>2
    <3>2. hold[q].c \in Callers
      BY <1>3, <3>1, RowParts
    <3>3. /\ lease[hold[q].c] # NoRow /\ lease[hold[q].c].m = hold[q].m
          /\ DropLeases(g)[hold[q].c] = lease[hold[q].c]
      BY <1>8, <3>1
    <3>4. lease'[hold[q].c] = lease[hold[q].c]
      BY <1>9, <3>2, <3>3
    <3> QED
      BY <3>1, <3>2, <3>3, <3>4
  <2> QED
    BY <2>1, <2>2
<1> QED
  BY <1>1, <1>7, <1>10, <1>12, <1>13, CloseStep

(* A step of no transaction. *)
LEMMA NobodysStep ==
  ASSUME StoreInv, TypeOK', UNCHANGED <<locks, tx>>,
         \A c \in Callers : SameLease(c), \A r \in Requests : SameHold(r)
  PROVE  StoreInv'
<1>1. row' = row /\ callerLock' = callerLock /\ tx' = tx
  BY DEF locks
<1>2. \A t \in Sessions : Untouched(t)
  BY <1>1 DEF Untouched
<1>3. Confined(Nobody)
  BY DEF Confined
<1>4. OneToOne'
  BY FewerRows DEF StoreInv
<1>5. HoldHasLease'
  <2> SUFFICES ASSUME NEW r \in Requests, hold'[r] # NoRow, hold'[r].kind = "lease"
               PROVE  /\ hold'[r].c \in Callers
                      /\ lease'[hold'[r].c] # NoRow /\ lease'[hold'[r].c].m = hold'[r].m
    BY DEF HoldHasLease, LeasedTo
  <2>1. hold[r] # NoRow /\ hold'[r].c = hold[r].c /\ hold'[r].m = hold[r].m /\ hold[r].kind = "lease"
    BY DEF SameHold
  <2>2. hold[r].c \in Callers /\ lease[hold[r].c] # NoRow /\ lease[hold[r].c].m = hold[r].m
    BY <2>1 DEF StoreInv, HoldHasLease, LeasedTo
  <2> QED
    BY <2>1, <2>2 DEF SameLease
<1> QED
  BY <1>2, <1>3, <1>4, <1>5, StepOf

LEMMA ExpireStep ==
  ASSUME StoreInv, Expire
  PROVE  StoreInv'
<1>1. TypeOK /\ UNCHANGED <<locks, tx>>
  BY DEF StoreInv, Expire
<1>2. ASSUME NEW c \in Callers, lease[c] # NoRow, lease' = [lease EXCEPT ![c] = [@ EXCEPT !.live = FALSE]],
             UNCHANGED <<state, hold>>
      PROVE  StoreInv'
  <2> DEFINE l == [lease[c] EXCEPT !.live = FALSE]
  <2>1. l \in LeaseRow /\ l.m = lease[c].m
    BY <1>1, <1>2, RowParts, CutShort
  <2>2. lease' = [lease EXCEPT ![c] = l]
    BY <1>2
  <2> HIDE DEF l
  <2>3. TypeOK'
    BY <1>1, <1>2, <2>1, <2>2 DEF TypeOK, locks
  <2>4. l # NoRow
    BY <2>1
  <2>5. \A x \in Callers : SameLease(x)
    BY <1>1, <1>2, <2>1, <2>2, <2>4 DEF TypeOK, SameLease
  <2>6. \A r \in Requests : SameHold(r)
    BY <1>2 DEF SameHold
  <2> QED
    BY <1>1, <2>3, <2>5, <2>6, NobodysStep
<1>3. ASSUME NEW r \in Requests, hold[r] # NoRow, hold' = [hold EXCEPT ![r] = [@ EXCEPT !.live = FALSE]],
             UNCHANGED <<state, lease>>
      PROVE  StoreInv'
  <2> DEFINE h == [hold[r] EXCEPT !.live = FALSE]
  <2>1. h \in HoldRow /\ h.c = hold[r].c /\ h.m = hold[r].m /\ h.kind = hold[r].kind
    <3>1. ASSUME NEW x \in HoldRow
          PROVE  /\ [x EXCEPT !.live = FALSE] \in HoldRow /\ [x EXCEPT !.live = FALSE].c = x.c
                 /\ [x EXCEPT !.live = FALSE].m = x.m /\ [x EXCEPT !.live = FALSE].kind = x.kind
      BY DEF HoldRow
    <3> QED
      BY <1>1, <1>3, <3>1, RowParts
  <2>2. hold' = [hold EXCEPT ![r] = h]
    BY <1>3
  <2> HIDE DEF h
  <2>3. TypeOK'
    BY <1>1, <1>3, <2>1, <2>2 DEF TypeOK, locks
  <2>4. h # NoRow
    BY <2>1
  <2>5. \A q \in Requests : SameHold(q)
    BY <1>1, <1>3, <2>1, <2>2, <2>4 DEF TypeOK, SameHold
  <2>6. \A c \in Callers : SameLease(c)
    BY <1>3 DEF SameLease
  <2> QED
    BY <1>1, <2>3, <2>5, <2>6, NobodysStep
<1>4. ASSUME NEW m \in Members, state' = [state EXCEPT ![m] = "cooled"], UNCHANGED <<lease, hold>>
      PROVE  StoreInv'
  <2>1. TypeOK'
    BY <1>1, <1>4 DEF TypeOK, locks
  <2>2. (\A c \in Callers : SameLease(c)) /\ \A r \in Requests : SameHold(r)
    BY <1>4 DEF SameLease, SameHold
  <2> QED
    BY <1>1, <2>1, <2>2, NobodysStep
<1> QED
  BY <1>2, <1>3, <1>4 DEF Expire

-----------------------------------------------------------------------------
(* StoreInv holds of an empty store and is kept by every step: nobody          *)
(* changes what a transaction has read behind its locks before it commits.     *)
THEOREM StoreInvariant == Spec => []StoreInv
<1>1. Init => StoreInv
  <2> SUFFICES ASSUME Init PROVE StoreInv
    OBVIOUS
  <2>1. TypeOK
    BY DEF Init, TypeOK
  <2>2. \A s \in Sessions : Idle(s) /\ (\A m \in Members : row[m] # s) /\ \A c \in Callers : callerLock[c] # s
    BY DEF Init, Idle
  <2>3. (\A c \in Callers : lease[c] = NoRow) /\ \A r \in Requests : hold[r] = NoRow
    BY DEF Init
  <2>4. OneToOne /\ HoldHasLease
    BY <2>3 DEF OneToOne, HoldHasLease, Has, Held, LeasedTo
  <2>5. LocksAreOwned /\ LocksAreOrdered /\ \A s \in Sessions : TransactionIsSound(s)
    BY <2>2 DEF LocksAreOwned, LocksAreOrdered, TransactionIsSound, Admits
  <2> QED
    BY <2>1, <2>4, <2>5 DEF StoreInv
<1>2. StoreInv /\ [Next]_vars => StoreInv'
  <2> SUFFICES ASSUME StoreInv, [Next]_vars PROVE StoreInv'
    OBVIOUS
  <2>1. ASSUME NEW s \in Sessions, Transaction(s) PROVE StoreInv'
    <3>1. ASSUME NEW c \in Callers, NEW kind \in {"lease", "catalog"}, LockCaller(s, c, kind) PROVE StoreInv'
      BY <3>1, LockCallerStep
    <3>2. CASE LockBound(s)
      BY <3>2, LockBoundStep
    <3>3. CASE Resolve(s)
      BY <3>3, ResolveStep
    <3>4. CASE Pick(s)
      BY <3>4, PickStep
    <3>5. CASE ClaimCandidate(s)
      BY <3>5, ClaimCandidateStep
    <3>6. CASE Admit(s)
      BY <3>6, AdmitStep
    <3>7. CASE Reject(s)
      <4>1. Admits(s) /\ CommitCleanup(s)
        BY <3>7 DEF Reject, Admitting, Admits
      <4>2. GoneIsLocked(s)
        BY <4>1, AdmissionFacts
      <4> QED
        BY <4>1, <4>2, CommitCleanupStep
    <3>8. ASSUME NEW r \in Requests, BeginFinish(s, r) PROVE StoreInv'
      BY <3>8, BeginFinishStep
    <3>9. ASSUME NEW success \in BOOLEAN, Finish(s, success) PROVE StoreInv'
      BY <3>9, FinishStep
    <3>10. CASE LockMember(s)
      BY <3>10, LockMemberStep
    <3>11. CASE Administer(s)
      BY <3>11, AdministerStep
    <3>12. CASE BeginReclaim(s)
      BY <3>12, BeginReclaimStep
    <3>13. CASE Visit(s)
      BY <3>13, VisitStep
    <3>14. CASE Reclaim(s)
      <4>1. GoneIsLocked(s) /\ CommitCleanup(s)
        BY <3>14 DEF Reclaim, StoreInv, TransactionIsSound
      <4> QED
        BY <4>1, CommitCleanupStep
    <3> QED
      BY <2>1, <3>1, <3>2, <3>3, <3>4, <3>5, <3>6, <3>7, <3>8, <3>9, <3>10, <3>11, <3>12, <3>13, <3>14
      DEF Transaction
  <2>2. ASSUME NEW s \in Sessions, NEW m \in Members, NEW job \in AdminJobs, BeginAdmin(s, job, m) PROVE StoreInv'
    BY <2>2, BeginAdminStep
  <2>3. ASSUME NEW s \in Sessions, Rollback(s) PROVE StoreInv'
    BY <2>3, RollbackStep
  <2>4. CASE Expire
    BY <2>4, ExpireStep
  <2>5. CASE UNCHANGED vars
    <3>1. /\ lease' = lease /\ hold' = hold /\ state' = state /\ row' = row /\ callerLock' = callerLock
          /\ gate' = gate /\ tx' = tx
      BY <2>5 DEF vars, tables, locks
    <3>2. TypeOK' /\ UNCHANGED <<locks, tx>>
      BY <3>1 DEF StoreInv, TypeOK, locks
    <3>3. (\A c \in Callers : SameLease(c)) /\ \A r \in Requests : SameHold(r)
      BY <3>1 DEF SameLease, SameHold
    <3> QED
      BY <3>2, <3>3, NobodysStep
  <2> QED
    BY <2>1, <2>2, <2>3, <2>4, <2>5 DEF Next
<1> QED
  BY <1>1, <1>2, PTL DEF Spec

(* A set whose elements are all the same has at most one. *)
LEMMA AtMostOne ==
  ASSUME NEW X, \A x, y \in X : x = y
  PROVE  Cardinality(X) <= 1
<1>1. CASE X = {}
  BY <1>1, FS_EmptySet
<1>2. ASSUME NEW x \in X PROVE Cardinality(X) <= 1
  <2>1. X = {x}
    OBVIOUS
  <2>2. Cardinality({x}) = 1
    BY FS_Singleton
  <2> QED
    BY <2>1, <2>2
<1> QED
  BY <1>1, <1>2

(* Across replicas, a member serves at most one caller and a caller stays on   *)
(* at most one member, although no key of the schema says so and candidates    *)
(* are found without a lock.                                                   *)
THEOREM StoreStaysSafe == Spec => []StoreIsSafe
<1>1. StoreInv => StoreIsSafe
  <2> SUFFICES ASSUME StoreInv PROVE StoreIsSafe
    OBVIOUS
  <2>1. TypeOK /\ OneToOne
    BY DEF StoreInv
  <2>2. ASSUME NEW m \in Members PROVE Cardinality(LeasedTo(m) \cup {hold[r].c : r \in Held(m)}) <= 1
    <3> DEFINE X == LeasedTo(m) \cup {hold[r].c : r \in Held(m)}
    <3>1. \A c \in X : c \in Callers /\ Has(c, m)
      BY <2>1, RowParts DEF Has, LeasedTo, Held
    <3> HIDE DEF X
    <3>2. \A c, d \in X : c = d
      BY <2>1, <3>1 DEF OneToOne
    <3>3. Cardinality(X) <= 1
      BY <3>2, AtMostOne
    <3> QED
      BY <3>3 DEF X
  <2>3. ASSUME NEW c \in Callers
        PROVE  Cardinality({m \in Members : c \in LeasedTo(m)} \cup
                           {hold[r].m : r \in {r \in Requests : hold[r] # NoRow /\ hold[r].c = c}}) <= 1
    <3> DEFINE X == {m \in Members : c \in LeasedTo(m)} \cup
                    {hold[r].m : r \in {r \in Requests : hold[r] # NoRow /\ hold[r].c = c}}
    <3>1. \A m \in X : m \in Members /\ Has(c, m)
      BY <2>1, RowParts DEF Has, Held
    <3> HIDE DEF X
    <3>2. \A m, n \in X : m = n
      BY <2>1, <3>1 DEF OneToOne
    <3>3. Cardinality(X) <= 1
      BY <3>2, AtMostOne
    <3> QED
      BY <3>3 DEF X
  <2> QED
    BY <2>2, <2>3 DEF StoreIsSafe, MemberServesOneCaller, CallerStaysOnOneMember
<1> QED
  BY <1>1, StoreInvariant, PTL

(* Transactions never wait for each other in a circle: the owner of the last   *)
(* row that any of them waits for waits for a row beyond it, or owns none.     *)
THEOREM NoCircle == Spec => []NoLockCycle
<1>1. StoreInv => NoLockCycle
  <2> SUFFICES ASSUME StoreInv, NEW S \in SUBSET Sessions, S # {}, \A s \in S : WaitsFor(s) \in S \ {s}
               PROVE  FALSE
    BY DEF NoLockCycle
  <2>1. TypeOK /\ LocksAreOrdered
    BY DEF StoreInv
  <2>2. ASSUME NEW s \in S
        PROVE  \/ /\ Admitting(s, "bound") /\ tx[s].bound # {}
                  /\ Min(tx[s].bound) \in tx[s].bound /\ tx[s].bound \subseteq Members
                  /\ row[Min(tx[s].bound)] \in S
               \/ /\ ~Idle(s) /\ tx[s].job \in AdminJobs /\ tx[s].step = "row"
                  /\ tx[s].m \in Members /\ row[tx[s].m] \in S
    <3>1. WaitsFor(s) \in S /\ WaitsFor(s) # Nobody /\ ~Idle(s)
      BY DEF WaitsFor
    <3>2. CASE Admitting(s, "bound") /\ tx[s].bound # {}
      <4>1. tx[s].bound \subseteq Members
        BY <2>1, <3>1, <3>2, TxParts DEF Admitting
      <4>2. Min(tx[s].bound) \in tx[s].bound
        BY <3>2, <4>1, MinOfSet
      <4>3. WaitsFor(s) = row[Min(tx[s].bound)]
        BY <3>1, <3>2 DEF WaitsFor
      <4> QED
        BY <3>1, <3>2, <4>1, <4>2, <4>3
    <3>3. CASE ~(Admitting(s, "bound") /\ tx[s].bound # {})
      <4>1. tx[s].job \in AdminJobs /\ tx[s].step = "row" /\ WaitsFor(s) = row[tx[s].m]
        BY <3>1, <3>3 DEF WaitsFor, SkipLocked
      <4> QED
        BY <2>1, <3>1, <4>1, TxParts
    <3> QED
      BY <3>2, <3>3
  <2> DEFINE T == {n \in Members : row[n] \in S}
  <2>3. T \in SUBSET Members /\ T # {}
    BY <2>2
  <2>4. PICK n \in T : \A k \in T : k <= n
    BY <2>3, SetEnds
  <2> DEFINE t == row[n]
  <2>5. t \in S /\ n \in Members
    OBVIOUS
  <2>6. CASE Admitting(t, "bound") /\ Min(tx[t].bound) \in tx[t].bound /\ tx[t].bound \subseteq Members
             /\ row[Min(tx[t].bound)] \in S
    <3> DEFINE k == Min(tx[t].bound)
    <3>1. k \in T
      BY <2>6
    <3>2. n < k
      BY <2>1, <2>5, <2>6 DEF LocksAreOrdered
    <3> HIDE DEF k, T
    <3>3. k <= n /\ k \in Nat /\ n \in Nat
      BY <2>3, <2>4, <3>1, StoreAssumption
    <3> QED
      BY <3>2, <3>3
  <2>7. CASE ~Idle(t) /\ tx[t].job \in AdminJobs /\ tx[t].step = "row"
    BY <2>1, <2>5, <2>7 DEF LocksAreOrdered
  <2> QED
    BY <2>2, <2>5, <2>6, <2>7
<1> QED
  BY <1>1, StoreInvariant, PTL

-----------------------------------------------------------------------------
(* The caller gate *)

(* The scope of a caller, with ticket a active and w waiting: they are that
   caller's and all different, and nobody waits for a free scope. *)
ScopeSound(c, a, w) ==
  /\ a \in Admissions \cup {NoTicket} /\ w \in Seq(Admissions)
  /\ a # NoTicket => CallerOf[a] = c
  /\ a = NoTicket => w = <<>>
  /\ \A k \in DOMAIN w : w[k] # a /\ CallerOf[w[k]] = c
  /\ \A j, k \in DOMAIN w : w[j] = w[k] => j = k
  /\ Len(w) <= QUEUE_LIMIT

InLine(a, w, r) == a = r \/ \E k \in DOMAIN w : w[k] = r

ScopesSound ==
  /\ active \in [GateCallers -> Admissions \cup {NoTicket}]
  /\ waiters \in [GateCallers -> Seq(Admissions)]
  /\ \A c \in GateCallers : ScopeSound(c, active[c], waiters[c])

(* The tickets somebody refers to are the ones in a line, they are counted,
   and a granted one is the active one. *)
Tickets == permit \cup pending

TicketsSound ==
  /\ Tickets \subseteq Admissions /\ granted \subseteq Admissions
  /\ IsFiniteSet(Tickets) /\ retainedTickets = Cardinality(Tickets)
  /\ retainedTickets <= TICKET_LIMIT
  /\ \A r \in Admissions :
       /\ r \in Tickets <=> InLine(active[CallerOf[r]], waiters[CallerOf[r]], r)
       /\ r \in Tickets \cap granted => active[CallerOf[r]] = r

(* What a request holds, by where it is: an entry in the driver, or a
   connection of it, is of a granted ticket, which its permit or the
   reference kept for the entry retains. *)
CallSound(r) ==
  /\ r \in pending => driver[r] # "none"
  /\ driver[r] # "none" => r \in Tickets /\ r \in granted
  /\ call[r] = "new" => r \notin Tickets /\ r \notin granted
  /\ call[r] \in {"queued", "admitted", "connecting", "working", "ending"} <=> r \in permit
  /\ call[r] \in {"admitted", "connecting", "working", "ending"} => r \in granted
  /\ call[r] \in {"queued", "admitted"} => driver[r] = "none"
  /\ call[r] = "connecting" => r \in pending
  /\ call[r] = "working" => r \notin pending /\ driver[r] = "lent"
  /\ call[r] \in {"ending", "over"} /\ driver[r] # "none" => r \in pending

CallsSound ==
  /\ call \in [Admissions -> Calls]
  /\ driver \in [Admissions -> {"none", "queued", "lent"}]
  /\ txAttempt \in [Admissions -> 0 .. MaxRetries]
  /\ \A r \in Admissions : CallSound(r)

GateInv == ScopesSound /\ TicketsSound /\ CallsSound

-----------------------------------------------------------------------------
(* Lines *)

LineOf(a, w) == (IF a = NoTicket THEN <<>> ELSE <<a>>) \o w

(* A sequence without its k-th element. *)
LEMMA RemoveAtFacts ==
  ASSUME NEW S, NEW w \in Seq(S), NEW k \in DOMAIN w
  PROVE  /\ RemoveAt(w, k) \in Seq(S)
         /\ Len(RemoveAt(w, k)) = Len(w) - 1
         /\ \A j \in 1..(Len(w) - 1) : RemoveAt(w, k)[j] = IF j < k THEN w[j] ELSE w[j + 1]
<1>1. k \in 1..Len(w) /\ Len(w) \in Nat
  OBVIOUS
<1> DEFINE before == SubSeq(w, 1, k - 1)
           after == SubSeq(w, k + 1, Len(w))
<1>2. /\ before \in Seq(S) /\ after \in Seq(S)
      /\ Len(before) = k - 1 /\ Len(after) = Len(w) - k
      /\ \A j \in 1..(k - 1) : before[j] = w[j]
      /\ \A j \in 1..(Len(w) - k) : after[j] = w[k + j]
  BY <1>1
<1>3. RemoveAt(w, k) = before \o after
  BY DEF RemoveAt
<1> HIDE DEF before, after
<1>4. /\ before \o after \in Seq(S)
      /\ Len(before \o after) = Len(before) + Len(after)
      /\ \A j \in 1..(Len(before) + Len(after)) :
           (before \o after)[j] = IF j <= Len(before) THEN before[j] ELSE after[j - Len(before)]
  BY <1>2, SMT
<1>5. Len(RemoveAt(w, k)) = Len(w) - 1
  BY <1>1, <1>2, <1>3, <1>4
<1>6. ASSUME NEW j \in 1..(Len(w) - 1)
      PROVE  RemoveAt(w, k)[j] = IF j < k THEN w[j] ELSE w[j + 1]
  <2>1. CASE j < k
    <3>1. j \in 1..(k - 1) /\ j <= Len(before) /\ j \in 1..(Len(before) + Len(after))
      BY <1>1, <1>2, <2>1
    <3> QED
      BY <1>2, <1>3, <1>4, <2>1, <3>1
  <2>2. CASE ~(j < k)
    <3>1. j - (k - 1) \in 1..(Len(w) - k) /\ j \in 1..(Len(before) + Len(after))
          /\ ~(j <= Len(before)) /\ j - Len(before) = j - (k - 1) /\ k + (j - (k - 1)) = j + 1
      BY <1>1, <1>2, <2>2
    <3> QED
      BY <1>2, <1>3, <1>4, <2>2, <3>1
  <2> QED
    BY <2>1, <2>2
<1> QED
  BY <1>3, <1>4, <1>5, <1>6

(* The line of a free scope, and of a busy one. *)
LEMMA LineOfFacts ==
  ASSUME NEW c \in GateCallers, NEW a, NEW w, ScopeSound(c, a, w)
  PROVE  /\ LineOf(a, w) \in Seq(Admissions)
         /\ a = NoTicket => w = <<>> /\ LineOf(a, w) = <<>>
         /\ a # NoTicket => /\ Len(LineOf(a, w)) = Len(w) + 1
                            /\ LineOf(a, w)[1] = a
                            /\ \A j \in 1..Len(w) : LineOf(a, w)[j + 1] = w[j]
         /\ Len(LineOf(a, w)) <= QUEUE_LIMIT + 1
<1>1. w \in Seq(Admissions) /\ QUEUE_LIMIT \in Nat /\ Len(w) <= QUEUE_LIMIT /\ a \in Admissions \cup {NoTicket}
  BY GateAssumption DEF ScopeSound
<1>2. CASE a = NoTicket
  <2>1. w = <<>>
    BY <1>2 DEF ScopeSound
  <2>2. LineOf(a, w) = <<>>
    BY <1>2, <2>1 DEF LineOf
  <2>3. Len(<<>>) = 0 /\ 0 <= QUEUE_LIMIT + 1 /\ <<>> \in Seq(Admissions)
    BY <1>1
  <2> QED
    BY <1>2, <2>1, <2>2, <2>3
<1>3. CASE a # NoTicket
  <2>1. LineOf(a, w) = <<a>> \o w /\ a \in Admissions
    BY <1>1, <1>3 DEF LineOf
  <2>2. /\ <<a>> \o w \in Seq(Admissions) /\ Len(<<a>> \o w) = Len(w) + 1
        /\ (<<a>> \o w)[1] = a
        /\ \A j \in 1..Len(w) : (<<a>> \o w)[j + 1] = w[j]
    BY <1>1, <2>1, SMT
  <2> QED
    BY <1>1, <1>3, <2>1, <2>2
<1> QED
  BY <1>2, <1>3

(* Two sequences are equal if their lengths and their elements are. *)
LEMMA SameSeq ==
  ASSUME NEW S, NEW v \in Seq(S), NEW w \in Seq(S), Len(v) = Len(w),
         \A j \in 1..Len(w) : v[j] = w[j]
  PROVE  v = w
<1>1. DOMAIN v = 1..Len(v) /\ DOMAIN w = 1..Len(w)
  OBVIOUS
<1>2. v \in [DOMAIN v -> S] /\ w \in [DOMAIN w -> S]
  BY <1>1
<1> QED
  BY <1>1, <1>2

(* A ticket joins a caller's line. *)
LEMMA ScopeJoin ==
  ASSUME NEW c \in GateCallers, NEW a, NEW w, ScopeSound(c, a, w),
         NEW r \in Admissions, CallerOf[r] = c, ~InLine(a, w, r), Len(w) < QUEUE_LIMIT,
         NEW a2, NEW w2,
         IF a = NoTicket THEN a2 = r /\ w2 = w ELSE a2 = a /\ w2 = Append(w, r)
  PROVE  /\ ScopeSound(c, a2, w2)
         /\ \A x \in Admissions : InLine(a2, w2, x) <=> InLine(a, w, x) \/ x = r
         /\ LineOf(a2, w2) = Append(LineOf(a, w), r)
<1>1. NoTicket \notin Admissions /\ QUEUE_LIMIT \in Nat
  BY GateAssumption
<1>2. CASE a = NoTicket
  <2>1. w = <<>> /\ w2 = <<>> /\ a2 = r
    BY <1>2 DEF ScopeSound
  <2>2. ScopeSound(c, a2, w2)
    BY <1>1, <2>1 DEF ScopeSound
  <2>3. LineOf(a2, w2) = <<r>> /\ LineOf(a, w) = <<>>
    BY <1>1, <1>2, <2>1 DEF LineOf
  <2>4. \A x \in Admissions : InLine(a2, w2, x) <=> InLine(a, w, x) \/ x = r
    BY <1>1, <1>2, <2>1 DEF InLine
  <2> QED
    BY <2>2, <2>3, <2>4
<1>3. CASE a # NoTicket
  <2>1. a2 = a /\ w2 = Append(w, r) /\ w \in Seq(Admissions)
    BY <1>3 DEF ScopeSound
  <2>2. /\ w2 \in Seq(Admissions) /\ Len(w2) = Len(w) + 1
        /\ w2[Len(w) + 1] = r
        /\ \A j \in 1..Len(w) : w2[j] = w[j]
        /\ DOMAIN w2 = 1..(Len(w) + 1) /\ DOMAIN w = 1..Len(w) /\ Len(w) \in Nat
    BY <2>1
  <2>a. \A k \in DOMAIN w : k \in DOMAIN w2 /\ w2[k] = w[k]
    BY <2>2
  <2>b. \A k \in DOMAIN w2 : (k \in DOMAIN w /\ w2[k] = w[k]) \/ (k = Len(w) + 1 /\ w2[k] = r)
    <3> TAKE k \in DOMAIN w2
    <3>1. k \in DOMAIN w \/ k = Len(w) + 1
      BY <2>2
    <3> QED
      BY <2>2, <3>1
  <2>c. Len(w) + 1 \in DOMAIN w2
    BY <2>2
  <2>3. \A x \in Admissions : InLine(a2, w2, x) <=> InLine(a, w, x) \/ x = r
    BY <2>1, <2>2, <2>a, <2>b, <2>c, Zenon DEF InLine
  <2>4. ScopeSound(c, a2, w2)
    <3>1. \A k \in DOMAIN w2 : w2[k] # a2 /\ CallerOf[w2[k]] = c
      BY <1>3, <2>1, <2>b DEF ScopeSound, InLine
    <3>2. \A j, k \in DOMAIN w2 : w2[j] = w2[k] => j = k
      <4>1. \A k \in DOMAIN w : w[k] # r
        BY DEF InLine
      <4>2. \A j, k \in DOMAIN w : w[j] = w[k] => j = k
        BY DEF ScopeSound
      <4> QED
        BY <2>b, <4>1, <4>2, Zenon
    <3> QED
      BY <1>1, <1>3, <2>1, <2>2, <3>1, <3>2 DEF ScopeSound
  <2>5. LineOf(a2, w2) = Append(LineOf(a, w), r)
    <3> DEFINE l == LineOf(a, w)
               l2 == LineOf(a2, w2)
    <3>1. /\ l \in Seq(Admissions) /\ Len(l) = Len(w) + 1 /\ l[1] = a
          /\ \A j \in 1..Len(w) : l[j + 1] = w[j]
      BY <1>3, LineOfFacts
    <3>2. /\ l2 \in Seq(Admissions) /\ Len(l2) = Len(w2) + 1 /\ l2[1] = a
          /\ \A j \in 1..Len(w2) : l2[j + 1] = w2[j]
      <4>1. a2 # NoTicket /\ a2 = a
        BY <1>3, <2>1
      <4> QED
        BY <2>4, <4>1, LineOfFacts
    <3> HIDE DEF l, l2
    <3>3. Append(l, r) \in Seq(Admissions) /\ Len(Append(l, r)) = Len(l2)
      BY <2>2, <3>1, <3>2
    <3>4. ASSUME NEW j \in 1..Len(Append(l, r))
          PROVE  l2[j] = Append(l, r)[j]
      <4>1. CASE j = 1
        BY <2>2, <3>1, <3>2, <4>1
      <4>2. CASE j > 1 /\ j <= Len(w) + 1
        <5>1. j - 1 \in 1..Len(w) /\ j - 1 \in 1..Len(w2) /\ (j - 1) + 1 = j /\ j \in 1..Len(l)
          BY <2>2, <3>1, <4>2
        <5>2. l2[j] = w2[j - 1] /\ w2[j - 1] = w[j - 1] /\ l[j] = w[j - 1]
          BY <2>2, <3>1, <3>2, <5>1
        <5>3. Append(l, r)[j] = l[j]
          BY <3>1, <5>1
        <5> QED
          BY <5>2, <5>3
      <4>3. CASE j > Len(w) + 1
        <5>1. j = Len(w) + 2 /\ j = Len(l) + 1 /\ j - 1 = Len(w) + 1 /\ j - 1 \in 1..Len(w2) /\ (j - 1) + 1 = j
          BY <2>2, <3>1, <3>3, <4>3
        <5> QED
          BY <2>2, <3>1, <3>2, <5>1
      <4> QED
        BY <2>2, <4>1, <4>2, <4>3
    <3>5. l2 = Append(l, r)
      BY <3>2, <3>3, <3>4, SameSeq
    <3> QED
      BY <3>5 DEF l, l2
  <2> QED
    BY <2>3, <2>4, <2>5
<1> QED
  BY <1>2, <1>3

(* The active ticket leaves, and the first that waits is woken. *)
LEMMA ScopeNext ==
  ASSUME NEW c \in GateCallers, NEW a, NEW w, ScopeSound(c, a, w), a # NoTicket,
         NEW a2, NEW w2,
         IF w = <<>> THEN a2 = NoTicket /\ w2 = w ELSE a2 = Head(w) /\ w2 = Tail(w)
  PROVE  /\ ScopeSound(c, a2, w2)
         /\ \A x \in Admissions : InLine(a2, w2, x) <=> InLine(a, w, x) /\ x # a
         /\ 1 \in DOMAIN LineOf(a, w) /\ LineOf(a, w)[1] = a
         /\ LineOf(a2, w2) = RemoveAt(LineOf(a, w), 1)
<1>1. NoTicket \notin Admissions /\ QUEUE_LIMIT \in Nat /\ w \in Seq(Admissions) /\ a \in Admissions
  BY GateAssumption DEF ScopeSound
<1> DEFINE l == LineOf(a, w)
           l2 == LineOf(a2, w2)
<1>2. /\ l \in Seq(Admissions) /\ Len(l) = Len(w) + 1 /\ l[1] = a
      /\ \A j \in 1..Len(w) : l[j + 1] = w[j]
  BY LineOfFacts
<1>3. 1 \in DOMAIN l
  BY <1>1, <1>2
<1> HIDE DEF l, l2
<1>4. /\ RemoveAt(l, 1) \in Seq(Admissions) /\ Len(RemoveAt(l, 1)) = Len(w)
      /\ \A j \in 1..Len(w) : RemoveAt(l, 1)[j] = w[j]
  <2>1. /\ RemoveAt(l, 1) \in Seq(Admissions) /\ Len(RemoveAt(l, 1)) = Len(l) - 1
        /\ \A j \in 1..(Len(l) - 1) : RemoveAt(l, 1)[j] = IF j < 1 THEN l[j] ELSE l[j + 1]
    BY <1>2, <1>3, RemoveAtFacts
  <2> QED
    BY <1>1, <1>2, <2>1
<1>5. CASE w = <<>>
  <2>1. a2 = NoTicket /\ w2 = <<>>
    BY <1>5
  <2>2. ScopeSound(c, a2, w2)
    BY <1>1, <2>1 DEF ScopeSound
  <2>3. l2 = <<>>
    BY <2>1 DEF l2, LineOf
  <2>4. Len(RemoveAt(l, 1)) = 0
    BY <1>4, <1>5
  <2>5. \A x \in Admissions : InLine(a2, w2, x) <=> InLine(a, w, x) /\ x # a
    BY <1>1, <1>5, <2>1 DEF InLine
  <2>6. l2 = RemoveAt(l, 1)
    BY <1>4, <2>3, <2>4
  <2> QED
    BY <1>2, <1>3, <2>2, <2>5, <2>6 DEF l, l2
<1>6. CASE w # <<>>
  <2>1. a2 = w[1] /\ w2 = Tail(w) /\ w2 \in Seq(Admissions) /\ Len(w2) = Len(w) - 1
        /\ Len(w) >= 1 /\ DOMAIN w2 = 1..(Len(w) - 1) /\ DOMAIN w = 1..Len(w)
    BY <1>1, <1>6
  <2>2. \A k \in DOMAIN w2 : w2[k] = w[k + 1] /\ k + 1 \in DOMAIN w /\ k + 1 # 1
    BY <1>1, <1>6, <2>1
  <2>3. \A k \in DOMAIN w : k = 1 \/ (k - 1 \in DOMAIN w2 /\ (k - 1) + 1 = k)
    BY <2>1
  <2>4. 1 \in DOMAIN w
    BY <1>1, <2>1
  <2>5. /\ \A k \in DOMAIN w : w[k] # a /\ CallerOf[w[k]] = c
        /\ \A j, k \in DOMAIN w : w[j] = w[k] => j = k
    BY DEF ScopeSound
  <2>6. \A k \in DOMAIN w2 : w2[k] # a2 /\ CallerOf[w2[k]] = c
    BY <2>1, <2>2, <2>4, <2>5
  <2>7. \A j, k \in DOMAIN w2 : w2[j] = w2[k] => j = k
    <3> TAKE j, k \in DOMAIN w2
    <3>1. w2[j] = w2[k] => j + 1 = k + 1
      BY <2>2, <2>5
    <3> QED
      BY <2>1, <3>1
  <2>8. a2 \in Admissions /\ CallerOf[a2] = c
    BY <1>1, <2>1, <2>4, <2>5
  <2>9. Len(w2) <= QUEUE_LIMIT
    BY <1>1, <2>1 DEF ScopeSound
  <2>10. ScopeSound(c, a2, w2)
    BY <1>1, <2>1, <2>6, <2>7, <2>8, <2>9 DEF ScopeSound
  <2>11. ASSUME NEW x \in Admissions
         PROVE  InLine(a2, w2, x) <=> InLine(a, w, x) /\ x # a
    <3>1. ASSUME InLine(a2, w2, x) PROVE InLine(a, w, x) /\ x # a
      BY <2>1, <2>2, <2>4, <2>5, <3>1 DEF InLine
    <3>2. ASSUME InLine(a, w, x), x # a PROVE InLine(a2, w2, x)
      <4>1. PICK k \in DOMAIN w : w[k] = x
        BY <3>2 DEF InLine
      <4>2. CASE k = 1
        BY <2>1, <4>1, <4>2 DEF InLine
      <4>3. CASE k - 1 \in DOMAIN w2 /\ (k - 1) + 1 = k
        <5>1. w2[k - 1] = x
          BY <2>2, <4>1, <4>3
        <5> QED
          BY <4>3, <5>1 DEF InLine
      <4> QED
        BY <2>3, <4>1, <4>2, <4>3
    <3> QED
      BY <3>1, <3>2
  <2>12. l2 = RemoveAt(l, 1)
    <3>1. a2 # NoTicket
      BY <1>1, <2>8
    <3>2. /\ l2 \in Seq(Admissions) /\ Len(l2) = Len(w2) + 1 /\ l2[1] = a2
          /\ \A j \in 1..Len(w2) : l2[j + 1] = w2[j]
      BY <2>10, <3>1, LineOfFacts DEF l2
    <3>3. Len(l2) = Len(RemoveAt(l, 1))
      BY <1>4, <2>1, <3>2
    <3>4. ASSUME NEW j \in 1..Len(RemoveAt(l, 1))
          PROVE  l2[j] = RemoveAt(l, 1)[j]
      <4>1. RemoveAt(l, 1)[j] = w[j] /\ j \in DOMAIN w
        BY <1>4, <2>1
      <4>2. CASE j = 1
        BY <2>1, <3>2, <4>1, <4>2
      <4>3. CASE j - 1 \in DOMAIN w2 /\ (j - 1) + 1 = j
        <5>1. w2[j - 1] = w[j] /\ j - 1 \in 1..Len(w2)
          BY <2>1, <2>2, <4>3
        <5>2. l2[(j - 1) + 1] = w2[j - 1]
          BY <3>2, <5>1
        <5> QED
          BY <4>1, <4>3, <5>1, <5>2
      <4> QED
        BY <2>3, <4>1, <4>2, <4>3
    <3> QED
      BY <1>4, <3>2, <3>3, <3>4, SameSeq
  <2> QED
    BY <1>2, <1>3, <2>10, <2>11, <2>12 DEF l, l2
<1> QED
  BY <1>5, <1>6

(* A waiting ticket leaves. *)
LEMMA ScopeTakeOut ==
  ASSUME NEW c \in GateCallers, NEW a, NEW w, ScopeSound(c, a, w), NEW k \in DOMAIN w,
         NEW w2, w2 = RemoveAt(w, k)
  PROVE  /\ ScopeSound(c, a, w2)
         /\ \A x \in Admissions : InLine(a, w2, x) <=> InLine(a, w, x) /\ x # w[k]
         /\ k + 1 \in DOMAIN LineOf(a, w) /\ LineOf(a, w)[k + 1] = w[k]
         /\ LineOf(a, w2) = RemoveAt(LineOf(a, w), k + 1)
<1>1. /\ NoTicket \notin Admissions /\ QUEUE_LIMIT \in Nat /\ w \in Seq(Admissions)
      /\ a \in Admissions \cup {NoTicket} /\ a # NoTicket
      /\ k \in 1..Len(w) /\ Len(w) \in Nat /\ DOMAIN w = 1..Len(w) /\ Len(w) <= QUEUE_LIMIT
  <2>1. w # <<>>
    OBVIOUS
  <2>2. w \in Seq(Admissions)
    BY DEF ScopeSound
  <2> QED
    BY <2>1, <2>2, GateAssumption DEF ScopeSound
<1>2. /\ w2 \in Seq(Admissions) /\ Len(w2) = Len(w) - 1
      /\ \A j \in 1..(Len(w) - 1) : w2[j] = IF j < k THEN w[j] ELSE w[j + 1]
  BY <1>1, RemoveAtFacts
<1>3. DOMAIN w2 = 1..(Len(w) - 1)
  BY <1>1, <1>2
<1> DEFINE at(j) == IF j < k THEN j ELSE j + 1
<1>4. \A j \in DOMAIN w2 : at(j) \in DOMAIN w /\ at(j) # k /\ w2[j] = w[at(j)]
  BY <1>1, <1>2, <1>3
<1>5. \A i, j \in DOMAIN w2 : at(i) = at(j) => i = j
  BY <1>1, <1>3
<1>6. \A i \in DOMAIN w : i # k => \E j \in DOMAIN w2 : at(j) = i
  <2> TAKE i \in DOMAIN w
  <2>1. CASE i < k
    BY <1>1, <1>3, <2>1
  <2>2. CASE i > k
    <3>1. i - 1 \in DOMAIN w2 /\ at(i - 1) = i
      BY <1>1, <1>3, <2>2
    <3> QED
      BY <3>1
  <2> QED
    BY <1>1, <2>1, <2>2
<1>7. /\ \A j \in DOMAIN w : w[j] # a /\ CallerOf[w[j]] = c
      /\ \A i, j \in DOMAIN w : w[i] = w[j] => i = j
      /\ CallerOf[a] = c
  BY <1>1 DEF ScopeSound
<1>8. DOMAIN w2 = 1..(Len(w) - 1) /\ \A j \in DOMAIN w2 : at(j) \in DOMAIN w
  BY <1>3, <1>4
<1> HIDE DEF at
<1>9. ScopeSound(c, a, w2)
  <2>1. \A j \in DOMAIN w2 : w2[j] # a /\ CallerOf[w2[j]] = c
    BY <1>4, <1>7
  <2>2. \A i, j \in DOMAIN w2 : w2[i] = w2[j] => i = j
    BY <1>4, <1>5, <1>7
  <2>3. Len(w2) <= QUEUE_LIMIT
    BY <1>1, <1>2
  <2> QED
    BY <1>1, <1>2, <1>7, <2>1, <2>2, <2>3 DEF ScopeSound
<1>10. \A x \in Admissions : InLine(a, w2, x) <=> InLine(a, w, x) /\ x # w[k]
  <2> TAKE x \in Admissions
  <2>1. ASSUME InLine(a, w2, x) PROVE InLine(a, w, x) /\ x # w[k]
    BY <1>4, <1>7, <2>1 DEF InLine
  <2>2. ASSUME InLine(a, w, x), x # w[k] PROVE InLine(a, w2, x)
    BY <1>4, <1>6, <2>2 DEF InLine
  <2> QED
    BY <2>1, <2>2
<1>11. /\ k + 1 \in DOMAIN LineOf(a, w) /\ LineOf(a, w)[k + 1] = w[k]
       /\ LineOf(a, w2) = RemoveAt(LineOf(a, w), k + 1)
  <2> DEFINE l == LineOf(a, w)
             l2 == LineOf(a, w2)
  <2>1. /\ l \in Seq(Admissions) /\ Len(l) = Len(w) + 1 /\ l[1] = a
        /\ \A j \in 1..Len(w) : l[j + 1] = w[j]
    BY <1>1, LineOfFacts
  <2>2. /\ l2 \in Seq(Admissions) /\ Len(l2) = Len(w2) + 1 /\ l2[1] = a
        /\ \A j \in 1..Len(w2) : l2[j + 1] = w2[j]
    BY <1>1, <1>9, LineOfFacts
  <2> HIDE DEF l, l2
  <2>3. k + 1 \in DOMAIN l /\ l[k + 1] = w[k]
    BY <1>1, <2>1
  <2>4. /\ RemoveAt(l, k + 1) \in Seq(Admissions) /\ Len(RemoveAt(l, k + 1)) = Len(l) - 1
        /\ \A j \in 1..(Len(l) - 1) : RemoveAt(l, k + 1)[j] = IF j < k + 1 THEN l[j] ELSE l[j + 1]
    BY <2>1, <2>3, RemoveAtFacts
  <2>5. Len(l2) = Len(RemoveAt(l, k + 1)) /\ Len(l2) = Len(w)
    BY <1>1, <1>2, <2>1, <2>2, <2>4
  <2>6. ASSUME NEW j \in 1..Len(RemoveAt(l, k + 1))
        PROVE  l2[j] = RemoveAt(l, k + 1)[j]
    <3>0. j \in 1..Len(w) /\ RemoveAt(l, k + 1)[j] = IF j < k + 1 THEN l[j] ELSE l[j + 1]
      BY <2>1, <2>4, <2>5
    <3>1. CASE j = 1
      BY <1>1, <2>1, <2>2, <3>0, <3>1
    <3>2. CASE j > 1
      <4>1. j - 1 \in 1..(Len(w) - 1) /\ j - 1 \in 1..Len(w2) /\ (j - 1) + 1 = j
            /\ j - 1 \in 1..Len(w) /\ j \in 1..Len(w)
        BY <1>1, <1>2, <3>0, <3>2
      <4>2. l2[j] = w2[j - 1] /\ l[j] = w[j - 1] /\ l[j + 1] = w[j]
        BY <2>1, <2>2, <4>1
      <4>3. w2[j - 1] = IF j - 1 < k THEN w[j - 1] ELSE w[j]
        BY <1>2, <4>1
      <4>4. j - 1 < k <=> j < k + 1
        BY <1>1, <4>1
      <4> QED
        BY <3>0, <4>2, <4>3, <4>4
    <3> QED
      BY <3>0, <3>1, <3>2
  <2>7. l2 = RemoveAt(l, k + 1)
    BY <2>2, <2>4, <2>5, <2>6, SameSeq
  <2> QED
    BY <2>3, <2>7 DEF l, l2
<1> QED
  BY <1>9, <1>10, <1>11

-----------------------------------------------------------------------------
(* Tickets *)

LEMMA LineIs == Line = [c \in GateCallers |-> LineOf(active[c], waiters[c])]
BY DEF Line, LineOf

(* Scopes and tickets after the scope of caller c changed to a and w. *)
LEMMA ScopeUpdate ==
  ASSUME ScopesSound, NEW c \in GateCallers, NEW a, NEW w, ScopeSound(c, a, w),
         active' = [active EXCEPT ![c] = a], waiters' = [waiters EXCEPT ![c] = w]
  PROVE  /\ ScopesSound'
         /\ active'[c] = a /\ waiters'[c] = w
         /\ \A d \in GateCallers : d # c => active'[d] = active[d] /\ waiters'[d] = waiters[d]
         /\ Line' = [Line EXCEPT ![c] = LineOf(a, w)]
<1>1. a \in Admissions \cup {NoTicket} /\ w \in Seq(Admissions)
  BY DEF ScopeSound
<1>2. active'[c] = a /\ waiters'[c] = w
  BY DEF ScopesSound
<1>3. \A d \in GateCallers : d # c => active'[d] = active[d] /\ waiters'[d] = waiters[d]
  BY DEF ScopesSound
<1>4. /\ active' \in [GateCallers -> Admissions \cup {NoTicket}]
      /\ waiters' \in [GateCallers -> Seq(Admissions)]
  BY <1>1 DEF ScopesSound
<1>5. \A d \in GateCallers : ScopeSound(d, active'[d], waiters'[d])
  BY <1>2, <1>3 DEF ScopesSound
<1>6. ScopesSound'
  BY <1>4, <1>5 DEF ScopesSound
<1>7. Line' = [d \in GateCallers |-> LineOf(active'[d], waiters'[d])]
  BY DEF Line, LineOf
<1>8. Line' = [Line EXCEPT ![c] = LineOf(a, w)]
  BY <1>2, <1>3, <1>7, LineIs
<1> QED
  BY <1>2, <1>3, <1>6, <1>8

LEMMA ScopeUnchanged ==
  ASSUME ScopesSound, active' = active, waiters' = waiters
  PROVE  ScopesSound' /\ Line' = Line
BY DEF ScopesSound, Line

(* A new ticket. *)
LEMMA GateAcquire ==
  ASSUME ScopesSound, TicketsSound, NEW r \in Admissions, r \notin Tickets, r \notin granted,
         ~Full(CallerOf[r]), Enqueue(CallerOf[r], r),
         permit' = permit \cup {r}, pending' = pending, retainedTickets' = retainedTickets + 1
  PROVE  /\ ScopesSound' /\ TicketsSound'
         /\ granted \subseteq granted' /\ granted' \subseteq granted \cup {r}
         /\ Line' = [Line EXCEPT ![CallerOf[r]] = Append(@, r)]
<1> DEFINE c == CallerOf[r]
           a == active[c]
           w == waiters[c]
           a2 == IF a = NoTicket THEN r ELSE a
           w2 == IF a = NoTicket THEN w ELSE Append(w, r)
<1>1. c \in GateCallers /\ TICKET_LIMIT \in Nat /\ QUEUE_LIMIT \in Nat /\ NoTicket \notin Admissions
      /\ CallerOf \in [Admissions -> GateCallers]
  BY GateAssumption
<1>2. ScopeSound(c, a, w) /\ w \in Seq(Admissions)
  BY <1>1 DEF ScopesSound
<1>3. retainedTickets < TICKET_LIMIT /\ Len(w) < QUEUE_LIMIT
  <2>1. retainedTickets \in Nat /\ Len(w) \in Nat
    BY <1>2, FS_CardinalityType DEF TicketsSound
  <2> QED
    BY <1>1, <2>1 DEF Full
<1>4. ~InLine(a, w, r)
  BY DEF TicketsSound
<1> HIDE DEF a2, w2
<1>5. IF a = NoTicket THEN a2 = r /\ w2 = w ELSE a2 = a /\ w2 = Append(w, r)
  BY DEF a2, w2
<1>6. /\ ScopeSound(c, a2, w2)
      /\ \A x \in Admissions : InLine(a2, w2, x) <=> InLine(a, w, x) \/ x = r
      /\ LineOf(a2, w2) = Append(LineOf(a, w), r)
  <2> HIDE DEF a, w, c
  <2> QED
    BY <1>1, <1>2, <1>3, <1>4, <1>5, ScopeJoin DEF c
<1>7. active' = [active EXCEPT ![c] = a2] /\ waiters' = [waiters EXCEPT ![c] = w2]
  BY <1>1 DEF Enqueue, a2, w2, ScopesSound
<1>8. /\ ScopesSound'
      /\ active'[c] = a2 /\ waiters'[c] = w2
      /\ \A d \in GateCallers : d # c => active'[d] = active[d] /\ waiters'[d] = waiters[d]
      /\ Line' = [Line EXCEPT ![c] = LineOf(a2, w2)]
  BY <1>1, <1>6, <1>7, ScopeUpdate
<1>9. Line' = [Line EXCEPT ![c] = Append(@, r)]
  <2>1. Line[c] = LineOf(a, w)
    BY <1>1, LineIs
  <2> QED
    BY <1>1, <1>6, <1>8, <2>1, LineIs
<1>10. granted \subseteq granted' /\ granted' \subseteq granted \cup {r}
       /\ (r \in granted' => a2 = r) /\ (r \notin granted' => granted' = granted)
  BY DEF Enqueue, a2
<1>11. Tickets' = Tickets \cup {r}
  BY DEF Tickets
<1>12. TicketsSound'
  <2>1. Tickets' \subseteq Admissions /\ granted' \subseteq Admissions
    BY <1>10, <1>11 DEF TicketsSound
  <2>2. IsFiniteSet(Tickets') /\ retainedTickets' = Cardinality(Tickets')
    <3>1. IsFiniteSet(Tickets) /\ retainedTickets = Cardinality(Tickets)
      BY DEF TicketsSound
    <3>2. IsFiniteSet(Tickets \cup {r}) /\ Cardinality(Tickets \cup {r}) = Cardinality(Tickets) + 1
      BY <3>1, FS_AddElement
    <3> QED
      BY <1>11, <3>1, <3>2
  <2>3. retainedTickets' <= TICKET_LIMIT
    <3>1. retainedTickets \in Nat
      BY FS_CardinalityType DEF TicketsSound
    <3> QED
      BY <1>1, <1>3, <3>1
  <2>4. ASSUME NEW x \in Admissions
        PROVE  /\ x \in Tickets' <=> InLine(active'[CallerOf[x]], waiters'[CallerOf[x]], x)
               /\ x \in Tickets' \cap granted' => active'[CallerOf[x]] = x
    <3>0. CallerOf[x] \in GateCallers
      BY <1>1
    <3>1. /\ x \in Tickets <=> InLine(active[CallerOf[x]], waiters[CallerOf[x]], x)
          /\ x \in Tickets \cap granted => active[CallerOf[x]] = x
      BY DEF TicketsSound
    <3>2. CASE CallerOf[x] # c
      <4>1. x # r
        BY <3>2
      <4>2. active'[CallerOf[x]] = active[CallerOf[x]] /\ waiters'[CallerOf[x]] = waiters[CallerOf[x]]
        BY <1>8, <3>0, <3>2
      <4> QED
        BY <1>10, <1>11, <3>1, <4>1, <4>2
    <3>3. CASE CallerOf[x] = c
      <4>1. x \in Tickets' <=> InLine(active'[CallerOf[x]], waiters'[CallerOf[x]], x)
        BY <1>6, <1>8, <1>11, <3>1, <3>3
      <4>2. CASE x = r
        BY <1>8, <1>10, <3>3, <4>1, <4>2
      <4>3. CASE x # r
        <5>1. x \in Tickets' \cap granted' => a = x
          BY <1>10, <1>11, <3>1, <3>3, <4>3
        <5>2. a = x => a2 = a
          BY <1>1 DEF a2
        <5> QED
          BY <1>8, <3>3, <4>1, <5>1, <5>2
      <4> QED
        BY <4>2, <4>3
    <3> QED
      BY <3>2, <3>3
  <2> QED
    BY <2>1, <2>2, <2>3, <2>4 DEF TicketsSound
<1> QED
  BY <1>8, <1>9, <1>10, <1>12

(* Ticket r leaves its line, and left is what remains. *)
Dropped(r, l, left) ==
  \E k \in DOMAIN l[CallerOf[r]] :
    l[CallerOf[r]][k] = r /\ left = [l EXCEPT ![CallerOf[r]] = RemoveAt(@, k)]

(* The last reference of a ticket is dropped: the scope after it. *)
LEMMA HandOffScope ==
  ASSUME ScopesSound, TicketsSound, NEW r \in Tickets, HandOff(r)
  PROVE  /\ ScopesSound' /\ Dropped(r, Line, Line')
         /\ \A d \in GateCallers : d # CallerOf[r] => active'[d] = active[d] /\ waiters'[d] = waiters[d]
         /\ \A x \in Admissions : InLine(active'[CallerOf[r]], waiters'[CallerOf[r]], x)
              <=> InLine(active[CallerOf[r]], waiters[CallerOf[r]], x) /\ x # r
         /\ granted \subseteq granted'
         /\ \A x \in granted' \ granted : active'[CallerOf[r]] = x /\ x \in Admissions /\ CallerOf[x] = CallerOf[r]
         /\ active[CallerOf[r]] # r => active'[CallerOf[r]] = active[CallerOf[r]]
<1> DEFINE c == CallerOf[r]
           a == active[c]
           w == waiters[c]
<1>1. r \in Admissions /\ c \in GateCallers /\ NoTicket \notin Admissions
  BY GateAssumption DEF TicketsSound
<1>2. ScopeSound(c, a, w) /\ w \in Seq(Admissions) /\ InLine(a, w, r)
  BY <1>1 DEF ScopesSound, TicketsSound
<1>3. Line[c] = LineOf(a, w) /\ DOMAIN Line = GateCallers
  BY <1>1, LineIs
<1>4. CASE a = r
  <2> DEFINE a2 == IF w = <<>> THEN NoTicket ELSE Head(w)
             w2 == IF w = <<>> THEN w ELSE Tail(w)
  <2>0. a # NoTicket
    BY <1>1, <1>4
  <2>1. /\ active' = [active EXCEPT ![c] = a2]
        /\ waiters' = [waiters EXCEPT ![c] = w2]
        /\ granted' = granted \/ (w # <<>> /\ granted' = granted \cup {a2})
    BY <1>1, <1>4 DEF HandOff, ScopesSound
  <2> HIDE DEF a2, w2
  <2>2. IF w = <<>> THEN a2 = NoTicket /\ w2 = w ELSE a2 = Head(w) /\ w2 = Tail(w)
    BY DEF a2, w2
  <2>3. /\ ScopeSound(c, a2, w2)
        /\ \A x \in Admissions : InLine(a2, w2, x) <=> InLine(a, w, x) /\ x # a
        /\ 1 \in DOMAIN LineOf(a, w) /\ LineOf(a, w)[1] = a
        /\ LineOf(a2, w2) = RemoveAt(LineOf(a, w), 1)
    <3>1. c \in GateCallers /\ ScopeSound(c, a, w) /\ a # NoTicket
      BY <1>1, <1>2, <2>0
    <3> HIDE DEF a, w, c
    <3> QED
      BY <2>2, <3>1, ScopeNext
  <2>4. /\ ScopesSound' /\ active'[c] = a2 /\ waiters'[c] = w2
        /\ \A d \in GateCallers : d # c => active'[d] = active[d] /\ waiters'[d] = waiters[d]
        /\ Line' = [Line EXCEPT ![c] = LineOf(a2, w2)]
    <3>1. c \in GateCallers /\ ScopeSound(c, a2, w2)
      BY <1>1, <2>3
    <3> HIDE DEF a, w, c
    <3> QED
      BY <2>1, <3>1, ScopeUpdate, Zenon
  <2>5. Dropped(r, Line, Line')
    BY <1>1, <1>3, <1>4, <2>3, <2>4 DEF Dropped
  <2>6. w # <<>> => a2 \in Admissions /\ CallerOf[a2] = c
    <3>1. w # <<>> => Head(w) = w[1] /\ 1 \in DOMAIN w /\ w[1] \in Admissions
      BY <1>2
    <3> QED
      BY <1>2, <2>2, <3>1 DEF ScopeSound
  <2> QED
    BY <1>4, <2>1, <2>3, <2>4, <2>5, <2>6
<1>5. CASE a # r
  <2>1. PICK k \in DOMAIN w : w[k] = r
    BY <1>2, <1>5 DEF InLine
  <2>2. TakeOut(c, r) /\ UNCHANGED <<active, granted>>
    BY <1>5 DEF HandOff
  <2>3. r \in ToSet(w)
    BY <1>2, <2>1 DEF ToSet
  <2>4. PICK j \in DOMAIN w : w[j] = r /\ waiters' = [waiters EXCEPT ![c] = RemoveAt(@, j)]
    BY <2>2, <2>3 DEF TakeOut
  <2> DEFINE w2 == RemoveAt(w, j)
  <2>5. waiters' = [waiters EXCEPT ![c] = w2] /\ active' = [active EXCEPT ![c] = a]
    BY <1>1, <2>2, <2>4 DEF ScopesSound
  <2> HIDE DEF w2
  <2>6. /\ ScopeSound(c, a, w2)
        /\ \A x \in Admissions : InLine(a, w2, x) <=> InLine(a, w, x) /\ x # w[j]
        /\ j + 1 \in DOMAIN LineOf(a, w) /\ LineOf(a, w)[j + 1] = w[j]
        /\ LineOf(a, w2) = RemoveAt(LineOf(a, w), j + 1)
    <3>1. w2 = RemoveAt(w, j)
      BY DEF w2
    <3> HIDE DEF a, w, c
    <3> QED
      BY <1>1, <1>2, <2>4, <3>1, ScopeTakeOut
  <2>7. /\ ScopesSound' /\ active'[c] = a /\ waiters'[c] = w2
        /\ \A d \in GateCallers : d # c => active'[d] = active[d] /\ waiters'[d] = waiters[d]
        /\ Line' = [Line EXCEPT ![c] = LineOf(a, w2)]
    <3> DEFINE a2 == a
    <3>1. c \in GateCallers /\ ScopeSound(c, a2, w2)
      BY <1>1, <2>6
    <3>2. active' = [active EXCEPT ![c] = a2] /\ waiters' = [waiters EXCEPT ![c] = w2]
      BY <2>5
    <3>3. a2 = a
      OBVIOUS
    <3> HIDE DEF a2, c
    <3>4. /\ ScopesSound' /\ active'[c] = a2 /\ waiters'[c] = w2
          /\ \A d \in GateCallers : d # c => active'[d] = active[d] /\ waiters'[d] = waiters[d]
          /\ Line' = [Line EXCEPT ![c] = LineOf(a2, w2)]
      BY <3>1, <3>2, ScopeUpdate, Zenon
    <3> QED
      BY <3>3, <3>4
  <2>8. Dropped(r, Line, Line')
    <3>1. j + 1 \in DOMAIN Line[c] /\ Line[c][j + 1] = r /\ Line' = [Line EXCEPT ![c] = RemoveAt(@, j + 1)]
      BY <1>1, <1>3, <2>4, <2>6, <2>7
    <3> QED
      BY <3>1 DEF Dropped
  <2> QED
    BY <2>2, <2>4, <2>6, <2>7, <2>8
<1> QED
  BY <1>4, <1>5

(* A reference is dropped. *)
LEMMA GateRelease ==
  ASSUME ScopesSound, TicketsSound, NEW r \in Admissions, NEW permits, NEW retains,
         permits \cup retains \in {Tickets, Tickets \ {r}}, ReleaseTicket(r, permits, retains)
  PROVE  /\ ScopesSound' /\ TicketsSound'
         /\ Tickets' = permits \cup retains
         /\ granted \subseteq granted' /\ granted' \ granted \subseteq Tickets'
         /\ r \in Tickets /\ r \notin Tickets' => Dropped(r, Line, Line')
         /\ ~(r \in Tickets /\ r \notin Tickets') => Line' = Line /\ granted' = granted /\ Tickets' = Tickets
<1>1. Tickets' = permits \cup retains /\ permit' = permits /\ pending' = retains
  BY DEF Tickets, ReleaseTicket
<1>2. CASE ~(r \in Tickets /\ r \notin Tickets')
  <2>1. UNCHANGED <<granted, active, waiters, retainedTickets>>
    BY <1>1, <1>2 DEF ReleaseTicket, Tickets
  <2>2. Tickets' = Tickets
    BY <1>1, <1>2
  <2>3. ScopesSound' /\ Line' = Line
    BY <2>1, ScopeUnchanged
  <2>4. TicketsSound'
    BY <2>1, <2>2 DEF TicketsSound
  <2> QED
    BY <1>1, <1>2, <2>1, <2>2, <2>3, <2>4
<1>3. CASE r \in Tickets /\ r \notin Tickets'
  <2>1. HandOff(r)
    BY <1>1, <1>3 DEF ReleaseTicket, Tickets
  <2>2. Tickets' = Tickets \ {r}
    BY <1>1, <1>3
  <2>3. /\ ScopesSound' /\ Dropped(r, Line, Line')
        /\ \A d \in GateCallers : d # CallerOf[r] => active'[d] = active[d] /\ waiters'[d] = waiters[d]
        /\ \A x \in Admissions : InLine(active'[CallerOf[r]], waiters'[CallerOf[r]], x)
             <=> InLine(active[CallerOf[r]], waiters[CallerOf[r]], x) /\ x # r
        /\ granted \subseteq granted'
        /\ \A x \in granted' \ granted : active'[CallerOf[r]] = x /\ x \in Admissions /\ CallerOf[x] = CallerOf[r]
        /\ active[CallerOf[r]] # r => active'[CallerOf[r]] = active[CallerOf[r]]
    BY <1>3, <2>1, HandOffScope
  <2>4. ASSUME NEW x \in Admissions
        PROVE  /\ x \in Tickets' <=> InLine(active'[CallerOf[x]], waiters'[CallerOf[x]], x)
               /\ x \in Tickets' \cap granted' => active'[CallerOf[x]] = x
    <3>0. CallerOf[x] \in GateCallers
      BY GateAssumption
    <3>1. /\ x \in Tickets <=> InLine(active[CallerOf[x]], waiters[CallerOf[x]], x)
          /\ x \in Tickets \cap granted => active[CallerOf[x]] = x
      BY DEF TicketsSound
    <3>2. CASE CallerOf[x] # CallerOf[r]
      <4>1. x # r /\ (x \in granted' => x \in granted)
        BY <2>3, <3>2
      <4>2. active'[CallerOf[x]] = active[CallerOf[x]] /\ waiters'[CallerOf[x]] = waiters[CallerOf[x]]
        BY <2>3, <3>0, <3>2
      <4> QED
        BY <2>2, <3>1, <4>1, <4>2
    <3>3. CASE CallerOf[x] = CallerOf[r]
      <4>1. x \in Tickets' <=> InLine(active'[CallerOf[x]], waiters'[CallerOf[x]], x)
        BY <2>2, <2>3, <3>1, <3>3
      <4>2. ASSUME x \in Tickets' \cap granted' PROVE active'[CallerOf[x]] = x
        <5>1. CASE x \in granted
          <6>1. active[CallerOf[x]] = x /\ x # r
            BY <2>2, <3>1, <4>2, <5>1
          <6> QED
            BY <2>3, <3>3, <6>1
        <5>2. CASE x \notin granted
          BY <2>3, <3>3, <4>2, <5>2
        <5> QED
          BY <5>1, <5>2
      <4> QED
        BY <4>1, <4>2
    <3> QED
      BY <3>2, <3>3
  <2>5. granted' \ granted \subseteq Tickets'
    <3> SUFFICES ASSUME NEW x \in granted' \ granted PROVE x \in Tickets'
      OBVIOUS
    <3>1. active'[CallerOf[x]] = x /\ x \in Admissions
      BY <2>3
    <3> QED
      BY <2>4, <3>1 DEF InLine
  <2>6. Tickets' \subseteq Admissions /\ granted' \subseteq Admissions
    BY <2>2, <2>3 DEF TicketsSound
  <2>7. /\ IsFiniteSet(Tickets') /\ retainedTickets' = Cardinality(Tickets')
        /\ retainedTickets' <= TICKET_LIMIT
    <3>1. IsFiniteSet(Tickets) /\ retainedTickets = Cardinality(Tickets) /\ retainedTickets <= TICKET_LIMIT
      BY DEF TicketsSound
    <3>2. IsFiniteSet(Tickets \ {r}) /\ Cardinality(Tickets \ {r}) = Cardinality(Tickets) - 1
      BY <1>3, <3>1, FS_RemoveElement
    <3>3. retainedTickets' = retainedTickets - 1
      BY <2>1 DEF HandOff
    <3>4. retainedTickets \in Nat /\ TICKET_LIMIT \in Nat
      BY <3>1, FS_CardinalityType, GateAssumption
    <3> QED
      BY <2>2, <3>1, <3>2, <3>3, <3>4
  <2>8. TicketsSound'
    BY <2>4, <2>6, <2>7 DEF TicketsSound
  <2> QED
    BY <1>1, <1>3, <2>3, <2>5, <2>8
<1> QED
  BY <1>2, <1>3

-----------------------------------------------------------------------------
(* Requests *)

(* A step of request r leaves what the others hold alone, except that one of
   them may be granted. *)
LEMMA CallsStep ==
  ASSUME CallsSound, NEW r \in Admissions,
         call' \in [Admissions -> Calls],
         driver' \in [Admissions -> {"none", "queued", "lent"}],
         txAttempt' \in [Admissions -> 0 .. MaxRetries],
         \A x \in Admissions \ {r} : call'[x] = call[x] /\ driver'[x] = driver[x],
         permit' \cup {r} = permit \cup {r}, pending' \cup {r} = pending \cup {r},
         granted \subseteq granted', granted' \ granted \subseteq Tickets' \cup {r},
         CallSound(r)'
  PROVE  CallsSound'
<1>1. ASSUME NEW x \in Admissions, x # r
      PROVE  CallSound(x)'
  <2>1. call'[x] = call[x] /\ driver'[x] = driver[x]
    BY <1>1
  <2>2. (x \in permit' <=> x \in permit) /\ (x \in pending' <=> x \in pending)
    BY <1>1
  <2>3. (x \in Tickets' <=> x \in Tickets)
    BY <2>2 DEF Tickets
  <2>4. x \in granted' => x \in granted \/ x \in Tickets
    BY <1>1, <2>3
  <2>5. x \in granted => x \in granted'
    OBVIOUS
  <2>6. CallSound(x)
    BY DEF CallsSound
  <2> QED
    BY <2>1, <2>2, <2>3, <2>4, <2>5, <2>6 DEF CallSound
<1>2. \A x \in Admissions : CallSound(x)'
  BY <1>1
<1> QED
  BY <1>2 DEF CallsSound

(* The request the driver works for, after a step of r. *)
LEMMA UsingReturned ==
  ASSUME NEW r \in Admissions, driver'[r] = "none",
         \A x \in Admissions \ {r} : driver'[x] = driver[x]
  PROVE  Using' = [Using EXCEPT ![CallerOf[r]] = @ \ {r}]
<1>1. Using' = [c \in GateCallers |-> {x \in Admissions : CallerOf[x] = c /\ driver'[x] # "none"}]
  BY DEF Using
<1>2. ASSUME NEW c \in GateCallers
      PROVE  Using'[c] = IF c = CallerOf[r] THEN Using[c] \ {r} ELSE Using[c]
  BY <1>1 DEF Using
<1>3. DOMAIN Using = GateCallers /\ Using = [c \in GateCallers |-> Using[c]]
  BY DEF Using
<1>4. Using' = [c \in GateCallers |-> Using'[c]]
  BY <1>1
<1> QED
  BY <1>2, <1>3, <1>4

LEMMA UsingSame ==
  ASSUME \A x \in Admissions : driver'[x] = "none" <=> driver[x] = "none"
  PROVE  Using' = Using
BY DEF Using

(* What the line of a caller holds. *)
LEMMA LineHolds ==
  ASSUME NEW c \in GateCallers, NEW a, NEW w, ScopeSound(c, a, w), NEW x \in Admissions
  PROVE  InLine(a, w, x) <=> \E k \in DOMAIN LineOf(a, w) : LineOf(a, w)[k] = x
<1> DEFINE l == LineOf(a, w)
<1>1. w \in Seq(Admissions) /\ NoTicket \notin Admissions
  BY GateAssumption DEF ScopeSound
<1>2. CASE a = NoTicket
  <2>1. w = <<>> /\ l = <<>>
    BY <1>2, LineOfFacts
  <2> QED
    BY <1>1, <1>2, <2>1 DEF InLine
<1>3. CASE a # NoTicket
  <2>1. /\ l \in Seq(Admissions) /\ Len(l) = Len(w) + 1 /\ l[1] = a
        /\ \A j \in 1..Len(w) : l[j + 1] = w[j]
    BY <1>3, LineOfFacts
  <2> HIDE DEF l
  <2>2. DOMAIN l = 1..(Len(w) + 1) /\ DOMAIN w = 1..Len(w) /\ Len(w) \in Nat
    BY <1>1, <2>1
  <2>3. \A k \in DOMAIN w : k + 1 \in DOMAIN l /\ l[k + 1] = w[k]
    BY <2>1, <2>2
  <2>4. \A k \in DOMAIN l : k = 1 \/ (k - 1 \in DOMAIN w /\ l[k] = w[k - 1])
    <3> TAKE k \in DOMAIN l
    <3>1. k = 1 \/ (k - 1 \in DOMAIN w /\ (k - 1) + 1 = k)
      BY <2>2
    <3> QED
      BY <2>3, <3>1
  <2>5. 1 \in DOMAIN l
    BY <2>2
  <2>6. ASSUME InLine(a, w, x) PROVE \E k \in DOMAIN l : l[k] = x
    <3>1. CASE a = x
      BY <2>1, <2>5, <3>1
    <3>2. CASE \E k \in DOMAIN w : w[k] = x
      BY <2>3, <3>2
    <3> QED
      BY <2>6, <3>1, <3>2 DEF InLine
  <2>7. ASSUME NEW k \in DOMAIN l, l[k] = x PROVE InLine(a, w, x)
    BY <2>1, <2>4, <2>7 DEF InLine
  <2> QED
    BY <2>6, <2>7 DEF l
<1> QED
  BY <1>2, <1>3

(* A step of the gate is a step of the line, or none of it. *)
LineStep == Abstract!Next \/ (Line' = Line /\ Using' = Using)

LEMMA LineStepLeave ==
  ASSUME NEW r \in Admissions, Dropped(r, Line, Line'),
         Using' = [Using EXCEPT ![CallerOf[r]] = @ \ {r}]
  PROVE  LineStep
<1>1. CallerOf[r] \in GateCallers
  BY GateAssumption
<1>2. Abstract!Leave(CallerOf[r], r)
  BY DEF Abstract!Leave, Dropped, RemoveAt, Abstract!RemoveAt
<1> QED
  BY <1>1, <1>2 DEF LineStep, Abstract!Next

LEMMA LineStepReturn ==
  ASSUME NEW r \in Admissions, Line' = Line, driver[r] # "none",
         Using' = [Using EXCEPT ![CallerOf[r]] = @ \ {r}]
  PROVE  LineStep
<1>1. CallerOf[r] \in GateCallers
  BY GateAssumption
<1>2. r \in Using[CallerOf[r]]
  BY <1>1 DEF Using
<1>3. Abstract!Return(CallerOf[r], r)
  BY <1>2 DEF Abstract!Return
<1> QED
  BY <1>1, <1>3 DEF LineStep, Abstract!Next

-----------------------------------------------------------------------------
(* The steps *)

LEMMA AcquireStep ==
  ASSUME GateInv, NEW r \in Admissions, Acquire(r)
  PROVE  GateInv' /\ LineStep
<1> DEFINE c == CallerOf[r]
<1>0. ScopesSound /\ TicketsSound /\ CallsSound /\ CallSound(r) /\ c \in GateCallers
  BY GateAssumption DEF GateInv, CallsSound
<1>1. r \notin Tickets /\ r \notin granted /\ r \notin pending /\ driver[r] = "none"
  BY <1>0 DEF CallSound, Acquire, Tickets
<1>2. /\ ScopesSound' /\ TicketsSound'
      /\ granted \subseteq granted' /\ granted' \subseteq granted \cup {r}
      /\ Line' = [Line EXCEPT ![c] = Append(@, r)]
  BY <1>0, <1>1, GateAcquire DEF Acquire
<1>3. CallsSound'
  <2>1. /\ call' \in [Admissions -> Calls] /\ call'[r] = "queued"
        /\ \A x \in Admissions \ {r} : call'[x] = call[x]
    BY <1>0 DEF CallsSound, Acquire, Calls
  <2>2. driver' = driver /\ txAttempt' = txAttempt /\ permit' = permit \cup {r} /\ pending' = pending
    BY DEF Acquire
  <2>3. CallSound(r)'
    BY <1>1, <2>1, <2>2 DEF CallSound
  <2>4. /\ driver' \in [Admissions -> {"none", "queued", "lent"}]
        /\ txAttempt' \in [Admissions -> 0 .. MaxRetries]
        /\ \A x \in Admissions \ {r} : call'[x] = call[x] /\ driver'[x] = driver[x]
        /\ permit' \cup {r} = permit \cup {r} /\ pending' \cup {r} = pending \cup {r}
        /\ granted' \ granted \subseteq Tickets' \cup {r}
    BY <1>0, <1>2, <2>1, <2>2 DEF CallsSound
  <2> QED
    BY <1>0, <1>2, <2>1, <2>3, <2>4, CallsStep
<1>4. Abstract!Join(c, r)
  <2> DEFINE a == active[c]
             w == waiters[c]
  <2>1. ScopeSound(c, a, w) /\ Line[c] = LineOf(a, w)
    BY <1>0, LineIs DEF ScopesSound
  <2>2. Len(Line[c]) < QUEUE_LIMIT + 1
    <3>1. Len(w) < QUEUE_LIMIT /\ Len(w) \in Nat /\ QUEUE_LIMIT \in Nat
      <4>1. w \in Seq(Admissions) /\ QUEUE_LIMIT \in Nat
        BY <2>1, GateAssumption DEF ScopeSound
      <4>2. Len(w) \in Nat
        BY <4>1
      <4>3. ~(Len(w) >= QUEUE_LIMIT)
        BY DEF Acquire, Full
      <4> QED
        BY <4>1, <4>2, <4>3
    <3>2. CASE a = NoTicket
      <4>1. Line[c] = <<>>
        BY <2>1, <3>2, <1>0, LineOfFacts
      <4> QED
        BY <3>1, <4>1
    <3>3. CASE a # NoTicket
      <4>1. Len(Line[c]) = Len(w) + 1
        BY <2>1, <3>3, <1>0, LineOfFacts
      <4> QED
        BY <3>1, <4>1
    <3> QED
      BY <3>2, <3>3
  <2>3. ~InLine(a, w, r)
    BY <1>0, <1>1 DEF TicketsSound
  <2>4. r \notin ToSet(Line[c])
    BY <1>0, <2>1, <2>3, LineHolds DEF ToSet
  <2>5. Using' = Using
    BY DEF Acquire, Using
  <2> QED
    BY <1>2, <2>2, <2>4, <2>5 DEF Abstract!Join, ToSet, Abstract!ToSet
<1> QED
  BY <1>0, <1>2, <1>3, <1>4 DEF GateInv, LineStep, Abstract!Next

(* Steps that change only where a request is, and its entry in the driver. *)
LEMMA QuietStep ==
  ASSUME GateInv, NEW r \in Admissions, UNCHANGED scopes,
         call' \in [Admissions -> Calls], driver' \in [Admissions -> {"none", "queued", "lent"}],
         txAttempt' \in [Admissions -> 0 .. MaxRetries],
         \A x \in Admissions \ {r} : call'[x] = call[x] /\ driver'[x] = driver[x],
         CallSound(r)'
  PROVE  GateInv' /\ Line' = Line
<1>1. /\ permit' = permit /\ pending' = pending /\ granted' = granted
      /\ active' = active /\ waiters' = waiters /\ retainedTickets' = retainedTickets
  BY DEF scopes
<1>2. ScopesSound' /\ Line' = Line
  BY <1>1, ScopeUnchanged DEF GateInv
<1>3. TicketsSound'
  BY <1>1 DEF GateInv, TicketsSound, Tickets
<1>4. CallsSound'
  BY <1>1, CallsStep DEF GateInv
<1> QED
  BY <1>2, <1>3, <1>4 DEF GateInv

LEMMA QuietSteps ==
  ASSUME GateInv, NEW r \in Admissions,
         RefuseTicket(r) \/ AdmitTicket(r) \/ TimeOut(r) \/ Lend(r) \/ EndTransaction(r)
  PROVE  GateInv' /\ LineStep
<1>0. CallsSound /\ CallSound(r) /\ MaxRetries \in Nat
  BY GateAssumption DEF GateInv, CallsSound
<1>1. /\ call \in [Admissions -> Calls] /\ driver \in [Admissions -> {"none", "queued", "lent"}]
      /\ txAttempt \in [Admissions -> 0 .. MaxRetries]
  BY <1>0 DEF CallsSound
<1>2. CASE RefuseTicket(r) \/ AdmitTicket(r) \/ TimeOut(r)
  <2>1. UNCHANGED scopes /\ driver' = driver /\ txAttempt' = txAttempt
    BY <1>2 DEF RefuseTicket, AdmitTicket, TimeOut
  <2>2. /\ permit' = permit /\ pending' = pending /\ granted' = granted
    BY <2>1 DEF scopes
  <2>3. /\ call' \in [Admissions -> Calls]
        /\ \A x \in Admissions \ {r} : call'[x] = call[x]
    BY <1>1, <1>2 DEF RefuseTicket, AdmitTicket, TimeOut, Calls
  <2>4. \/ call[r] = "new" /\ call'[r] = "over"
        \/ call[r] = "queued" /\ call'[r] = "admitted" /\ r \in granted
        \/ call[r] \in {"admitted", "connecting"} /\ call'[r] = "ending"
    BY <1>1, <1>2 DEF RefuseTicket, AdmitTicket, TimeOut
  <2>5. CallSound(r)'
    BY <1>0, <2>1, <2>2, <2>4 DEF CallSound, Tickets
  <2>6. GateInv' /\ Line' = Line
    BY <1>1, <2>1, <2>3, <2>5, QuietStep
  <2>7. Using' = Using
    BY <2>1 DEF Using
  <2> QED
    BY <2>6, <2>7 DEF LineStep
<1>3. CASE Lend(r)
  <2>1. UNCHANGED scopes /\ call' = call /\ txAttempt' = txAttempt /\ driver[r] = "queued"
    BY <1>3 DEF Lend
  <2>2. /\ permit' = permit /\ pending' = pending /\ granted' = granted
    BY <2>1 DEF scopes
  <2>3. /\ driver' \in [Admissions -> {"none", "queued", "lent"}] /\ driver'[r] = "lent"
        /\ \A x \in Admissions \ {r} : driver'[x] = driver[x]
    BY <1>1, <1>3 DEF Lend
  <2>4. CallSound(r)'
    BY <1>0, <2>1, <2>2, <2>3 DEF CallSound, Tickets
  <2>5. GateInv' /\ Line' = Line
    BY <1>1, <2>1, <2>3, <2>4, QuietStep
  <2>6. Using' = Using
    BY <2>1, <2>3, UsingSame
  <2> QED
    BY <2>5, <2>6 DEF LineStep
<1>4. CASE EndTransaction(r)
  <2>1. UNCHANGED scopes /\ call[r] = "working"
    BY <1>4 DEF EndTransaction
  <2>2. /\ permit' = permit /\ pending' = pending /\ granted' = granted
    BY <2>1 DEF scopes
  <2>3. /\ driver' \in [Admissions -> {"none", "queued", "lent"}] /\ driver'[r] = "none"
        /\ \A x \in Admissions \ {r} : driver'[x] = driver[x]
    BY <1>1, <1>4 DEF EndTransaction
  <2>4. /\ call' \in [Admissions -> Calls] /\ call'[r] \in {"admitted", "ending"}
        /\ \A x \in Admissions \ {r} : call'[x] = call[x]
    BY <1>1, <1>4 DEF EndTransaction, Calls
  <2>5. txAttempt' \in [Admissions -> 0 .. MaxRetries]
    <3>1. CASE txAttempt' = txAttempt
      BY <1>1, <3>1
    <3>2. CASE txAttempt[r] < MaxRetries /\ txAttempt' = [txAttempt EXCEPT ![r] = @ + 1]
      <4>1. txAttempt[r] \in 0 .. MaxRetries
        BY <1>1
      <4>2. txAttempt[r] + 1 \in 0 .. MaxRetries
        BY <1>0, <3>2, <4>1
      <4> QED
        BY <1>1, <3>2, <4>2
    <3> QED
      BY <1>4, <3>1, <3>2 DEF EndTransaction
  <2>6. CallSound(r)'
    BY <1>0, <2>1, <2>2, <2>3, <2>4 DEF CallSound, Tickets
  <2>7. GateInv' /\ Line' = Line
    BY <2>1, <2>3, <2>4, <2>5, <2>6, QuietStep
  <2>8. Using' = [Using EXCEPT ![CallerOf[r]] = @ \ {r}]
    BY <2>3, UsingReturned
  <2>9. driver[r] # "none"
    BY <1>0, <2>1 DEF CallSound
  <2> QED
    BY <2>7, <2>8, <2>9, LineStepReturn
<1> QED
  BY <1>2, <1>3, <1>4

(* A request queues in the driver: its ticket is the active one, so nobody
   else of its caller has anything there. *)
LEMMA ConnectStep ==
  ASSUME GateInv, NEW r \in Admissions, Connect(r)
  PROVE  GateInv' /\ LineStep
<1> DEFINE c == CallerOf[r]
<1>0. ScopesSound /\ TicketsSound /\ CallsSound /\ CallSound(r) /\ c \in GateCallers
      /\ NoTicket \notin Admissions
  BY GateAssumption DEF GateInv, CallsSound
<1>1. r \in permit /\ r \in granted /\ r \in Tickets /\ call[r] = "admitted"
  BY <1>0 DEF CallSound, Connect, Tickets
<1>2. /\ permit' = permit /\ pending' = pending \cup {r} /\ granted' = granted
      /\ active' = active /\ waiters' = waiters /\ retainedTickets' = retainedTickets
      /\ txAttempt' = txAttempt
  BY DEF Connect
<1>3. ScopesSound' /\ Line' = Line
  BY <1>0, <1>2, ScopeUnchanged
<1>4. Tickets' = Tickets
  BY <1>1, <1>2 DEF Tickets
<1>5. TicketsSound'
  BY <1>0, <1>2, <1>4 DEF TicketsSound
<1>6. /\ call' \in [Admissions -> Calls] /\ call'[r] = "connecting"
      /\ driver' \in [Admissions -> {"none", "queued", "lent"}] /\ driver'[r] = "queued"
      /\ \A x \in Admissions \ {r} : call'[x] = call[x] /\ driver'[x] = driver[x]
      /\ txAttempt \in [Admissions -> 0 .. MaxRetries]
  BY <1>0 DEF Connect, CallsSound, Calls
<1>7. CallSound(r)'
  BY <1>1, <1>2, <1>4, <1>6 DEF CallSound
<1>8. CallsSound'
  <2>1. permit' \cup {r} = permit \cup {r} /\ pending' \cup {r} = pending \cup {r}
        /\ granted \subseteq granted' /\ granted' \ granted \subseteq Tickets' \cup {r}
    BY <1>2
  <2> QED
    BY <1>0, <1>2, <1>6, <1>7, <2>1, CallsStep
<1>9. active[c] = r
  BY <1>0, <1>1 DEF TicketsSound
<1>10. Line[c] # <<>> /\ Head(Line[c]) = r
  <2>1. ScopeSound(c, active[c], waiters[c]) /\ Line[c] = LineOf(active[c], waiters[c])
    BY <1>0, LineIs DEF ScopesSound
  <2>2. Line[c] \in Seq(Admissions) /\ Len(Line[c]) = Len(waiters[c]) + 1 /\ Line[c][1] = r
    BY <1>0, <1>9, <2>1, LineOfFacts
  <2>3. Len(waiters[c]) \in Nat
    BY <2>1 DEF ScopeSound
  <2> QED
    BY <2>2, <2>3
<1>11. Using' = [Using EXCEPT ![c] = {r}]
  <2>1. ASSUME NEW x \in Admissions, CallerOf[x] = c, driver'[x] # "none" PROVE x = r
    <3>1. CASE x # r
      <4>1. driver[x] # "none" /\ CallSound(x)
        BY <1>0, <1>6, <2>1, <3>1 DEF CallsSound
      <4>2. x \in Tickets /\ x \in granted
        BY <4>1 DEF CallSound
      <4> QED
        BY <1>0, <1>9, <2>1, <4>2 DEF TicketsSound
    <3> QED
      BY <3>1
  <2>2. Using' = [d \in GateCallers |-> {x \in Admissions : CallerOf[x] = d /\ driver'[x] # "none"}]
    BY DEF Using
  <2>3. ASSUME NEW d \in GateCallers
        PROVE  Using'[d] = IF d = c THEN {r} ELSE Using[d]
    <3>1. CASE d = c
      <4>1. {x \in Admissions : CallerOf[x] = d /\ driver'[x] # "none"} = {r}
        BY <1>6, <2>1, <3>1
      <4> QED
        BY <2>2, <3>1, <4>1
    <3>2. CASE d # c
      <4>1. \A x \in Admissions : CallerOf[x] = d => driver'[x] = driver[x]
        BY <1>6, <3>2
      <4>2. {x \in Admissions : CallerOf[x] = d /\ driver'[x] # "none"}
            = {x \in Admissions : CallerOf[x] = d /\ driver[x] # "none"}
        BY <4>1
      <4> QED
        BY <2>2, <3>2, <4>2 DEF Using
    <3> QED
      BY <3>1, <3>2
  <2>4. Using = [d \in GateCallers |-> Using[d]] /\ Using' = [d \in GateCallers |-> Using'[d]]
    BY <2>2 DEF Using
  <2> QED
    BY <2>3, <2>4
<1>12. Abstract!Use(c, r)
  BY <1>3, <1>10, <1>11 DEF Abstract!Use
<1> QED
  BY <1>0, <1>3, <1>5, <1>8, <1>12 DEF GateInv, LineStep, Abstract!Next

(* A request gives its permit back. *)
LEMMA PermitStep ==
  ASSUME GateInv, NEW r \in Admissions, GiveUp(r) \/ End(r)
  PROVE  GateInv' /\ LineStep
<1>0. ScopesSound /\ TicketsSound /\ CallsSound /\ CallSound(r)
  BY DEF GateInv, CallsSound
<1>1. /\ call[r] \in {"queued", "ending"} /\ call' = [call EXCEPT ![r] = "over"]
      /\ ReleaseTicket(r, permit \ {r}, pending)
      /\ driver' = driver /\ txAttempt' = txAttempt
  BY DEF GiveUp, End, ReleasePermit
<1>2. r \in permit /\ (driver[r] # "none" => r \in pending /\ r \in granted)
  BY <1>0, <1>1 DEF CallSound
<1>3. (permit \ {r}) \cup pending \in {Tickets, Tickets \ {r}}
  BY <1>2 DEF Tickets
<1>4. /\ ScopesSound' /\ TicketsSound'
      /\ Tickets' = (permit \ {r}) \cup pending
      /\ granted \subseteq granted' /\ granted' \ granted \subseteq Tickets'
      /\ r \in Tickets /\ r \notin Tickets' => Dropped(r, Line, Line')
      /\ ~(r \in Tickets /\ r \notin Tickets') => Line' = Line /\ granted' = granted /\ Tickets' = Tickets
  BY <1>0, <1>1, <1>3, GateRelease
<1>5. permit' = permit \ {r} /\ pending' = pending
  BY <1>1 DEF ReleaseTicket
<1>6. /\ call' \in [Admissions -> Calls] /\ call'[r] = "over"
      /\ \A x \in Admissions \ {r} : call'[x] = call[x]
      /\ driver \in [Admissions -> {"none", "queued", "lent"}]
      /\ txAttempt \in [Admissions -> 0 .. MaxRetries]
  BY <1>0, <1>1 DEF CallsSound, Calls
<1>7. CallSound(r)'
  <2>1. r \in pending => driver[r] # "none"
    BY <1>0 DEF CallSound
  <2> QED
    BY <1>1, <1>2, <1>4, <1>5, <1>6, <2>1 DEF CallSound
<1>8. CallsSound'
  <2>1. permit' \cup {r} = permit \cup {r} /\ pending' \cup {r} = pending \cup {r}
        /\ granted' \ granted \subseteq Tickets' \cup {r}
    BY <1>4, <1>5
  <2> QED
    BY <1>0, <1>1, <1>4, <1>6, <1>7, <2>1, CallsStep
<1>9. LineStep
  <2>1. CASE r \in Tickets /\ r \notin Tickets'
    <3>1. driver'[r] = "none"
      BY <1>1, <1>2, <1>4, <2>1
    <3>2. Using' = [Using EXCEPT ![CallerOf[r]] = @ \ {r}]
      BY <1>1, <3>1, UsingReturned
    <3> QED
      BY <1>4, <2>1, <3>2, LineStepLeave
  <2>2. CASE ~(r \in Tickets /\ r \notin Tickets')
    <3>1. Using' = Using
      BY <1>1 DEF Using
    <3> QED
      BY <1>4, <2>2, <3>1 DEF LineStep
  <2> QED
    BY <2>1, <2>2
<1> QED
  BY <1>4, <1>8, <1>9 DEF GateInv

(* The driver's entry is gone: its reference is given back, and the ticket
   leaves its line if its permit was released before. *)
LEMMA ReferenceStep ==
  ASSUME GateInv, NEW r \in Admissions, DriverFails(r) \/ Dispose(r) \/ Deliver(r)
  PROVE  GateInv' /\ LineStep
<1>0. ScopesSound /\ TicketsSound /\ CallsSound /\ CallSound(r)
  BY DEF GateInv, CallsSound
<1>1. /\ ReleaseTicket(r, permit, pending \ {r}) /\ txAttempt' = txAttempt
      /\ driver[r] # "none"
  BY DEF DriverFails, Dispose, Deliver, ReleasePending
<1>2. /\ call \in [Admissions -> Calls]
      /\ driver \in [Admissions -> {"none", "queued", "lent"}]
      /\ txAttempt \in [Admissions -> 0 .. MaxRetries]
  BY <1>0 DEF CallsSound
<1>3. /\ call[r] \in {"connecting", "ending", "over"}
      /\ call[r] = "connecting" => r \in permit /\ r \in granted
      /\ call[r] = "ending" => r \in permit /\ r \in granted
      /\ call[r] = "over" => r \notin permit
  <2>1. call[r] \in Calls
    BY <1>2
  <2>2. call[r] # "working" \/ ~DriverFails(r)
    BY <1>0 DEF CallSound, DriverFails
  <2>3. call[r] \notin {"new", "queued", "admitted"}
    BY <1>0, <1>1 DEF CallSound
  <2>4. call[r] \in {"connecting", "ending", "over"}
    BY <2>1, <2>2, <2>3 DEF Calls, DriverFails, Dispose, Deliver
  <2> QED
    BY <1>0, <2>4 DEF CallSound
<1>4. permit \cup (pending \ {r}) \in {Tickets, Tickets \ {r}}
  BY DEF Tickets
<1>5. /\ ScopesSound' /\ TicketsSound'
      /\ Tickets' = permit \cup (pending \ {r})
      /\ granted \subseteq granted' /\ granted' \ granted \subseteq Tickets'
      /\ r \in Tickets /\ r \notin Tickets' => Dropped(r, Line, Line')
      /\ ~(r \in Tickets /\ r \notin Tickets') => Line' = Line /\ granted' = granted /\ Tickets' = Tickets
  BY <1>0, <1>1, <1>4, GateRelease
<1>6. permit' = permit /\ pending' = pending \ {r}
  BY <1>1 DEF ReleaseTicket
<1>7. permit' \cup {r} = permit \cup {r} /\ pending' \cup {r} = pending \cup {r}
      /\ granted' \ granted \subseteq Tickets' \cup {r}
  BY <1>5, <1>6
<1>8. CASE Deliver(r)
  <2>1. driver' = driver /\ driver[r] = "lent" /\ call[r] = "connecting"
        /\ call' = [call EXCEPT ![r] = "working"]
    BY <1>8 DEF Deliver
  <2>2. r \in permit /\ r \in granted /\ r \in Tickets' /\ r \in Tickets
    BY <1>3, <1>5, <2>1 DEF Tickets
  <2>3. /\ call' \in [Admissions -> Calls] /\ call'[r] = "working"
        /\ \A x \in Admissions \ {r} : call'[x] = call[x] /\ driver'[x] = driver[x]
    BY <1>2, <2>1 DEF Calls
  <2>4. CallSound(r)'
    BY <1>5, <1>6, <2>1, <2>2, <2>3 DEF CallSound
  <2>5. CallsSound'
    BY <1>0, <1>1, <1>2, <1>5, <1>7, <2>1, <2>3, <2>4, CallsStep
  <2>6. Line' = Line /\ Using' = Using
    BY <1>5, <2>1, <2>2 DEF Using
  <2> QED
    BY <1>5, <2>5, <2>6 DEF GateInv, LineStep
<1>9. CASE DriverFails(r) \/ Dispose(r)
  <2>1. /\ driver' = [driver EXCEPT ![r] = "none"]
        /\ call' = IF call[r] = "connecting" THEN [call EXCEPT ![r] = "ending"] ELSE call
    BY <1>9 DEF DriverFails, Dispose
  <2>2. /\ call' \in [Admissions -> Calls]
        /\ driver' \in [Admissions -> {"none", "queued", "lent"}] /\ driver'[r] = "none"
        /\ \A x \in Admissions \ {r} : call'[x] = call[x] /\ driver'[x] = driver[x]
        /\ \/ call'[r] = "ending" /\ r \in permit /\ r \in granted
           \/ call'[r] = "over" /\ r \notin permit
    BY <1>2, <1>3, <2>1 DEF Calls
  <2>3. CallSound(r)'
    BY <1>5, <1>6, <2>2 DEF CallSound
  <2>4. CallsSound'
    BY <1>0, <1>1, <1>2, <1>5, <1>7, <2>2, <2>3, CallsStep
  <2>5. Using' = [Using EXCEPT ![CallerOf[r]] = @ \ {r}]
    BY <2>2, UsingReturned
  <2>6. LineStep
    <3>1. CASE r \in Tickets /\ r \notin Tickets'
      BY <1>5, <2>5, <3>1, LineStepLeave
    <3>2. CASE ~(r \in Tickets /\ r \notin Tickets')
      BY <1>1, <1>5, <2>5, <3>2, LineStepReturn
    <3> QED
      BY <3>1, <3>2
  <2> QED
    BY <1>5, <2>4, <2>6 DEF GateInv
<1> QED
  BY <1>8, <1>9

LEMMA GateInitSound == GateInit => GateInv /\ Abstract!Init
<1> SUFFICES ASSUME GateInit PROVE GateInv /\ Abstract!Init
  OBVIOUS
<1>1. NoTicket \notin Admissions /\ QUEUE_LIMIT \in Nat /\ TICKET_LIMIT \in Nat /\ MaxRetries \in Nat
      /\ CallerOf \in [Admissions -> GateCallers]
  BY GateAssumption
<1>2. Tickets = {} /\ granted = {} /\ retainedTickets = 0
  BY DEF GateInit, Tickets
<1>3. ScopesSound
  BY <1>1 DEF GateInit, ScopesSound, ScopeSound
<1>4. TicketsSound
  <2>1. \A r \in Admissions : ~InLine(active[CallerOf[r]], waiters[CallerOf[r]], r)
    BY <1>1 DEF GateInit, InLine
  <2> QED
    BY <1>1, <1>2, <2>1, FS_EmptySet DEF TicketsSound
<1>5. CallsSound
  <2>1. \A r \in Admissions : CallSound(r)
    BY <1>2 DEF GateInit, CallSound
  <2> QED
    BY <1>1, <2>1 DEF GateInit, CallsSound, Calls
<1>6. Abstract!Init
  <2>1. Line = [c \in GateCallers |-> <<>>]
    BY LineIs DEF GateInit, LineOf
  <2>2. Using = [c \in GateCallers |-> {}]
    BY DEF GateInit, Using
  <2> QED
    BY <2>1, <2>2 DEF Abstract!Init
<1> QED
  BY <1>3, <1>4, <1>5, <1>6 DEF GateInv

LEMMA GateStep == GateInv /\ [GateNext]_gateVars => GateInv' /\ LineStep
<1> SUFFICES ASSUME GateInv, [GateNext]_gateVars PROVE GateInv' /\ LineStep
  OBVIOUS
<1>1. CASE GateNext
  BY <1>1, AcquireStep, QuietSteps, ConnectStep, PermitStep, ReferenceStep DEF GateNext
<1>2. CASE UNCHANGED gateVars
  <2>1. UNCHANGED <<call, permit, pending, granted, active, waiters, retainedTickets, driver, txAttempt>>
    BY <1>2 DEF gateVars, scopes
  <2>2. GateInv'
    BY <2>1 DEF GateInv, ScopesSound, TicketsSound, Tickets, CallsSound, CallSound
  <2>3. Line' = Line /\ Using' = Using
    BY <2>1 DEF Line, Using
  <2> QED
    BY <2>2, <2>3 DEF LineStep
<1> QED
  BY <1>1, <1>2

(* What the invariant says of the counted tickets. *)
LEMMA GateInvImplies == GateInv => GateTypeOK /\ TicketsAreCounted
<1> SUFFICES ASSUME GateInv PROVE GateTypeOK /\ TicketsAreCounted
  OBVIOUS
<1>1. /\ CallerOf \in [Admissions -> GateCallers] /\ NoTicket \notin Admissions /\ TICKET_LIMIT \in Nat
  BY GateAssumption
<1>2. ScopesSound /\ TicketsSound /\ CallsSound
  BY DEF GateInv
<1>3. \A c \in GateCallers : IsInjective(waiters[c]) /\ ToSet(waiters[c]) \subseteq Admissions
  <2> TAKE c \in GateCallers
  <2>1. ScopeSound(c, active[c], waiters[c])
    BY <1>2 DEF ScopesSound
  <2>2. waiters[c] \in Seq(Admissions)
    BY <2>1 DEF ScopeSound
  <2>3. IsInjective(waiters[c])
    BY <2>1 DEF ScopeSound, IsInjective
  <2>4. ToSet(waiters[c]) \subseteq Admissions
    BY <2>2 DEF ToSet
  <2> QED
    BY <2>3, <2>4
<1>4. retainedTickets \in 0 .. TICKET_LIMIT
  <2>1. retainedTickets \in Nat /\ retainedTickets <= TICKET_LIMIT
    BY <1>2, FS_CardinalityType DEF TicketsSound
  <2> QED
    BY <1>1, <2>1
<1>5. permit \subseteq Admissions /\ pending \subseteq Admissions /\ granted \subseteq Admissions
  BY <1>2 DEF TicketsSound, Tickets
<1>6. GateTypeOK
  BY <1>2, <1>3, <1>4, <1>5 DEF GateTypeOK, ScopesSound, CallsSound
<1>7. UNION {ToSet(Line[c]) : c \in GateCallers} = Tickets
  <2>1. ASSUME NEW c \in GateCallers
        PROVE  /\ Line[c] \in Seq(Admissions)
               /\ ToSet(Line[c]) = {x \in Admissions : InLine(active[c], waiters[c], x)}
    <3>1. ScopeSound(c, active[c], waiters[c]) /\ Line[c] = LineOf(active[c], waiters[c])
      BY <1>2, LineIs DEF ScopesSound
    <3>2. Line[c] \in Seq(Admissions)
      BY <3>1, LineOfFacts
    <3>3. ToSet(Line[c]) \subseteq Admissions
      BY <3>2 DEF ToSet
    <3>4. \A x \in Admissions : InLine(active[c], waiters[c], x) <=> x \in ToSet(Line[c])
      BY <3>1, LineHolds DEF ToSet
    <3> QED
      BY <3>2, <3>3, <3>4
  <2>2. ASSUME NEW c \in GateCallers, NEW x \in Admissions, InLine(active[c], waiters[c], x)
        PROVE  CallerOf[x] = c
    BY <1>1, <1>2, <2>2 DEF ScopesSound, ScopeSound, InLine
  <2>3. \A x \in Admissions : x \in Tickets <=> InLine(active[CallerOf[x]], waiters[CallerOf[x]], x)
    BY <1>2 DEF TicketsSound
  <2>4. Tickets \subseteq Admissions
    BY <1>2 DEF TicketsSound
  <2>5. \A x \in Tickets : \E c \in GateCallers : x \in ToSet(Line[c])
    BY <1>1, <2>1, <2>3, <2>4
  <2>6. \A c \in GateCallers : ToSet(Line[c]) \subseteq Tickets
    BY <2>1, <2>2, <2>3
  <2> QED
    BY <2>5, <2>6
<1>8. TicketsAreCounted
  BY <1>2, <1>7 DEF TicketsAreCounted, TicketsSound, Tickets
<1> QED
  BY <1>6, <1>8

(* The caller gate of the MySQL store (mysqlCallerGate.ts), with the waits
   and the driver's connections, is the line CallerLine describes, for any
   callers, requests and limits: the requests of a caller keep their order,
   only the first of the line has an entry in the driver or a connection of
   it, and one that timed out keeps its place until its late connection was
   disposed of.  And the process-wide count of tickets, which refuses with
   503, is the number of tickets somebody refers to. *)
THEOREM GateIsALineHolds == GateSpec => GateIsALine
<1>1. GateInit => GateInv /\ Abstract!Init
  BY GateInitSound
<1>2. GateInv /\ [GateNext]_gateVars => GateInv'
  BY GateStep
<1>3. GateInv /\ [GateNext]_gateVars => [Abstract!Next]_(Abstract!vars)
  BY GateStep DEF LineStep, Abstract!vars
<1>4. GateInv => GateTypeOK /\ TicketsAreCounted
  BY GateInvImplies
<1> QED
  BY <1>1, <1>2, <1>3, <1>4, PTL DEF GateSpec, GateIsALine, ImplementsLine, Abstract!Spec

---------------------------------------------------------------------------
HIDE AbsentAssumption

(***************************************************************************)
(* The import of a pool into MySQL.                                        *)
(***************************************************************************)

ImportPlaces == {"start", "lock", "inspect", "schema", "begin", "again", "copy", "commit", "rollback", "release", "over"}

TargetOk(x) == x # NoSettings => x \in TargetRow

(* A row of the target is an imported backup or a member that a Proxy added. *)
Origins ==
  [by: Imports, rows: BackupRecord, damaged: BOOLEAN] \cup [by: {"proxy"}, rows: {"member"}, damaged: {FALSE}]

(* The types of the import, of what it works on and of the tools beside it. *)
ImportTypes ==
  /\ backup \in [Imports -> BackupRecord]
  /\ import \in [Imports -> [at: ImportPlaces, copied: Nat, damaged: BOOLEAN]]
  /\ report \in [Imports -> {"none", "failed", "done", "unknown", "unconfirmed"}]
  /\ TargetOk(target) /\ history \in Seq(Origins)
  /\ rowLocks \in Imports \cup {"tool", NoHolder}

(* A run in its transaction holds the settings row, and what it inspected there is still so when it *)
(* commits: a target with a settings row and no other.                                              *)
TransactionHolds ==
  \A t \in Imports :
    /\ import[t].at \in {"again", "copy", "commit", "rollback"} => rowLocks = t
    /\ import[t].at \in {"copy", "commit"} => history = << >> /\ target # NoSettings
    /\ import[t].at = "commit" => ~import[t].damaged

(* The tool that changes the options holds the same row, so the target has settings while it commits. *)
ToolHolds == tool \in {"checking", "committing", "rolling back"} => rowLocks = "tool" /\ target # NoSettings

(* What a run past its validation was given. *)
ValidatedIsSettled == \A t \in Imports : import[t].at \notin {"start", "release", "over"} => MembersSettled(backup[t])

(* A report is given at the end, and it says whether the run's rows are in the target. *)
ReportIsTrue ==
  \A t \in Imports :
    /\ report[t] # "none" => import[t].at \in {"release", "over"}
    /\ ImportedRows(t) => import[t].at \in {"release", "over"} /\ report[t] \in {"done", "unknown"}
    /\ report[t] = "done" => ImportedRows(t)

(* The rows of an import stay alone in a paused target. *)
ImportedIsAlone ==
  \A i \in DOMAIN history : history[i].by # "proxy" =>
    /\ Len(history) = 1 /\ ~history[i].damaged /\ MembersSettled(history[i].rows)
    /\ target # NoSettings /\ target.paused

(* A Proxy that was started created the settings row, if nobody had. *)
ProxyHasSettings == early # "down" => target # NoSettings

LegacyIsSound ==
  /\ legacy \in [at: {"start", "changed", "written", "approved", "refused"}, source: {1, 2}, read: {0, 1, 2},
                 output: {"absent", "whole", "part", "foreign"}]
  /\ ApprovedCopyIsWhole

ImportInv ==
  /\ ImportTypes /\ TransactionHolds /\ ToolHolds /\ ValidatedIsSettled /\ ReportIsTrue
  /\ ImportedIsAlone /\ ProxyHasSettings /\ LegacyIsSound


(* A run goes on, and nothing else of the runs changes. *)
Goes(t, at) ==
  /\ import' \in [Imports -> [at: ImportPlaces, copied: Nat, damaged: BOOLEAN]]
  /\ import'[t].at = at /\ import'[t].copied = import[t].copied /\ import'[t].damaged = import[t].damaged
  /\ \A q \in Imports \ {t} : import'[q] = import[q]

(* A run tells the operator something, and no other run does. *)
Tells(t, word) ==
  /\ report' \in [Imports -> {"none", "failed", "done", "unknown", "unconfirmed"}]
  /\ report'[t] = word /\ \A q \in Imports \ {t} : report'[q] = report[q]

LEMMA ImportMoved ==
  ASSUME ImportTypes, NEW t \in Imports, NEW at \in ImportPlaces, GotoImport(t, at)
  PROVE  Goes(t, at)
BY DEF ImportTypes, GotoImport, Goes

LEMMA ReportGiven ==
  ASSUME ImportTypes, NEW t \in Imports, NEW word \in {"failed", "done", "unknown", "unconfirmed"},
         report' = [report EXCEPT ![t] = word]
  PROVE  Tells(t, word)
BY DEF ImportTypes, Tells

LEMMA RunRefused ==
  ASSUME ImportTypes, NEW t \in Imports, Refuse(t)
  PROVE  Goes(t, "release") /\ Tells(t, "failed")
BY ImportMoved, ReportGiven DEF Refuse, ImportPlaces

(* Giving the members to the default enterprise changes nothing of the members. *)
LEMMA GivenEnterprises ==
  ASSUME NEW b \in BackupRecord
  PROVE  WithEnterprises(b) \in BackupRecord /\ (MembersSettled(b) => MembersSettled(WithEnterprises(b)))
<1> DEFINE w == WithEnterprises(b)
<1>1. w \in BackupRecord
  <2>2. [b EXCEPT !.shape = "multi"] \in BackupRecord
    BY DEF BackupRecord
  <2>3. \A c \in BackupRecord : [c EXCEPT !.enterprises = {"default"}] \in BackupRecord
    BY DEF BackupRecord
  <2>4. \A c \in BackupRecord : [c EXCEPT !.counter = 1] \in BackupRecord
    BY DEF BackupRecord
  <2>5. w = [[[b EXCEPT !.shape = "multi"] EXCEPT !.enterprises = {"default"}] EXCEPT !.counter = 1]
    BY DEF WithEnterprises
  <2> QED
    BY <2>2, <2>3, <2>4, <2>5
<1>2. w.state = b.state /\ w.stage = b.stage /\ w.oauth = b.oauth
  BY DEF BackupRecord, WithEnterprises
<1>3. w.uncertain = b.uncertain /\ w.evidence = b.evidence
  BY DEF BackupRecord, WithEnterprises
<1> QED
  BY <1>1, <1>2, <1>3 DEF MembersSettled, Proven

LEMMA SeedIsARow == Seed \in TargetRow
BY DEF Seed, TargetRow

(* The steps of a run, one by one: where it goes and what it tells (<1>1), and each part of the *)
(* invariant after it.                                                                         *)
LEMMA ImportStartKeeps ==
  ASSUME ImportInv, NEW t \in Imports, ImportStart(t)
  PROVE  ImportInv'
<1> USE DEF ImportInv
<1>0. backup' \in [Imports -> BackupRecord] /\ \A q \in Imports \ {t} : backup'[q] = backup[q]
  <2>1. backup[t] \in BackupRecord /\ WithEnterprises(backup[t]) \in BackupRecord
    BY GivenEnterprises DEF ImportTypes
  <2> QED
    BY <2>1 DEF ImportStart, ImportTypes
<1>1. /\ \/ Goes(t, "lock") /\ UNCHANGED report /\ MembersSettled(backup'[t])
         \/ Goes(t, "release") /\ Tells(t, "failed")
      /\ import[t].at = "start"
      /\ UNCHANGED <<target, history, rowLocks, early, tool, legacy>>
  <2>1. CASE ReadSnapshot(backup[t]) /\ SourceIdentity(backup[t])
    BY <2>1, GivenEnterprises, ImportMoved DEF ImportStart, ImportTypes, ImportPlaces, ReadSnapshot
  <2>2. CASE ~(ReadSnapshot(backup[t]) /\ SourceIdentity(backup[t]))
    BY <2>2, RunRefused DEF ImportStart
  <2> QED
    BY <2>1, <2>2
<1>2. ImportTypes'
  BY <1>0, <1>1, PoolImportAssumption DEF ImportTypes, TargetOk, Goes, Tells
<1>3. TransactionHolds'
  BY <1>0, <1>1, PoolImportAssumption DEF TransactionHolds, ImportTypes, Goes, Tells
<1>4. ToolHolds'
  BY <1>0, <1>1, PoolImportAssumption DEF ToolHolds, ImportTypes, Goes, Tells
<1>5. ValidatedIsSettled'
  BY <1>0, <1>1, PoolImportAssumption DEF ValidatedIsSettled, ImportTypes, Goes, Tells
<1>r. \A q \in Imports : ImportedRows(q)' <=> ImportedRows(q)
  BY <1>1 DEF ImportedRows
<1>6. ReportIsTrue'
  BY <1>0, <1>1, <1>r DEF ReportIsTrue, ImportTypes, Goes, Tells
<1>7. ImportedIsAlone' /\ ProxyHasSettings' /\ LegacyIsSound'
  BY <1>1, PoolImportAssumption DEF ImportedIsAlone, ProxyHasSettings, LegacyIsSound, ApprovedCopyIsWhole, ImportTypes
<1> QED
  BY <1>2, <1>3, <1>4, <1>5, <1>6, <1>7

LEMMA ImportLockKeeps ==
  ASSUME ImportInv, NEW t \in Imports, ImportLock(t)
  PROVE  ImportInv'
<1> USE DEF ImportInv
<1>1. /\ (Goes(t, "inspect") /\ UNCHANGED report) \/ (Goes(t, "release") /\ Tells(t, "failed"))
      /\ import[t].at = "lock"
      /\ UNCHANGED <<backup, target, history, rowLocks, early, tool, legacy>>
  BY ImportMoved, RunRefused DEF ImportLock, ImportPlaces
<1>2. ImportTypes'
  BY <1>1, PoolImportAssumption DEF ImportTypes, TargetOk, Goes, Tells
<1>3. TransactionHolds'
  BY <1>1, PoolImportAssumption DEF TransactionHolds, ImportTypes, Goes, Tells
<1>4. ToolHolds'
  BY <1>1, PoolImportAssumption DEF ToolHolds, ImportTypes, Goes, Tells
<1>5. ValidatedIsSettled'
  BY <1>1, PoolImportAssumption DEF ValidatedIsSettled, ImportTypes, Goes, Tells
<1>r. \A q \in Imports : ImportedRows(q)' <=> ImportedRows(q)
  BY <1>1 DEF ImportedRows
<1>6. ReportIsTrue'
  BY <1>1, <1>r DEF ReportIsTrue, ImportTypes, Goes, Tells
<1>7. ImportedIsAlone' /\ ProxyHasSettings' /\ LegacyIsSound'
  BY <1>1, PoolImportAssumption DEF ImportedIsAlone, ProxyHasSettings, LegacyIsSound, ApprovedCopyIsWhole, ImportTypes
<1> QED
  BY <1>2, <1>3, <1>4, <1>5, <1>6, <1>7

LEMMA ImportInspectKeeps ==
  ASSUME ImportInv, NEW t \in Imports, ImportInspect(t)
  PROVE  ImportInv'
<1> USE DEF ImportInv
<1>1. /\ (Goes(t, "schema") /\ UNCHANGED report) \/ (Goes(t, "release") /\ Tells(t, "failed"))
      /\ import[t].at = "inspect"
      /\ UNCHANGED <<backup, target, history, rowLocks, early, tool, legacy>>
  BY ImportMoved, RunRefused DEF ImportInspect, ImportPlaces
<1>2. ImportTypes'
  BY <1>1, PoolImportAssumption DEF ImportTypes, TargetOk, Goes, Tells
<1>3. TransactionHolds'
  BY <1>1, PoolImportAssumption DEF TransactionHolds, ImportTypes, Goes, Tells
<1>4. ToolHolds'
  BY <1>1, PoolImportAssumption DEF ToolHolds, ImportTypes, Goes, Tells
<1>5. ValidatedIsSettled'
  BY <1>1, PoolImportAssumption DEF ValidatedIsSettled, ImportTypes, Goes, Tells
<1>r. \A q \in Imports : ImportedRows(q)' <=> ImportedRows(q)
  BY <1>1 DEF ImportedRows
<1>6. ReportIsTrue'
  BY <1>1, <1>r DEF ReportIsTrue, ImportTypes, Goes, Tells
<1>7. ImportedIsAlone' /\ ProxyHasSettings' /\ LegacyIsSound'
  BY <1>1, PoolImportAssumption DEF ImportedIsAlone, ProxyHasSettings, LegacyIsSound, ApprovedCopyIsWhole, ImportTypes
<1> QED
  BY <1>2, <1>3, <1>4, <1>5, <1>6, <1>7

LEMMA ImportSchemaKeeps ==
  ASSUME ImportInv, NEW t \in Imports, ImportSchema(t)
  PROVE  ImportInv'
<1> USE DEF ImportInv
<1>1. /\ \/ Goes(t, "begin") /\ UNCHANGED report /\ target' = (IF target = NoSettings THEN Seed ELSE target)
         \/ Goes(t, "release") /\ Tells(t, "failed") /\ UNCHANGED target
      /\ import[t].at = "schema" /\ rowLocks = NoHolder
      /\ UNCHANGED <<backup, history, rowLocks, early, tool, legacy>>
  BY ImportMoved, RunRefused DEF ImportSchema, ImportPlaces
<1>2. ImportTypes'
  BY <1>1, SeedIsARow, PoolImportAssumption DEF ImportTypes, TargetOk, Goes, Tells
<1>3. TransactionHolds'
  BY <1>1, SeedIsARow, PoolImportAssumption DEF TransactionHolds, ImportTypes, Goes, Tells
<1>4. ToolHolds'
  BY <1>1, SeedIsARow, PoolImportAssumption DEF ToolHolds, ImportTypes, Goes, Tells
<1>5. ValidatedIsSettled'
  BY <1>1, SeedIsARow, PoolImportAssumption DEF ValidatedIsSettled, ImportTypes, Goes, Tells
<1>r. \A q \in Imports : ImportedRows(q)' <=> ImportedRows(q)
  BY <1>1 DEF ImportedRows
<1>6. ReportIsTrue'
  BY <1>1, <1>r DEF ReportIsTrue, ImportTypes, Goes, Tells
<1>7. ImportedIsAlone' /\ ProxyHasSettings' /\ LegacyIsSound'
  BY <1>1, SeedIsARow, PoolImportAssumption DEF ImportedIsAlone, ProxyHasSettings, LegacyIsSound, ApprovedCopyIsWhole, ImportTypes, TargetOk, TargetRow
<1> QED
  BY <1>2, <1>3, <1>4, <1>5, <1>6, <1>7

LEMMA ImportBeginKeeps ==
  ASSUME ImportInv, NEW t \in Imports, ImportBegin(t)
  PROVE  ImportInv'
<1> USE DEF ImportInv
<1>1. /\ Goes(t, "again")
      /\ import[t].at = "begin" /\ rowLocks = NoHolder /\ rowLocks' = t
      /\ UNCHANGED <<backup, report, target, history, early, tool, legacy>>
  BY ImportMoved DEF ImportBegin, ImportPlaces
<1>2. ImportTypes'
  BY <1>1, PoolImportAssumption DEF ImportTypes, TargetOk, Goes, Tells
<1>3. TransactionHolds'
  BY <1>1, PoolImportAssumption DEF TransactionHolds, ImportTypes, Goes, Tells
<1>4. ToolHolds'
  BY <1>1, PoolImportAssumption DEF ToolHolds, ImportTypes, Goes, Tells
<1>5. ValidatedIsSettled'
  BY <1>1, PoolImportAssumption DEF ValidatedIsSettled, ImportTypes, Goes, Tells
<1>r. \A q \in Imports : ImportedRows(q)' <=> ImportedRows(q)
  BY <1>1 DEF ImportedRows
<1>6. ReportIsTrue'
  BY <1>1, <1>r DEF ReportIsTrue, ImportTypes, Goes, Tells
<1>7. ImportedIsAlone' /\ ProxyHasSettings' /\ LegacyIsSound'
  BY <1>1, PoolImportAssumption DEF ImportedIsAlone, ProxyHasSettings, LegacyIsSound, ApprovedCopyIsWhole, ImportTypes
<1> QED
  BY <1>2, <1>3, <1>4, <1>5, <1>6, <1>7

LEMMA ImportAgainKeeps ==
  ASSUME ImportInv, NEW t \in Imports, ImportAgain(t)
  PROVE  ImportInv'
<1> USE DEF ImportInv
<1>1. /\ (Goes(t, "copy") /\ history = << >> /\ target # NoSettings) \/ Goes(t, "rollback")
      /\ import[t].at = "again"
      /\ UNCHANGED <<backup, report, target, history, rowLocks, early, tool, legacy>>
  BY ImportMoved DEF ImportAgain, ImportPlaces, InspectAgain, TargetUnused
<1>2. ImportTypes'
  BY <1>1, PoolImportAssumption DEF ImportTypes, TargetOk, Goes, Tells
<1>3. TransactionHolds'
  BY <1>1, PoolImportAssumption DEF TransactionHolds, ImportTypes, Goes, Tells
<1>4. ToolHolds'
  BY <1>1, PoolImportAssumption DEF ToolHolds, ImportTypes, Goes, Tells
<1>5. ValidatedIsSettled'
  BY <1>1, PoolImportAssumption DEF ValidatedIsSettled, ImportTypes, Goes, Tells
<1>r. \A q \in Imports : ImportedRows(q)' <=> ImportedRows(q)
  BY <1>1 DEF ImportedRows
<1>6. ReportIsTrue'
  BY <1>1, <1>r DEF ReportIsTrue, ImportTypes, Goes, Tells
<1>7. ImportedIsAlone' /\ ProxyHasSettings' /\ LegacyIsSound'
  BY <1>1, PoolImportAssumption DEF ImportedIsAlone, ProxyHasSettings, LegacyIsSound, ApprovedCopyIsWhole, ImportTypes
<1> QED
  BY <1>2, <1>3, <1>4, <1>5, <1>6, <1>7

LEMMA ImportVerifyKeeps ==
  ASSUME ImportInv, NEW t \in Imports, ImportVerify(t)
  PROVE  ImportInv'
<1> USE DEF ImportInv
<1>1. /\ (Goes(t, "commit") /\ ~import[t].damaged) \/ Goes(t, "rollback")
      /\ import[t].at = "copy"
      /\ UNCHANGED <<backup, report, target, history, rowLocks, early, tool, legacy>>
  BY ImportMoved DEF ImportVerify, ImportPlaces
<1>2. ImportTypes'
  BY <1>1, PoolImportAssumption DEF ImportTypes, TargetOk, Goes, Tells
<1>3. TransactionHolds'
  BY <1>1, PoolImportAssumption DEF TransactionHolds, ImportTypes, Goes, Tells
<1>4. ToolHolds'
  BY <1>1, PoolImportAssumption DEF ToolHolds, ImportTypes, Goes, Tells
<1>5. ValidatedIsSettled'
  BY <1>1, PoolImportAssumption DEF ValidatedIsSettled, ImportTypes, Goes, Tells
<1>r. \A q \in Imports : ImportedRows(q)' <=> ImportedRows(q)
  BY <1>1 DEF ImportedRows
<1>6. ReportIsTrue'
  BY <1>1, <1>r DEF ReportIsTrue, ImportTypes, Goes, Tells
<1>7. ImportedIsAlone' /\ ProxyHasSettings' /\ LegacyIsSound'
  BY <1>1, PoolImportAssumption DEF ImportedIsAlone, ProxyHasSettings, LegacyIsSound, ApprovedCopyIsWhole, ImportTypes
<1> QED
  BY <1>2, <1>3, <1>4, <1>5, <1>6, <1>7

LEMMA ImportRollbackKeeps ==
  ASSUME ImportInv, NEW t \in Imports, ImportRollback(t)
  PROVE  ImportInv'
<1> USE DEF ImportInv
<1>1. /\ (Goes(t, "release") /\ Tells(t, "failed")) \/ (Goes(t, "over") /\ Tells(t, "unconfirmed"))
      /\ import[t].at = "rollback" /\ rowLocks' = NoHolder
      /\ UNCHANGED <<backup, target, history, early, tool, legacy>>
  BY ImportMoved, RunRefused, ReportGiven DEF ImportRollback, ImportPlaces
<1>2. ImportTypes'
  BY <1>1, PoolImportAssumption DEF ImportTypes, TargetOk, Goes, Tells
<1>3. TransactionHolds'
  BY <1>1, PoolImportAssumption DEF TransactionHolds, ImportTypes, Goes, Tells
<1>4. ToolHolds'
  BY <1>1, PoolImportAssumption DEF ToolHolds, TransactionHolds, ImportTypes, Goes, Tells
<1>5. ValidatedIsSettled'
  BY <1>1, PoolImportAssumption DEF ValidatedIsSettled, ImportTypes, Goes, Tells
<1>r. \A q \in Imports : ImportedRows(q)' <=> ImportedRows(q)
  BY <1>1 DEF ImportedRows
<1>6. ReportIsTrue'
  BY <1>1, <1>r DEF ReportIsTrue, ImportTypes, Goes, Tells
<1>7. ImportedIsAlone' /\ ProxyHasSettings' /\ LegacyIsSound'
  BY <1>1, PoolImportAssumption DEF ImportedIsAlone, ProxyHasSettings, LegacyIsSound, ApprovedCopyIsWhole, ImportTypes
<1> QED
  BY <1>2, <1>3, <1>4, <1>5, <1>6, <1>7

LEMMA ImportReleaseKeeps ==
  ASSUME ImportInv, NEW t \in Imports, ImportRelease(t)
  PROVE  ImportInv'
<1> USE DEF ImportInv
<1>1. /\ Goes(t, "over")
      /\ import[t].at = "release"
      /\ UNCHANGED <<backup, report, target, history, rowLocks, early, tool, legacy>>
  BY ImportMoved DEF ImportRelease, ImportPlaces
<1>2. ImportTypes'
  BY <1>1, PoolImportAssumption DEF ImportTypes, TargetOk, Goes, Tells
<1>3. TransactionHolds'
  BY <1>1, PoolImportAssumption DEF TransactionHolds, ImportTypes, Goes, Tells
<1>4. ToolHolds'
  BY <1>1, PoolImportAssumption DEF ToolHolds, ImportTypes, Goes, Tells
<1>5. ValidatedIsSettled'
  BY <1>1, PoolImportAssumption DEF ValidatedIsSettled, ImportTypes, Goes, Tells
<1>r. \A q \in Imports : ImportedRows(q)' <=> ImportedRows(q)
  BY <1>1 DEF ImportedRows
<1>6. ReportIsTrue'
  BY <1>1, <1>r DEF ReportIsTrue, ImportTypes, Goes, Tells
<1>7. ImportedIsAlone' /\ ProxyHasSettings' /\ LegacyIsSound'
  BY <1>1, PoolImportAssumption DEF ImportedIsAlone, ProxyHasSettings, LegacyIsSound, ApprovedCopyIsWhole, ImportTypes
<1> QED
  BY <1>2, <1>3, <1>4, <1>5, <1>6, <1>7

LEMMA ImportDiesKeeps ==
  ASSUME ImportInv, NEW t \in Imports, ImportDies(t)
  PROVE  ImportInv'
<1> USE DEF ImportInv
<1>1. /\ Goes(t, "over")
      /\ import[t].at \notin {"start", "over"} /\ rowLocks' = (IF rowLocks = t THEN NoHolder ELSE rowLocks)
      /\ UNCHANGED <<backup, report, target, history, early, tool, legacy>>
  BY ImportMoved DEF ImportDies, ImportPlaces
<1>2. ImportTypes'
  BY <1>1, PoolImportAssumption DEF ImportTypes, TargetOk, Goes, Tells
<1>3. TransactionHolds'
  BY <1>1, PoolImportAssumption DEF TransactionHolds, ImportTypes, Goes, Tells
<1>4. ToolHolds'
  BY <1>1, PoolImportAssumption DEF ToolHolds, ImportTypes, Goes, Tells
<1>5. ValidatedIsSettled'
  BY <1>1, PoolImportAssumption DEF ValidatedIsSettled, ImportTypes, Goes, Tells
<1>r. \A q \in Imports : ImportedRows(q)' <=> ImportedRows(q)
  BY <1>1 DEF ImportedRows
<1>6. ReportIsTrue'
  BY <1>1, <1>r DEF ReportIsTrue, ImportTypes, Goes, Tells
<1>7. ImportedIsAlone' /\ ProxyHasSettings' /\ LegacyIsSound'
  BY <1>1, PoolImportAssumption DEF ImportedIsAlone, ProxyHasSettings, LegacyIsSound, ApprovedCopyIsWhole, ImportTypes
<1> QED
  BY <1>2, <1>3, <1>4, <1>5, <1>6, <1>7

LEMMA ImportCopyKeeps ==
  ASSUME ImportInv, NEW t \in Imports, ImportCopy(t)
  PROVE  ImportInv'
<1> USE DEF ImportInv
<1>1. /\ import' \in [Imports -> [at: ImportPlaces, copied: Nat, damaged: BOOLEAN]]
      /\ import[t].at = "copy" /\ import'[t].at \in {"copy", "rollback"}
      /\ \A q \in Imports \ {t} : import'[q] = import[q]
  <2>1. CASE GotoImport(t, "rollback")
    BY <2>1, ImportMoved DEF ImportCopy, ImportPlaces, Goes
  <2>2. CASE ~GotoImport(t, "rollback")
    <3>1. PICK damaged \in BOOLEAN :
            import' = [import EXCEPT ![t].copied = @ + 1, ![t].damaged = @ \/ damaged]
      BY <2>2 DEF ImportCopy
    <3> DEFINE after == import[t].damaged \/ damaged
    <3>2. after \in BOOLEAN
      OBVIOUS
    <3>3. import' = [import EXCEPT ![t].copied = import[t].copied + 1, ![t].damaged = after]
      BY <3>1
    <3>4. import[t].at = "copy"
      BY DEF ImportCopy
    <3> HIDE DEF after
    <3> QED
      <4>1. import[t] \in [at: ImportPlaces, copied: Nat, damaged: BOOLEAN] /\ import[t].copied + 1 \in Nat
        BY DEF ImportTypes
      <4> DEFINE next == [import[t] EXCEPT !.copied = import[t].copied + 1, !.damaged = after]
      <4>2. next \in [at: ImportPlaces, copied: Nat, damaged: BOOLEAN] /\ next.at = "copy"
        BY <3>2, <3>4, <4>1
      <4>3. import' = [import EXCEPT ![t] = next]
        BY <3>3 DEF ImportTypes
      <4> HIDE DEF next
      <4> QED
        BY <3>4, <4>2, <4>3 DEF ImportTypes
  <2> QED
    BY <2>1, <2>2
<1>u. UNCHANGED <<backup, report, target, history, rowLocks, early, tool, legacy>>
  BY DEF ImportCopy
<1>2. ImportTypes'
  BY <1>1, <1>u DEF ImportTypes, TargetOk
<1>3. TransactionHolds'
  BY <1>1, <1>u DEF TransactionHolds, ImportTypes
<1>4. ToolHolds' /\ ValidatedIsSettled'
  BY <1>1, <1>u DEF ToolHolds, ValidatedIsSettled, ImportTypes
<1>r. \A q \in Imports : ImportedRows(q)' <=> ImportedRows(q)
  BY <1>u DEF ImportedRows
<1>6. ReportIsTrue'
  BY <1>1, <1>r, <1>u DEF ReportIsTrue, ImportTypes
<1>7. ImportedIsAlone' /\ ProxyHasSettings' /\ LegacyIsSound'
  BY <1>u DEF ImportedIsAlone, ProxyHasSettings, LegacyIsSound, ApprovedCopyIsWhole
<1> QED
  BY <1>2, <1>3, <1>4, <1>6, <1>7

(* The commit is where the rows appear: the first of the target, undamaged, under paused settings. *)
LEMMA ImportCommitKeeps ==
  ASSUME ImportInv, NEW t \in Imports, ImportCommit(t)
  PROVE  ImportInv'
<1> USE DEF ImportInv
<1>1. PICK committed \in BOOLEAN, answered \in BOOLEAN :
        /\ answered => committed
        /\ IF committed THEN Commits(t) ELSE UNCHANGED <<target, history>>
        /\ report' = [report EXCEPT ![t] = CommitReport(answered)]
        /\ import' = [import EXCEPT ![t].at = IF answered THEN "release" ELSE "over"]
  BY DEF ImportCommit
<1>2. /\ Goes(t, IF answered THEN "release" ELSE "over")
      /\ Tells(t, IF answered THEN "done" ELSE "unknown")
  BY <1>1, ImportMoved, ReportGiven DEF GotoImport, ImportPlaces, CommitReport
<1>3. import[t].at = "commit" /\ rowLocks = t /\ rowLocks' = NoHolder /\ UNCHANGED <<backup, early, tool, legacy>>
  BY DEF ImportCommit, TransactionHolds
<1>4. history = << >> /\ target \in TargetRow /\ target # NoSettings /\ ~import[t].damaged /\ MembersSettled(backup[t])
  BY <1>3 DEF TransactionHolds, ValidatedIsSettled, ImportTypes, TargetOk
<1>5. ASSUME committed
      PROVE  /\ target' \in TargetRow /\ target'.paused /\ target' # NoSettings
             /\ history' = <<[by |-> t, rows |-> backup[t], damaged |-> FALSE]>> /\ history' \in Seq(Origins)
  <2>1. target' \in TargetRow /\ target'.paused
    <3>1. target' = [version |-> 2, paused |-> TRUE, owner |-> FALSE, print |-> target.print]
      BY <1>1, <1>5 DEF Commits, ImportedSettings
    <3>2. target.print \in {"old", "new"}
      BY <1>4 DEF TargetRow
    <3> QED
      BY <3>1, <3>2 DEF TargetRow
  <2>2. [by |-> t, rows |-> backup[t], damaged |-> FALSE] \in Origins
    BY DEF Origins, ImportTypes
  <2>3. import[t].damaged = FALSE
    BY <1>4 DEF ImportTypes
  <2> QED
    <3>1. history' = Append(<< >>, [by |-> t, rows |-> backup[t], damaged |-> FALSE])
      BY <1>1, <1>4, <1>5, <2>3 DEF Commits
    <3>2. history' = <<[by |-> t, rows |-> backup[t], damaged |-> FALSE]>>
      BY <3>1
    <3> QED
      BY <2>1, <2>2, <3>2, PoolImportAssumption
<1>6. ASSUME ~committed
      PROVE  ~answered /\ UNCHANGED <<target, history>>
  BY <1>1, <1>6
<1>7. t # "proxy" /\ t # "tool" /\ tool \notin {"checking", "committing", "rolling back"}
  BY <1>3, PoolImportAssumption DEF ToolHolds
<1>8. ImportTypes'
  BY <1>2, <1>3, <1>4, <1>5, <1>6 DEF ImportTypes, TargetOk, Goes, Tells
<1>9. TransactionHolds'
  BY <1>2, <1>3, <1>7, PoolImportAssumption DEF TransactionHolds, ImportTypes, Goes
<1>10. ToolHolds' /\ ValidatedIsSettled'
  BY <1>2, <1>3, <1>7 DEF ToolHolds, ValidatedIsSettled, ImportTypes, Goes
<1>11. /\ committed => \A q \in Imports : ImportedRows(q)' <=> q = t
       /\ ~committed => \A q \in Imports : ~ImportedRows(q)'
  BY <1>4, <1>5, <1>6 DEF ImportedRows
<1>12. \A q \in Imports : ~ImportedRows(q)
  BY <1>4 DEF ImportedRows
<1>13. ReportIsTrue'
  BY <1>1, <1>2, <1>3, <1>11, <1>12 DEF ReportIsTrue, ImportTypes, Goes, Tells
<1>14. ImportedIsAlone' /\ ProxyHasSettings' /\ LegacyIsSound'
  BY <1>3, <1>4, <1>5, <1>6 DEF ImportedIsAlone, ProxyHasSettings, LegacyIsSound, ApprovedCopyIsWhole
<1> QED
  BY <1>8, <1>9, <1>10, <1>13, <1>14

(* The row of a member that a Proxy adds to its pool. *)
ProxyRow == [by |-> "proxy", rows |-> "member", damaged |-> FALSE]

(* A Proxy never adds a member to a paused pool, so not to an imported one. *)
LEMMA EarlyProxyKeeps ==
  ASSUME ImportInv, EarlyProxy
  PROVE  ImportInv'
<1> USE DEF ImportInv
<1>1. rowLocks = NoHolder /\ UNCHANGED <<backup, import, report, rowLocks, tool, legacy>>
  BY DEF EarlyProxy
<1>2. \A t \in Imports : import[t].at \notin {"again", "copy", "commit", "rollback"}
  BY <1>1, PoolImportAssumption DEF TransactionHolds
<1>3. tool \notin {"checking", "committing", "rolling back"}
  BY <1>1, PoolImportAssumption DEF ToolHolds
<1>4. /\ TargetOk(target') /\ (target # NoSettings => target' # NoSettings /\ target'.paused = target.paused)
      /\ early' # "down" => target' # NoSettings
  <2>1. CASE early' = "up" /\ early = "down"
    <3>1. PICK print \in {"old", "new"} :
            target' = IF target = NoSettings THEN [Seed EXCEPT !.print = print] ELSE target
      BY <2>1 DEF EarlyProxy
    <3>2. [Seed EXCEPT !.print = print] \in TargetRow
      BY DEF Seed, TargetRow
    <3> QED
      BY <3>1, <3>2, PoolImportAssumption DEF ImportTypes, TargetOk
  <2>2. CASE early # "down" /\ (target' = [target EXCEPT !.owner = TRUE] \/ target' = [target EXCEPT !.owner = FALSE])
    <3>1. target \in TargetRow
      BY <2>2 DEF ImportTypes, TargetOk, ProxyHasSettings
    <3>2. target' \in TargetRow /\ target'.paused = target.paused
      BY <2>2, <3>1 DEF TargetRow
    <3> QED
      BY <3>2, PoolImportAssumption DEF TargetOk
  <2>3. CASE early = "owner" /\ early' = "owner" /\ UNCHANGED target
    BY <2>3 DEF ImportTypes, TargetOk, ProxyHasSettings
  <2> QED
    BY <2>1, <2>2, <2>3 DEF EarlyProxy
<1>5. history' = history \/ (history' = Append(history, ProxyRow) /\ ~target.paused /\ target # NoSettings)
  BY DEF EarlyProxy, ProxyHasSettings, ProxyRow
<1>6. ImportTypes'
  <2>1. ProxyRow \in Origins
    BY DEF Origins, ProxyRow
  <2>2. history' \in Seq(Origins)
    <3>1. \A h \in Seq(Origins), o \in Origins : Append(h, o) \in Seq(Origins)
      OBVIOUS
    <3>2. history \in Seq(Origins)
      BY DEF ImportTypes
    <3> QED
      BY <1>5, <2>1, <3>1, <3>2
  <2> QED
    BY <1>1, <1>4, <2>2 DEF ImportTypes
<1>7. TransactionHolds' /\ ToolHolds' /\ ValidatedIsSettled'
  BY <1>1, <1>2, <1>3 DEF TransactionHolds, ToolHolds, ValidatedIsSettled
<1>8. \A q \in Imports : ImportedRows(q)' <=> ImportedRows(q)
  <2>1. CASE history' = history
    BY <2>1 DEF ImportedRows
  <2>2. CASE history' = Append(history, ProxyRow)
    <3>1. /\ DOMAIN history' = 1..(Len(history) + 1) /\ DOMAIN history = 1..Len(history) /\ Len(history) \in Nat
          /\ \A i \in DOMAIN history : history'[i] = history[i]
          /\ history'[Len(history) + 1].by = "proxy"
      BY <2>2 DEF ImportTypes, ProxyRow
    <3>2. "proxy" \notin Imports
      BY PoolImportAssumption
    <3> QED
      BY <3>1, <3>2 DEF ImportedRows
  <2> QED
    BY <1>5, <2>1, <2>2
<1>9. ReportIsTrue'
  BY <1>1, <1>8 DEF ReportIsTrue
<1>10. ImportedIsAlone'
  <2>1. SUFFICES ASSUME NEW i \in DOMAIN history', history'[i].by # "proxy"
                 PROVE  /\ Len(history') = 1 /\ ~history'[i].damaged /\ MembersSettled(history'[i].rows)
                        /\ target' # NoSettings /\ target'.paused
    BY DEF ImportedIsAlone
  <2>2. CASE history' = history
    BY <1>4, <2>1, <2>2 DEF ImportedIsAlone, ImportTypes, TargetOk, TargetRow
  <2>3. CASE history' = Append(history, ProxyRow) /\ ~target.paused
    <3>1. i \in DOMAIN history /\ history'[i] = history[i]
      BY <2>1, <2>3 DEF ImportTypes, ProxyRow
    <3> QED
      BY <2>1, <2>3, <3>1 DEF ImportedIsAlone
  <2> QED
    BY <1>5, <2>2, <2>3
<1>11. ProxyHasSettings' /\ LegacyIsSound'
  BY <1>1, <1>4 DEF ProxyHasSettings, LegacyIsSound, ApprovedCopyIsWhole
<1> QED
  BY <1>6, <1>7, <1>9, <1>10, <1>11

(* The tool that changes the options only changes the fingerprint, under the lock of the settings. *)
LEMMA ReconfigureKeeps ==
  ASSUME ImportInv, ReconfigureStep
  PROVE  ImportInv'
<1> USE DEF ImportInv
<1>1. UNCHANGED <<backup, import, report, history, early, legacy>>
  BY DEF ReconfigureStep, ReconfigureBegin, ReconfigureCheck, ReconfigureCommit, ReconfigureRollback
<1>2. rowLocks \in {NoHolder, "tool"} /\ rowLocks' \in {NoHolder, "tool"}
  BY DEF ReconfigureStep, ReconfigureBegin, ReconfigureCheck, ReconfigureCommit, ReconfigureRollback, ToolHolds
<1>3. \A t \in Imports : import[t].at \notin {"again", "copy", "commit", "rollback"}
  BY <1>2, PoolImportAssumption DEF TransactionHolds
<1>4. /\ TargetOk(target') /\ (target # NoSettings => target' # NoSettings /\ target'.paused = target.paused)
      /\ target = NoSettings => target' = NoSettings
  <2>1. CASE UNCHANGED target
    BY <2>1 DEF ImportTypes
  <2>2. CASE target' = [target EXCEPT !.print = "new"] /\ tool = "committing"
    <3>1. target \in TargetRow /\ target # NoSettings
      BY <2>2 DEF ToolHolds, ImportTypes, TargetOk
    <3>2. target' \in TargetRow /\ target'.paused = target.paused
      BY <2>2, <3>1 DEF TargetRow
    <3> QED
      BY <3>1, <3>2, PoolImportAssumption DEF TargetOk
  <2> QED
    BY <2>1, <2>2 DEF ReconfigureStep, ReconfigureBegin, ReconfigureCheck, ReconfigureCommit, ReconfigureRollback
<1>5. ToolHolds'
  BY <1>4 DEF ToolHolds, ReconfigureStep, ReconfigureBegin, ReconfigureCheck, ReconfigureCommit, ReconfigureRollback
<1>6. ImportTypes'
  BY <1>1, <1>2, <1>4 DEF ImportTypes
<1>7. TransactionHolds' /\ ValidatedIsSettled'
  BY <1>1, <1>3 DEF TransactionHolds, ValidatedIsSettled
<1>8. ReportIsTrue'
  BY <1>1 DEF ReportIsTrue, ImportedRows
<1>9. ImportedIsAlone' /\ ProxyHasSettings' /\ LegacyIsSound'
  BY <1>1, <1>4 DEF ImportedIsAlone, ProxyHasSettings, LegacyIsSound, ApprovedCopyIsWhole
<1> QED
  BY <1>5, <1>6, <1>7, <1>8, <1>9

(* A copy is approved only of the source as it was read. *)
LEMMA LegacyKeeps ==
  ASSUME ImportInv, LegacyStep
  PROVE  ImportInv'
<1>1. UNCHANGED <<backup, import, report, namedLock, target, history, rowLocks, early, tool, told>>
  BY DEF LegacyStep
<1>2. LegacyIsSound'
  <2>1. LegacyIsSound
    BY DEF ImportInv
  <2>2. CASE LegacyRead
    BY <2>1, <2>2 DEF LegacyIsSound, ApprovedCopyIsWhole, LegacyRead
  <2>3. CASE LegacyWrite
    BY <2>1, <2>3 DEF LegacyIsSound, ApprovedCopyIsWhole, LegacyWrite
  <2>4. CASE LegacyApprove
    BY <2>1, <2>4 DEF LegacyIsSound, ApprovedCopyIsWhole, LegacyApprove, SourceUnchanged
  <2>5. CASE LegacyDisturbed
    BY <2>1, <2>5 DEF LegacyIsSound, ApprovedCopyIsWhole, LegacyDisturbed
  <2> QED
    BY <2>2, <2>3, <2>4, <2>5 DEF LegacyStep
<1>3. ImportTypes' /\ TransactionHolds' /\ ToolHolds' /\ ValidatedIsSettled'
  BY <1>1 DEF ImportInv, ImportTypes, TransactionHolds, ToolHolds, ValidatedIsSettled
<1>4. ReportIsTrue' /\ ImportedIsAlone' /\ ProxyHasSettings'
  BY <1>1 DEF ImportInv, ReportIsTrue, ImportedRows, ImportedIsAlone, ProxyHasSettings
<1> QED
  BY <1>2, <1>3, <1>4 DEF ImportInv

LEMMA ImportStutters ==
  ASSUME ImportInv, UNCHANGED poolImportVars
  PROVE  ImportInv'
<1> USE DEF ImportInv
<1>1. UNCHANGED <<backup, import, report, target, history, rowLocks, early, tool, legacy>>
  BY DEF poolImportVars
<1>2. ImportTypes' /\ TransactionHolds' /\ ToolHolds' /\ ValidatedIsSettled'
  BY <1>1 DEF ImportTypes, TransactionHolds, ToolHolds, ValidatedIsSettled
<1>3. ReportIsTrue' /\ ImportedIsAlone' /\ ProxyHasSettings' /\ LegacyIsSound'
  BY <1>1 DEF ReportIsTrue, ImportedRows, ImportedIsAlone, ProxyHasSettings, LegacyIsSound, ApprovedCopyIsWhole
<1> QED
  BY <1>2, <1>3

LEMMA ImportStarts ==
  ASSUME PoolImportInit
  PROVE  ImportInv
<1> USE PoolImportAssumption DEF PoolImportInit
<1>1. ImportTypes
  BY DEF ImportTypes, ImportPlaces, TargetOk
<1>2. TransactionHolds /\ ToolHolds /\ ValidatedIsSettled
  BY DEF TransactionHolds, ToolHolds, ValidatedIsSettled
<1>3. ReportIsTrue /\ ImportedIsAlone /\ ProxyHasSettings
  BY DEF ReportIsTrue, ImportedRows, ImportedIsAlone, ProxyHasSettings
<1>4. LegacyIsSound
  BY DEF LegacyIsSound, ApprovedCopyIsWhole
<1> QED
  BY <1>1, <1>2, <1>3, <1>4 DEF ImportInv

LEMMA ImportKeeps ==
  ASSUME ImportInv, [PoolImportNext]_poolImportVars
  PROVE  ImportInv'
<1>1. ASSUME NEW t \in Imports, ImportStep(t)
      PROVE  ImportInv'
  BY <1>1, ImportStartKeeps, ImportLockKeeps, ImportInspectKeeps, ImportSchemaKeeps, ImportBeginKeeps,
     ImportAgainKeeps, ImportCopyKeeps, ImportVerifyKeeps, ImportCommitKeeps, ImportRollbackKeeps,
     ImportReleaseKeeps, ImportDiesKeeps DEF ImportStep
<1> QED
  BY <1>1, EarlyProxyKeeps, ReconfigureKeeps, LegacyKeeps, ImportStutters DEF PoolImportNext, TargetNext

LEMMA ImportInvSuffices ==
  ASSUME ImportInv
  PROVE  OfflineToolsAreSafe
<1> USE DEF ImportInv
<1>1. ImportsNeverMerge
  BY DEF ImportsNeverMerge, ImportedIsAlone, ImportTypes
<1>2. ImportReportIsTrue
  BY DEF ImportReportIsTrue, ReportIsTrue
<1>3. ImportedPoolIsQuiet
  BY DEF ImportedPoolIsQuiet, ImportedIsAlone, ImportTypes, MembersSettled, Proven
<1> QED
  BY <1>1, <1>2, <1>3 DEF OfflineToolsAreSafe, LegacyIsSound

---------------------------------------------------------------------------
DirectPlaces == {"start", "inspect", "policy", "copy", "commit", "rollback", "over"}

(* The rows of all the sources and of the Proxy. *)
AnyRow == ProxyRows \cup UNION {RunRows[r] : r \in Runs}
DirectRun == [at: DirectPlaces, written: SUBSET AnyRow, found: SUBSET AnyRow]

DirectTypes ==
  /\ run \in [Runs -> DirectRun]
  /\ answer \in [Runs -> {"none", "dry run", "failed", "done", "error"}]
  /\ stored \subseteq AnyRow /\ IsFiniteSet(stored)
  /\ policyBy \in Runs \cup {"seed"} /\ policyLock \in Runs \cup {"none"}

(* An uncommitted row is a row of its run's source, and nobody else has it. *)
WrittenIsOwn ==
  \A r \in Runs :
    /\ run[r].written \subseteq RunRows[r] /\ run[r].written \cap stored = {}
    /\ \A q \in Runs \ {r} : run[q].written \cap run[r].written = {}

(* A run that commits has written all its rows, and when it counted them the target had no other. *)
CommitIsWhole == \A r \in Runs : run[r].at = "commit" => run[r].written = RunRows[r] /\ run[r].found = {}

(* A run that copies the policy keeps the enterprise row locked until its transaction ends. *)
PolicyIsLocked ==
  \A r \in Runs : run[r].at \in {"copy", "commit", "rollback"} /\ RunSource[r].shape = "multi" => policyLock = r

(* What a run that is done left behind. *)
DoneIsWhole ==
  \A r \in Runs : answer[r] = "done" =>
    /\ run[r].at = "over" /\ RunRows[r] \subseteq stored /\ run[r].found = {}
    /\ RunSource[r].shape = "multi" => policyBy # "seed"

(* Every stored row was added by a Proxy or with all the rows of a run. *)
StoredIsWhole ==
  \A key \in stored : key \in ProxyRows \/ \E r \in Runs : key \in RunRows[r] /\ RunRows[r] \subseteq stored

DirectInv ==
  DirectTypes /\ WrittenIsOwn /\ CommitIsWhole /\ PolicyIsLocked /\ DoneIsWhole /\ StoredIsWhole

(* A run goes on with the same rows. *)
RunGoes(r, at) ==
  /\ run' \in [Runs -> DirectRun]
  /\ run'[r].at = at /\ run'[r].written = run[r].written /\ run'[r].found = run[r].found
  /\ \A q \in Runs \ {r} : run'[q] = run[q]

LEMMA RunMoved ==
  ASSUME DirectTypes, NEW r \in Runs, NEW at \in DirectPlaces, MoveRun(r, at)
  PROVE  RunGoes(r, at)
BY DEF DirectTypes, DirectRun, MoveRun, RunGoes

LEMMA AnswerGiven ==
  ASSUME DirectTypes, NEW r \in Runs, NEW text \in {"none", "dry run", "failed", "done", "error"}, Ends(r, text)
  PROVE  /\ answer' \in [Runs -> {"none", "dry run", "failed", "done", "error"}] /\ answer'[r] = text
         /\ \A q \in Runs \ {r} : answer'[q] = answer[q]
BY DEF DirectTypes, Ends

(* A step before the transaction, or one that ends a run without a commit. *)
LEMMA DirectBeginsKeeps ==
  ASSUME DirectInv, NEW r \in Runs, DirectStart(r) \/ DirectInspect(r)
  PROVE  DirectInv'
<1> USE DEF DirectInv
<1>1. /\ run[r].at \in {"start", "inspect"} /\ UNCHANGED <<stored, policyBy, policyLock>>
      /\ answer' \in [Runs -> {"none", "dry run", "failed", "done", "error"}] /\ answer'[r] # "done"
      /\ \A q \in Runs \ {r} : answer'[q] = answer[q]
  BY AnswerGiven DEF DirectStart, DirectInspect, RunAt, DirectTypes, DoneIsWhole
<1>2. RunGoes(r, "inspect") \/ RunGoes(r, "policy") \/ RunGoes(r, "over")
  BY RunMoved DEF DirectStart, DirectInspect, DirectPlaces
<1>3. DirectTypes' /\ WrittenIsOwn'
  <2>1. DirectTypes'
    BY <1>1, <1>2 DEF DirectTypes, RunGoes
  <2>2. \A q \in Runs : run'[q].written = run[q].written
    BY <1>2 DEF RunGoes
  <2>3. WrittenIsOwn'
    BY <1>1, <2>2 DEF WrittenIsOwn
  <2> QED
    BY <2>1, <2>3
<1>4. CommitIsWhole' /\ PolicyIsLocked'
  BY <1>1, <1>2 DEF CommitIsWhole, PolicyIsLocked, RunGoes
<1>5. DoneIsWhole' /\ StoredIsWhole'
  BY <1>1, <1>2 DEF DoneIsWhole, StoredIsWhole, RunGoes
<1> QED
  BY <1>3, <1>4, <1>5

(* The policy of the enterprise is copied under the lock of its row. *)
LEMMA DirectPolicyKeeps ==
  ASSUME DirectInv, NEW r \in Runs, DirectPolicy(r)
  PROVE  DirectInv'
<1> USE DEF DirectInv
<1>1. RunGoes(r, "copy") /\ run[r].at = "policy" /\ UNCHANGED <<answer, stored, policyBy>>
  BY RunMoved DEF DirectPolicy, DirectPlaces, RunAt
<1>2. /\ RunSource[r].shape = "multi" => policyLock = "none" /\ policyLock' = r
      /\ policyLock' \in {policyLock, r} /\ (policyLock' # policyLock => policyLock = "none")
  BY DEF DirectPolicy
<1>3. DirectTypes' /\ WrittenIsOwn'
  <2>1. DirectTypes'
    BY <1>1, <1>2 DEF DirectTypes, RunGoes
  <2>2. \A q \in Runs : run'[q].written = run[q].written
    BY <1>1 DEF RunGoes
  <2>3. WrittenIsOwn'
    BY <1>1, <2>2 DEF WrittenIsOwn
  <2> QED
    BY <2>1, <2>3
<1>4. CommitIsWhole' /\ PolicyIsLocked'
  BY <1>1, <1>2, DirectImportAssumption DEF CommitIsWhole, PolicyIsLocked, RunGoes
<1>5. DoneIsWhole' /\ StoredIsWhole'
  BY <1>1 DEF DoneIsWhole, StoredIsWhole, RunGoes
<1> QED
  BY <1>3, <1>4, <1>5

LEMMA DirectGoesBackKeeps ==
  ASSUME DirectInv, NEW r \in Runs, RunGoes(r, "rollback"), run[r].at \in {"copy", "commit"},
         UNCHANGED <<answer, stored, policyBy, policyLock>>
  PROVE  DirectInv'
<1> USE DEF DirectInv
<1>1. DirectTypes'
  BY DEF DirectTypes, RunGoes
<1>w. \A q \in Runs : run'[q].written = run[q].written
  BY DEF RunGoes
<1>3. WrittenIsOwn'
  BY <1>w DEF WrittenIsOwn
<1>2. CommitIsWhole' /\ PolicyIsLocked' /\ DoneIsWhole' /\ StoredIsWhole'
  BY DEF CommitIsWhole, PolicyIsLocked, DoneIsWhole, StoredIsWhole, RunGoes
<1> QED
  BY <1>1, <1>2, <1>3

(* A row that is inserted is nobody else's and not yet stored. *)
LEMMA DirectCopyKeeps ==
  ASSUME DirectInv, NEW r \in Runs, DirectCopy(r)
  PROVE  DirectInv'
<1> USE DEF DirectInv
<1>1. PICK key \in RunRows[r] \ run[r].written :
        /\ key \notin Uncommitted(r)
        /\ IF key \in stored THEN MoveRun(r, "rollback")
           ELSE run' = [run EXCEPT ![r].written = @ \cup {key}]
  BY DEF DirectCopy
<1>2. run[r].at = "copy" /\ UNCHANGED <<answer, stored, policyBy, policyLock>>
  BY DEF DirectCopy, RunAt
<1>3. CASE key \in stored
  BY <1>1, <1>2, <1>3, RunMoved, DirectGoesBackKeeps DEF DirectPlaces
<1>4. CASE key \notin stored
  <2>1. /\ run' \in [Runs -> DirectRun] /\ run'[r].at = "copy" /\ run'[r].found = run[r].found
        /\ run'[r].written = run[r].written \cup {key} /\ \A q \in Runs \ {r} : run'[q] = run[q]
    <3>1. key \in AnyRow
      BY DEF AnyRow
    <3> DEFINE more == run[r].written \cup {key}
    <3>2. more \in SUBSET AnyRow
      BY <3>1 DEF DirectTypes, DirectRun
    <3>3. run' = [run EXCEPT ![r].written = more]
      BY <1>1, <1>4
    <3> HIDE DEF more
    <3>4. /\ run' \in [Runs -> DirectRun] /\ run'[r].at = "copy" /\ run'[r].found = run[r].found
          /\ run'[r].written = more /\ \A q \in Runs \ {r} : run'[q] = run[q]
      BY <1>2, <3>2, <3>3 DEF DirectTypes, DirectRun
    <3> QED
      BY <3>4 DEF more
  <2>2. \A q \in Runs \ {r} : key \notin run[q].written
    BY <1>1 DEF Uncommitted
  <2>3. DirectTypes'
    BY <1>2, <2>1 DEF DirectTypes
  <2>4. WrittenIsOwn'
    BY <1>2, <1>4, <2>1, <2>2 DEF WrittenIsOwn
  <2>5. CommitIsWhole' /\ PolicyIsLocked' /\ DoneIsWhole' /\ StoredIsWhole'
    BY <1>2, <2>1 DEF CommitIsWhole, PolicyIsLocked, DoneIsWhole, StoredIsWhole
  <2> QED
    BY <2>3, <2>4, <2>5
<1> QED
  BY <1>3, <1>4

(* A target that has as many rows as the source, and the rows of the source, has no other. *)
LEMMA CountsLeaveNothing ==
  ASSUME DirectInv, NEW r \in Runs, run[r].written = RunRows[r], CountsMatch(r)
  PROVE  stored = {}
<1>1. IsFiniteSet(RunRows[r]) /\ IsFiniteSet(stored \cup RunRows[r])
  BY DirectImportAssumption, FS_Union DEF DirectInv, DirectTypes
<1>2. RunRows[r] = stored \cup RunRows[r]
  <2>1. RunRows[r] \subseteq stored \cup RunRows[r]
    OBVIOUS
  <2> QED
    BY <1>1, <2>1, FS_Subset DEF CountsMatch, Visible
<1> QED
  BY <1>2 DEF DirectInv, WrittenIsOwn

LEMMA DirectVerifyKeeps ==
  ASSUME DirectInv, NEW r \in Runs, DirectVerify(r)
  PROVE  DirectInv'
<1> USE DEF DirectInv
<1>1. /\ run[r].at = "copy" /\ run[r].written = RunRows[r] /\ UNCHANGED <<answer, stored, policyBy, policyLock>>
      /\ run' = [run EXCEPT ![r].at = IF CountsMatch(r) THEN "commit" ELSE "rollback", ![r].found = stored]
  BY DEF DirectVerify, RunAt
<1>2. CountsMatch(r) => stored = {}
  BY <1>1, CountsLeaveNothing
<1>3. /\ run' \in [Runs -> DirectRun] /\ run'[r].at = (IF CountsMatch(r) THEN "commit" ELSE "rollback")
      /\ run'[r].written = RunRows[r] /\ run'[r].found = stored /\ \A q \in Runs \ {r} : run'[q] = run[q]
  BY <1>1 DEF DirectTypes, DirectRun, DirectPlaces
<1>4. DirectTypes' /\ WrittenIsOwn'
  <2>1. DirectTypes'
    BY <1>1, <1>3 DEF DirectTypes
  <2>2. WrittenIsOwn'
    BY <1>1, <1>3 DEF WrittenIsOwn
  <2> QED
    BY <2>1, <2>2
<1>5. CommitIsWhole'
  BY <1>1, <1>2, <1>3 DEF CommitIsWhole
<1>6. PolicyIsLocked' /\ DoneIsWhole' /\ StoredIsWhole'
  BY <1>1, <1>3 DEF PolicyIsLocked, DoneIsWhole, StoredIsWhole
<1> QED
  BY <1>4, <1>5, <1>6

(* A transaction ends: the rows of the run are stored, all of them, or forgotten. *)
LEMMA DirectEndsKeeps ==
  ASSUME DirectInv, NEW r \in Runs, DirectCommit(r) \/ DirectRollback(r)
  PROVE  DirectInv'
<1> USE DEF DirectInv
<1>1. /\ run' = [run EXCEPT ![r].at = "over", ![r].written = {}] /\ run[r].at \in {"commit", "rollback"}
      /\ policyLock' = IF policyLock = r THEN "none" ELSE policyLock
  BY DEF DirectCommit, DirectRollback, RunAt, Unlock
<1>2. /\ run' \in [Runs -> DirectRun] /\ run'[r].at = "over" /\ run'[r].written = {}
      /\ run'[r].found = run[r].found /\ \A q \in Runs \ {r} : run'[q] = run[q]
  BY <1>1 DEF DirectTypes, DirectRun, DirectPlaces
<1>3. /\ stored' = stored \/ (run[r].at = "commit" /\ stored' = stored \cup RunRows[r])
      /\ policyBy' = policyBy \/ (policyLock = r /\ policyBy' = r)
      /\ answer' \in [Runs -> {"none", "dry run", "failed", "done", "error"}]
      /\ \A q \in Runs \ {r} : answer'[q] = answer[q]
      /\ answer'[r] = "done" => /\ run[r].at = "commit" /\ stored' = stored \cup RunRows[r]
                                /\ policyLock = r => policyBy' = r
  <2>1. CASE DirectCommit(r)
    <3>1. PICK committed \in BOOLEAN, answered \in BOOLEAN :
            /\ answered => committed
            /\ stored' = IF committed THEN Visible(r) ELSE stored
            /\ policyBy' = IF committed /\ policyLock = r THEN r ELSE policyBy
            /\ Ends(r, IF answered THEN "done" ELSE "error")
      BY <2>1 DEF DirectCommit
    <3>2. run[r].at = "commit" /\ Visible(r) = stored \cup RunRows[r]
      BY <2>1 DEF DirectCommit, RunAt, Visible, CommitIsWhole
    <3> QED
      BY <3>1, <3>2, AnswerGiven
  <2>2. CASE DirectRollback(r)
    BY <2>2, AnswerGiven DEF DirectRollback
  <2> QED
    BY <2>1, <2>2
<1>4. run[r].at = "commit" => run[r].written = RunRows[r] /\ run[r].found = {}
  BY DEF CommitIsWhole
<1>5. RunRows[r] \subseteq AnyRow /\ IsFiniteSet(stored \cup RunRows[r])
  BY DirectImportAssumption, FS_Union DEF AnyRow, DirectTypes
<1>6. DirectTypes'
  BY <1>1, <1>2, <1>3, <1>5 DEF DirectTypes
<1>7. WrittenIsOwn'
  BY <1>2, <1>3, <1>4 DEF WrittenIsOwn
<1>8. CommitIsWhole'
  BY <1>2 DEF CommitIsWhole
<1>9. PolicyIsLocked'
  BY <1>1, <1>2 DEF PolicyIsLocked
<1>10. DoneIsWhole'
  BY <1>2, <1>3, <1>4, DirectImportAssumption DEF DoneIsWhole, PolicyIsLocked
<1>11. StoredIsWhole'
  BY <1>3 DEF StoredIsWhole
<1> QED
  BY <1>6, <1>7, <1>8, <1>9, <1>10, <1>11

(* The Proxy's row is nobody's uncommitted row. *)
LEMMA ProxyWritesKeeps ==
  ASSUME DirectInv, ProxyWrites
  PROVE  DirectInv'
<1> USE DEF DirectInv
<1>1. PICK key \in ProxyRows \ stored : (\A r \in Runs : key \notin run[r].written) /\ stored' = stored \cup {key}
  BY DEF ProxyWrites
<1>2. UNCHANGED <<run, answer, policyBy, policyLock>>
  BY DEF ProxyWrites
<1>3. DirectTypes'
  BY <1>1, <1>2, FS_AddElement DEF DirectTypes, AnyRow
<1>4. WrittenIsOwn' /\ CommitIsWhole' /\ PolicyIsLocked'
  BY <1>1, <1>2 DEF WrittenIsOwn, CommitIsWhole, PolicyIsLocked
<1>5. DoneIsWhole' /\ StoredIsWhole'
  BY <1>1, <1>2 DEF DoneIsWhole, StoredIsWhole
<1> QED
  BY <1>3, <1>4, <1>5

LEMMA DirectStarts ==
  ASSUME DirectInit
  PROVE  DirectInv
<1> USE DEF DirectInit
<1>1. DirectTypes
  BY FS_EmptySet DEF DirectTypes, DirectRun, DirectPlaces, AnyRow
<1>2. WrittenIsOwn /\ CommitIsWhole /\ PolicyIsLocked /\ DoneIsWhole /\ StoredIsWhole
  BY DEF WrittenIsOwn, CommitIsWhole, PolicyIsLocked, DoneIsWhole, StoredIsWhole
<1> QED
  BY <1>1, <1>2 DEF DirectInv

LEMMA DirectKeeps ==
  ASSUME DirectInv, [DirectNext]_directVars
  PROVE  DirectInv'
<1>1. ASSUME NEW r \in Runs, DirectStep(r)
      PROVE  DirectInv'
  <2>1. CASE DirectFails(r)
    <3>1. RunGoes(r, "rollback") /\ run[r].at \in {"copy", "commit"} /\ UNCHANGED <<answer, stored, policyBy, policyLock>>
      BY <2>1, RunMoved DEF DirectFails, DirectPlaces, DirectInv
    <3> QED
      BY <3>1, DirectGoesBackKeeps
  <2> QED
    BY <1>1, <2>1, DirectBeginsKeeps, DirectPolicyKeeps, DirectCopyKeeps, DirectVerifyKeeps, DirectEndsKeeps
    DEF DirectStep
<1>2. CASE UNCHANGED directVars
  <2>1. UNCHANGED <<run, answer, stored, policyBy, policyLock>>
    BY <1>2 DEF directVars
  <2> QED
    BY <2>1 DEF DirectInv, DirectTypes, WrittenIsOwn, CommitIsWhole, PolicyIsLocked, DoneIsWhole, StoredIsWhole
<1> QED
  BY <1>1, <1>2, ProxyWritesKeeps DEF DirectNext

(* A row that is neither the Proxy's nor another source's came with all the rows of its run. *)
LEMMA DirectInvSuffices ==
  ASSUME DirectInv
  PROVE  DirectCopyIsWhole
<1> SUFFICES ASSUME NEW r \in Runs
             PROVE  /\ answer[r] = "done" => RunRows[r] \subseteq stored /\ run[r].found = {}
                    /\ answer[r] = "done" /\ RunSource[r].shape = "multi" => policyBy # "seed"
                    /\ (stored \cap RunRows[r]) \ (ProxyRows \cup UNION {RunRows[q] : q \in Runs \ {r}}) # {}
                         => RunRows[r] \subseteq stored
  BY DEF DirectCopyIsWhole
<1>1. ASSUME NEW key \in stored \cap RunRows[r],
             key \notin ProxyRows, key \notin UNION {RunRows[q] : q \in Runs \ {r}}
      PROVE  RunRows[r] \subseteq stored
  <2>1. PICK q \in Runs : key \in RunRows[q] /\ RunRows[q] \subseteq stored
    BY <1>1 DEF DirectInv, StoredIsWhole
  <2> QED
    BY <1>1, <2>1
<1>2. ((stored \cap RunRows[r]) \ (ProxyRows \cup UNION {RunRows[q] : q \in Runs \ {r}}) # {})
        => RunRows[r] \subseteq stored
  BY <1>1
<1> QED
  BY <1>2 DEF DirectInv, DoneIsWhole

---------------------------------------------------------------------------
(* The offline tools (upgrade/user-pool-mysql) leave a target that is untouched or the whole verified   *)
(* backup, paused, and never report a failure for a copy that was committed: for any number of runs,    *)
(* tables and backups.                                                                                  *)
THEOREM OfflineToolsStaySafe == PoolImportSpec => []OfflineToolsAreSafe
<1>1. PoolImportInit => ImportInv
  BY ImportStarts
<1>2. ImportInv /\ [PoolImportNext]_poolImportVars => ImportInv'
  BY ImportKeeps
<1>3. ImportInv => OfflineToolsAreSafe
  BY ImportInvSuffices
<1> QED
  BY <1>1, <1>2, <1>3, PTL DEF PoolImportSpec

(* The copy of a direct-mode database (migrateSqliteToMysql) is all or nothing, for any sources and any *)
(* rows of a running Proxy, the rows they have in common included.                                      *)
THEOREM DirectCopyStaysWhole == DirectSpec => []DirectCopyIsWhole
<1>1. DirectInit => DirectInv
  BY DirectStarts
<1>2. DirectInv /\ [DirectNext]_directVars => DirectInv'
  BY DirectKeeps
<1>3. DirectInv => DirectCopyIsWhole
  BY DirectInvSuffices
<1> QED
  BY <1>1, <1>2, <1>3, PTL DEF DirectSpec

(* Both copies into MySQL are all or nothing, in the specification of the run that checks them. *)
THEOREM CopiesStayWhole == MCSpec => []CopiesAreWhole
<1> DEFINE mcVars == <<part, vars, growthVars, poolImportVars, directVars>>
<1>1. MCInit => ImportInv /\ DirectInv
  BY ImportStarts, DirectStarts DEF MCInit
<1>2. ImportInv /\ DirectInv /\ [MCNext]_mcVars => ImportInv' /\ DirectInv'
  <2>1. [MCNext]_mcVars => [PoolImportNext]_poolImportVars /\ [DirectNext]_directVars
    BY DEF MCNext, PoolImportNext
  <2> QED
    BY <2>1, ImportKeeps, DirectKeeps
<1>3. ImportInv /\ DirectInv => CopiesAreWhole
  BY ImportInvSuffices, DirectInvSuffices DEF CopiesAreWhole
<1> QED
  BY <1>1, <1>2, <1>3, PTL DEF MCSpec
=============================================================================

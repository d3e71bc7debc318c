-------------------------- MODULE PoolOwnerProofs --------------------------
(***************************************************************************)
(* For any number of workers and UUIDs, any TTL and any latency: a worker  *)
(* that believes it owns the pool is the owner in the database, and there  *)
(* is at most one.                                                         *)
(*                                                                         *)
(* TenureIsBacked is not inductive.  OwnerInv adds what is true while a    *)
(* call is under way: an accepted claim or renewal is as good as the       *)
(* tenure it will become, an abandoned release can only hit an id that no  *)
(* worker will use again, and a worker asks for an id of its own.          *)
(***************************************************************************)
EXTENDS PoolOwner, TLAPS

(* The row outlives what started a ticks ago for the id i. *)
Backed(i, a) == a < TTL => dbOwner = i /\ dbLeft >= TTL - a

TenureInv ==
  \A w \in Workers : tenure[w] # NoTenure =>
    /\ ~stopped[w]
    /\ WorkerOf[tenure[w].id] = w
    /\ Backed(tenure[w].id, tenure[w].age)

RequestInv ==
  \A w \in Workers : request[w] # NoRequest =>
    /\ WorkerOf[request[w].id] = w
    /\ request[w].kind # "renew" => tenure[w] = NoTenure
    /\ tenure[w] # NoTenure => tenure[w].id = request[w].id
    /\ request[w].kind # "release" /\ request[w].phase = "accepted" =>
         Backed(request[w].id, request[w].age)

LeavingInv ==
  \A w \in Workers : leaving[w] # NoId => WorkerOf[leaving[w]] = w /\ stopped[w]

OrphanInv ==
  \A o \in orphans, w \in Workers : o.kind = "release" =>
    /\ tenure[w] # NoTenure => tenure[w].id # o.id
    /\ request[w] # NoRequest /\ request[w].kind # "release" => request[w].id # o.id

ActiveInv ==
  \A w \in Workers :
    /\ tenure[w] # NoTenure => active[w] \subseteq {tenure[w].id}
    /\ request[w] # NoRequest /\ request[w].kind = "claim" => active[w] = {}

OwnerInv == TypeOK /\ TenureInv /\ RequestInv /\ LeavingInv /\ OrphanInv /\ ActiveInv

USE OwnerAssumption, NoneAssumption

(* A call in its initial state is a request, and not the absent one. *)
LEMMA CallType ==
  ASSUME NEW k \in {"claim", "renew", "release"}, NEW i \in Ids
  PROVE  /\ Call(k, i) \in Request /\ Call(k, i) # NoRequest
         /\ Call(k, i).kind = k /\ Call(k, i).id = i /\ Call(k, i).phase = "sent"
<1>1. Call(k, i) \in Request
  BY DEF Call, Request, Ages
<1>2. Call(k, i).kind = k /\ Call(k, i).id = i /\ Call(k, i).phase = "sent"
  BY DEF Call
<1>3. QED
  BY <1>1, <1>2

(* Ages grow by one and stop at the TTL. *)
LEMMA OlderType ==
  ASSUME NEW a \in Ages
  PROVE  Older(a) \in Ages /\ (Older(a) < TTL => Older(a) = a + 1)
BY DEF Older, Ages

(* The parts of a tenure and of a request. *)
LEMMA PartsType ==
  ASSUME TypeOK, NEW w \in Workers
  PROVE  /\ tenure[w] # NoTenure => /\ tenure[w] \in Tenure
                                    /\ tenure[w].id \in Ids /\ tenure[w].age \in Ages
         /\ request[w] # NoRequest =>
              /\ request[w] \in Request
              /\ request[w].id \in Ids /\ request[w].age \in Ages
              /\ request[w].kind \in {"claim", "renew", "release"}
              /\ request[w].phase \in {"sent", "accepted", "refused"}
<1>1. tenure[w] \in Tenure \cup {NoTenure} /\ request[w] \in Request \cup {NoRequest}
  BY DEF TypeOK
<1>2. QED
  BY <1>1 DEF Tenure, Request

(* No statement takes the row away from an id it still backs, unless it
   releases that very id. *)
LEMMA ApplyBacked ==
  ASSUME TypeOK, NEW kind \in {"claim", "renew", "release"}, NEW i \in Ids,
         NEW j \in Ids, NEW a \in Ages,
         Backed(j, a), Apply(kind, i), kind = "release" => i # j
  PROVE  /\ a < TTL => dbOwner' = j /\ dbLeft' >= TTL - a
         /\ dbOwner' \in Ids \cup {NoId} /\ dbLeft' \in Ages
<1>1. a \in Nat /\ a <= TTL /\ dbLeft \in Nat /\ dbLeft <= TTL
  BY DEF Ages, TypeOK
<1>2. CASE kind = "claim"
  BY <1>1, <1>2 DEF Apply, Accepts, Backed, TypeOK, Ages
<1>3. CASE kind = "renew"
  BY <1>1, <1>3 DEF Apply, Accepts, Backed, TypeOK, Ages
<1>4. CASE kind = "release"
  BY <1>1, <1>4 DEF Apply, Accepts, Backed, TypeOK, Ages
<1>5. QED
  BY <1>2, <1>3, <1>4

(* What the row looks like after a statement. *)
LEMMA ApplyType ==
  ASSUME TypeOK, NEW kind \in {"claim", "renew", "release"}, NEW i \in Ids, Apply(kind, i)
  PROVE  /\ dbOwner' \in Ids \cup {NoId} /\ dbLeft' \in Ages
         /\ Accepts(kind, i) /\ kind # "release" => dbOwner' = i /\ dbLeft' = TTL
BY DEF Apply, TypeOK, Ages

-----------------------------------------------------------------------------
(* Tick keeps the types: every age saturates. *)
LEMMA TickType ==
  ASSUME TypeOK, Tick
  PROVE  TypeOK'
<1>1. dbLeft' \in Ages
  BY DEF Tick, TypeOK, Ages
<1>2. ASSUME NEW w \in Workers
      PROVE  tenure'[w] \in Tenure \cup {NoTenure}
  <2>1. CASE tenure[w] # NoTenure
    <3>1. tenure[w] \in Tenure /\ Older(tenure[w].age) \in Ages
      BY <2>1, PartsType, OlderType
    <3>2. tenure'[w] = [tenure[w] EXCEPT !.age = Older(@)]
      BY <2>1 DEF Tick
    <3>3. QED
      BY <3>1, <3>2 DEF Tenure
  <2>2. QED
    BY <2>1 DEF Tick
<1>3. ASSUME NEW w \in Workers
      PROVE  request'[w] \in Request \cup {NoRequest}
  <2>1. CASE request[w] # NoRequest
    <3>1. request[w] \in Request /\ Older(request[w].age) \in Ages
      BY <2>1, PartsType, OlderType
    <3>2. request'[w] = [request[w] EXCEPT !.age = Older(@)]
      BY <2>1 DEF Tick
    <3>3. QED
      BY <3>1, <3>2 DEF Request
  <2>2. QED
    BY <2>1 DEF Tick
<1>4. tenure' \in [Workers -> Tenure \cup {NoTenure}]
  BY <1>2 DEF Tick
<1>5. request' \in [Workers -> Request \cup {NoRequest}]
  BY <1>3 DEF Tick
<1>6. QED
  BY <1>1, <1>4, <1>5 DEF Tick, TypeOK

(* Whatever a worker or the database does keeps the types. *)
LEMMA WorkerTypes ==
  ASSUME TypeOK, NEW w \in Workers,
         Heartbeat(w) \/ CallFails(w) \/ Launch(w) \/ (\E i \in Ids : StorageFails(w, i))
           \/ Stop(w) \/ Crash(w)
  PROVE  TypeOK'
<1>a. /\ tenure[w] \in Tenure \cup {NoTenure} /\ request[w] \in Request \cup {NoRequest}
      /\ leaving[w] \in Ids \cup {NoId} /\ MultiReplica \in BOOLEAN
  BY DEF TypeOK
<1>1. ASSUME NEW i \in Ids, SendClaim(w, i)
      PROVE  TypeOK'
  BY <1>1, CallType DEF SendClaim, TypeOK
<1>2. CASE SendRenew(w)
  <2>1. tenure[w].id \in Ids
    BY <1>2, PartsType DEF SendRenew, Current
  <2>2. QED
    BY <1>2, <2>1, CallType DEF SendRenew, TypeOK
<1>3. CASE Execute(w)
  <2>1. /\ request[w] \in Request /\ request[w].id \in Ids
        /\ request[w].kind \in {"claim", "renew", "release"}
    BY <1>3, PartsType DEF Execute
  <2>2. dbOwner' \in Ids \cup {NoId} /\ dbLeft' \in Ages
    BY <1>3, <2>1, ApplyType DEF Execute
  <2>3. \A p \in {"accepted", "refused"} : [request[w] EXCEPT !.phase = p] \in Request
    BY <2>1 DEF Request
  <2>4. request' \in [Workers -> Request \cup {NoRequest}]
    BY <1>3, <2>3 DEF Execute, TypeOK
  <2>5. QED
    BY <1>3, <2>2, <2>4 DEF Execute, TypeOK
<1>4. CASE Claimed(w)
  <2>1. request[w].id \in Ids /\ request[w].age \in Ages
    BY <1>4, PartsType DEF Claimed
  <2>2. [id |-> request[w].id, age |-> request[w].age] \in Tenure
    BY <2>1 DEF Tenure
  <2>3. QED
    BY <1>4, <2>1, <2>2, CallType DEF Claimed, TypeOK
<1>5. CASE NotClaimed(w)
  BY <1>5 DEF NotClaimed, TypeOK
<1>6. CASE Renewed(w)
  <2>1. request[w].age \in Ages
    BY <1>6, PartsType DEF Renewed
  <2>2. CASE Current(w)
    <3>1. tenure[w] \in Tenure
      BY <1>a, <2>2 DEF Current
    <3>x. ~Expired(w)
      BY <2>2, <3>1, OwnerAssumption DEF Current, Expired, Tenure, Ages
    <3>2. [tenure[w] EXCEPT !.age = request[w].age] \in Tenure
      BY <2>1, <3>1 DEF Tenure
    <3>3. QED
      BY <1>6, <2>2, <3>x, <3>2 DEF Renewed, Current, TypeOK
  <2>3. CASE ~Current(w)
    BY <1>6, <2>3 DEF Renewed, LoseOwnership, TypeOK
  <2>4. QED
    BY <2>2, <2>3
<1>7. CASE NotRenewed(w)
  BY <1>7 DEF NotRenewed, LoseOwnership, TypeOK
<1>8. CASE Released(w)
  BY <1>8 DEF Released, TypeOK
<1>9. CASE Expire(w)
  BY <1>9 DEF Expire, LoseOwnership, TypeOK
<1>10. CASE StepEnds(w)
  BY <1>10 DEF StepEnds, TypeOK
<1>11. CASE StopDrained(w)
  BY <1>11, <1>a, CallType DEF StopDrained, TypeOK
<1>12. CASE CallFails(w)
  <2>1. [kind |-> request[w].kind, id |-> request[w].id] \in Orphan
    BY <1>12, PartsType DEF CallFails, Orphan
  <2>2. failures + 1 \in Nat
    BY DEF TypeOK
  <2>3. QED
    BY <1>12, <2>1, <2>2 DEF CallFails, TypeOK
<1>13. CASE Launch(w)
  <2>1. tenure[w].id \in Ids
    BY <1>13, PartsType DEF Launch, Current
  <2>2. QED
    BY <1>13, <2>1 DEF Launch, TypeOK
<1>14. ASSUME NEW i \in Ids, StorageFails(w, i)
       PROVE  TypeOK'
  <2>1. failures + 1 \in Nat
    BY DEF TypeOK
  <2>2. QED
    BY <1>14, <2>1 DEF StorageFails, LoseOwnership, TypeOK
<1>15. CASE Stop(w)
  <2>1. tenure[w] # NoTenure => tenure[w].id \in Ids
    BY PartsType
  <2>2. QED
    BY <1>15, <2>1 DEF Stop, TypeOK
<1>16. CASE Crash(w)
  <2>1. request[w] # NoRequest => [kind |-> request[w].kind, id |-> request[w].id] \in Orphan
    BY PartsType DEF Orphan
  <2>2. failures + 1 \in Nat
    BY DEF TypeOK
  <2>3. QED
    BY <1>16, <2>1, <2>2 DEF Crash, TypeOK
<1>17. QED
  BY <1>1, <1>2, <1>3, <1>4, <1>5, <1>6, <1>7, <1>8, <1>9, <1>10, <1>11, <1>12, <1>13,
     <1>14, <1>15, <1>16 DEF Heartbeat

(* Every step keeps the types. *)
LEMMA NextType ==
  ASSUME TypeOK, [Next]_vars
  PROVE  TypeOK'
<1>1. CASE Tick
  BY <1>1, TickType
<1>2. ASSUME NEW o \in orphans, ExecuteOrphan(o)
      PROVE  TypeOK'
  <2>1. o.kind \in {"claim", "renew", "release"} /\ o.id \in Ids
    BY DEF TypeOK, Orphan
  <2>2. dbOwner' \in Ids \cup {NoId} /\ dbLeft' \in Ages
    BY <1>2, <2>1, ApplyType DEF ExecuteOrphan, TypeOK
  <2>3. QED
    BY <1>2, <2>2 DEF ExecuteOrphan, TypeOK
<1>3. CASE UNCHANGED vars
  BY <1>3 DEF vars, TypeOK
<1>4. QED
  BY <1>1, <1>2, <1>3, WorkerTypes DEF Next

-----------------------------------------------------------------------------
(* Everything but the types. *)
OwnerParts == TenureInv /\ RequestInv /\ LeavingInv /\ OrphanInv /\ ActiveInv

(* Time: whatever is backed stays backed until it is TTL ticks old. *)
LEMMA TickInv ==
  ASSUME OwnerInv, Tick
  PROVE  OwnerParts'
<1>1. ASSUME NEW w \in Workers, tenure'[w] # NoTenure
      PROVE  /\ tenure[w] # NoTenure /\ tenure[w].id \in Ids /\ tenure[w].age \in Ages
             /\ tenure'[w].id = tenure[w].id /\ tenure'[w].age = Older(tenure[w].age)
  <2>1. tenure[w] # NoTenure /\ tenure'[w] = [tenure[w] EXCEPT !.age = Older(@)]
    BY <1>1 DEF Tick
  <2>2. QED
    BY <2>1, PartsType DEF OwnerInv, Tenure
<1>2. ASSUME NEW w \in Workers, request'[w] # NoRequest
      PROVE  /\ request[w] # NoRequest /\ request[w].id \in Ids /\ request[w].age \in Ages
             /\ request'[w].id = request[w].id /\ request'[w].age = Older(request[w].age)
             /\ request'[w].kind = request[w].kind /\ request'[w].phase = request[w].phase
  <2>1. request[w] # NoRequest /\ request'[w] = [request[w] EXCEPT !.age = Older(@)]
    BY <1>2 DEF Tick
  <2>2. QED
    BY <2>1, PartsType DEF OwnerInv, Request
<1>3. ASSUME NEW j \in Ids, NEW a \in Ages, Backed(j, a)
      PROVE  Older(a) < TTL => dbOwner' = j /\ dbLeft' >= TTL - Older(a)
  <2>1. Older(a) < TTL => Older(a) = a + 1 /\ a < TTL
    BY OlderType DEF Ages
  <2>2. dbLeft' = (IF dbLeft > 0 THEN dbLeft - 1 ELSE 0) /\ dbOwner' = dbOwner /\ dbLeft \in Nat
    BY DEF Tick, OwnerInv, TypeOK, Ages
  <2>3. QED
    BY <1>3, <2>1, <2>2 DEF Backed, Ages
<1>4. TenureInv'
  BY <1>1, <1>3 DEF Tick, OwnerInv, TenureInv, Backed
<1>5. RequestInv'
  <2>1. \A w \in Workers : tenure[w] = NoTenure => tenure'[w] = NoTenure
    BY DEF Tick
  <2>2. QED
    BY <2>1, <1>1, <1>2, <1>3 DEF OwnerInv, RequestInv, Backed
<1>6. LeavingInv'
  BY DEF Tick, OwnerInv, LeavingInv
<1>7. OrphanInv'
  BY <1>1, <1>2 DEF Tick, OwnerInv, OrphanInv
<1>8. ActiveInv'
  BY <1>1, <1>2 DEF Tick, OwnerInv, ActiveInv
<1>9. QED
  BY <1>4, <1>5, <1>6, <1>7, <1>8 DEF OwnerParts

(* The database executes a call that is still awaited. *)
LEMMA ExecuteInv ==
  ASSUME OwnerInv, NEW w \in Workers, Execute(w)
  PROVE  OwnerParts'
<1> DEFINE kind == request[w].kind
           id == request[w].id
<1>1. /\ request[w] \in Request /\ id \in Ids /\ request[w].age \in Ages
      /\ kind \in {"claim", "renew", "release"} /\ request[w].phase = "sent"
      /\ request[w] # NoRequest /\ Apply(kind, id)
  BY PartsType DEF Execute, OwnerInv
<1>2. /\ request'[w] # NoRequest /\ request'[w].id = id /\ request'[w].age = request[w].age
      /\ request'[w].kind = kind
      /\ request'[w].phase = IF Accepts(kind, id) THEN "accepted" ELSE "refused"
  <2>1. request'[w] = [request[w] EXCEPT !.phase =
            IF Accepts(kind, id) THEN "accepted" ELSE "refused"]
    BY DEF Execute, OwnerInv, TypeOK
  <2>2. \A p \in {"accepted", "refused"} : [request[w] EXCEPT !.phase = p] \in Request
    BY <1>1 DEF Request
  <2>3. QED
    BY <1>1, <2>1, <2>2 DEF Request
<1>3. \A v \in Workers : v # w => request'[v] = request[v]
  BY DEF Execute, OwnerInv, TypeOK
<1>4. UNCHANGED <<tenure, active, stopped, leaving, orphans>>
  BY DEF Execute
<1>5. ASSUME NEW v \in Workers, tenure[v] # NoTenure
      PROVE  Backed(tenure[v].id, tenure[v].age)'
  <2>1. kind = "release" => id # tenure[v].id
    BY <1>1, <1>5 DEF OwnerInv, RequestInv, TenureInv
  <2>2. tenure[v].id \in Ids /\ tenure[v].age \in Ages /\ Backed(tenure[v].id, tenure[v].age)
    BY <1>5, PartsType DEF OwnerInv, TenureInv
  <2>3. tenure[v].age < TTL => dbOwner' = tenure[v].id /\ dbLeft' >= TTL - tenure[v].age
    BY <1>1, <2>1, <2>2, ApplyBacked DEF OwnerInv
  <2>4. QED
    BY <1>4, <2>3 DEF Backed
<1>6. ASSUME NEW v \in Workers, request'[v] # NoRequest,
             request'[v].kind # "release", request'[v].phase = "accepted"
      PROVE  Backed(request[v].id, request[v].age)'
  <2>1. CASE v = w
    <3>1. dbOwner' = id /\ dbLeft' = TTL
      BY <1>1, <1>2, <1>6, <2>1, ApplyType DEF OwnerInv
    <3>2. QED
      BY <1>1, <1>2, <2>1, <3>1 DEF Backed, Ages
  <2>2. CASE v # w
    <3>1. kind = "release" => id # request[v].id
      BY <1>1, <1>3, <1>6, <2>2 DEF OwnerInv, RequestInv
    <3>2. request[v].id \in Ids /\ request[v].age \in Ages /\ Backed(request[v].id, request[v].age)
      BY <1>3, <1>6, <2>2, PartsType DEF OwnerInv, RequestInv
    <3>3. request[v].age < TTL => dbOwner' = request[v].id /\ dbLeft' >= TTL - request[v].age
      BY <1>1, <3>1, <3>2, ApplyBacked DEF OwnerInv
    <3>4. QED
      BY <1>3, <2>2, <3>3 DEF Backed
  <2>3. QED
    BY <2>1, <2>2
<1>7. TenureInv'
  BY <1>4, <1>5 DEF OwnerInv, TenureInv
<1>8. RequestInv'
  BY <1>1, <1>2, <1>3, <1>4, <1>6 DEF OwnerInv, RequestInv
<1>9. LeavingInv' /\ OrphanInv' /\ ActiveInv'
  BY <1>1, <1>2, <1>3, <1>4 DEF OwnerInv, LeavingInv, OrphanInv, ActiveInv
<1>10. QED
  BY <1>7, <1>8, <1>9 DEF OwnerParts

(* The database executes, or drops, a call whose caller gave up. *)
LEMMA OrphanStepInv ==
  ASSUME OwnerInv, NEW o \in orphans, ExecuteOrphan(o)
  PROVE  OwnerParts'
<1>1. o.kind \in {"claim", "renew", "release"} /\ o.id \in Ids
  BY DEF OwnerInv, TypeOK, Orphan
<1>2. UNCHANGED <<tenure, request, active, stopped, leaving>> /\ orphans' \subseteq orphans
  BY DEF ExecuteOrphan
<1>3. ASSUME NEW j \in Ids, NEW a \in Ages, Backed(j, a), o.kind = "release" => o.id # j
      PROVE  a < TTL => dbOwner' = j /\ dbLeft' >= TTL - a
  <2>1. CASE Apply(o.kind, o.id)
    BY <1>1, <1>3, <2>1, ApplyBacked DEF OwnerInv
  <2>2. CASE UNCHANGED <<dbOwner, dbLeft>>
    BY <1>3, <2>2 DEF Backed
  <2>3. QED
    BY <2>1, <2>2 DEF ExecuteOrphan
<1>4. TenureInv'
  <2>1. SUFFICES ASSUME NEW v \in Workers, tenure[v] # NoTenure
                 PROVE  Backed(tenure[v].id, tenure[v].age)'
    BY <1>2 DEF OwnerInv, TenureInv
  <2>2. tenure[v].id \in Ids /\ tenure[v].age \in Ages /\ Backed(tenure[v].id, tenure[v].age)
    BY <2>1, PartsType DEF OwnerInv, TenureInv
  <2>3. o.kind = "release" => o.id # tenure[v].id
    BY <2>1 DEF OwnerInv, OrphanInv
  <2>4. QED
    BY <1>2, <1>3, <2>2, <2>3 DEF Backed
<1>5. RequestInv'
  <2>1. SUFFICES ASSUME NEW v \in Workers, request[v] # NoRequest,
                        request[v].kind # "release", request[v].phase = "accepted"
                 PROVE  Backed(request[v].id, request[v].age)'
    BY <1>2 DEF OwnerInv, RequestInv
  <2>2. request[v].id \in Ids /\ request[v].age \in Ages /\ Backed(request[v].id, request[v].age)
    BY <2>1, PartsType DEF OwnerInv, RequestInv
  <2>3. o.kind = "release" => o.id # request[v].id
    BY <2>1 DEF OwnerInv, OrphanInv
  <2>4. QED
    BY <1>2, <1>3, <2>2, <2>3 DEF Backed
<1>6. LeavingInv' /\ OrphanInv' /\ ActiveInv'
  BY <1>2 DEF OwnerInv, LeavingInv, OrphanInv, ActiveInv
<1>7. QED
  BY <1>4, <1>5, <1>6 DEF OwnerParts

(* What a worker does on its own side leaves the row alone. *)
LEMMA WorkerInv ==
  ASSUME OwnerInv, NEW w \in Workers,
         Heartbeat(w) \/ CallFails(w) \/ Launch(w) \/ (\E i \in Ids : StorageFails(w, i))
           \/ Stop(w) \/ Crash(w)
  PROVE  OwnerParts'
<1> USE DEF OwnerParts, OwnerInv
<1>t. /\ tenure \in [Workers -> Tenure \cup {NoTenure}]
      /\ request \in [Workers -> Request \cup {NoRequest}]
      /\ active \in [Workers -> SUBSET Ids] /\ stopped \in [Workers -> BOOLEAN]
      /\ leaving \in [Workers -> Ids \cup {NoId}]
  BY DEF TypeOK
<1>p. /\ tenure[w] # NoTenure => tenure[w].id \in Ids
      /\ request[w] # NoRequest => request[w].id \in Ids
  BY PartsType
<1>1. ASSUME NEW i \in Ids, SendClaim(w, i)
      PROVE  OwnerParts'
  <2>1. /\ request'[w] # NoRequest /\ request'[w].id = i /\ request'[w].kind = "claim"
        /\ request'[w].phase = "sent" /\ WorkerOf[i] = w /\ tenure[w] = NoTenure /\ active[w] = {}
    BY <1>1, <1>t, CallType DEF SendClaim
  <2>2. /\ \A v \in Workers : v # w => request'[v] = request[v]
        /\ UNCHANGED <<dbOwner, dbLeft, tenure, active, stopped, leaving, orphans>>
    BY <1>1, <1>t DEF SendClaim
  <2>3. \A o \in orphans : o.id # i
    BY <1>1 DEF SendClaim, Fresh
  <2>4. QED
    BY <2>1, <2>2, <2>3 DEF TenureInv, RequestInv, LeavingInv, OrphanInv, ActiveInv, Backed
<1>2. CASE SendRenew(w)
  <2>1. /\ request'[w] # NoRequest /\ request'[w].id = tenure[w].id /\ request'[w].kind = "renew"
        /\ request'[w].phase = "sent" /\ tenure[w] # NoTenure
    BY <1>2, <1>t, <1>p, CallType DEF SendRenew, Current
  <2>2. /\ \A v \in Workers : v # w => request'[v] = request[v]
        /\ UNCHANGED <<dbOwner, dbLeft, tenure, active, stopped, leaving, orphans>>
    BY <1>2, <1>t DEF SendRenew
  <2>3. QED
    BY <2>1, <2>2 DEF TenureInv, RequestInv, LeavingInv, OrphanInv, ActiveInv, Backed
<1>3. CASE Execute(w)
  BY <1>3, ExecuteInv
<1>4. CASE Claimed(w)
  <2>1. /\ request[w] # NoRequest /\ request[w].kind = "claim" /\ request[w].phase = "accepted"
        /\ tenure[w] = NoTenure /\ active[w] = {} /\ WorkerOf[request[w].id] = w
        /\ Backed(request[w].id, request[w].age)
    BY <1>4 DEF Claimed, RequestInv, ActiveInv
  <2>2. /\ \A v \in Workers : v # w => request'[v] = request[v] /\ tenure'[v] = tenure[v]
        /\ UNCHANGED <<dbOwner, dbLeft, active, stopped, leaving, orphans>>
    BY <1>4, <1>t DEF Claimed
  <2>3. CASE stopped[w] \/ request[w].age = TTL
    <3>1. /\ request'[w] # NoRequest /\ request'[w].id = request[w].id
          /\ request'[w].kind = "release" /\ tenure'[w] = NoTenure
      BY <1>4, <1>t, <1>p, <2>1, <2>3, CallType DEF Claimed
    <3>2. QED
      BY <2>1, <2>2, <3>1 DEF TenureInv, RequestInv, LeavingInv, OrphanInv, ActiveInv, Backed
  <2>4. CASE ~(stopped[w] \/ request[w].age = TTL)
    <3>1. /\ request'[w] = NoRequest /\ tenure'[w].id = request[w].id
          /\ tenure'[w].age = request[w].age /\ ~stopped[w]
      BY <1>4, <1>t, <2>4 DEF Claimed
    <3>2. TenureInv'
      BY <2>1, <2>2, <3>1 DEF TenureInv, Backed
    <3>3. RequestInv' /\ LeavingInv'
      BY <2>1, <2>2, <3>1 DEF RequestInv, LeavingInv, Backed
    <3>4. OrphanInv' /\ ActiveInv'
      BY <2>1, <2>2, <3>1 DEF OrphanInv, ActiveInv
    <3>5. QED
      BY <3>2, <3>3, <3>4
  <2>5. QED
    BY <2>3, <2>4
<1>5. CASE NotClaimed(w)
  <2>1. /\ request' = [request EXCEPT ![w] = NoRequest] /\ tenure[w] = NoTenure
        /\ stopped' = [stopped EXCEPT ![w] = @ \/ ~MultiReplica]
        /\ UNCHANGED <<dbOwner, dbLeft, tenure, active, leaving, orphans>>
    BY <1>5 DEF NotClaimed, RequestInv
  <2>2. QED
    BY <1>t, <2>1 DEF TenureInv, RequestInv, LeavingInv, OrphanInv, ActiveInv, Backed
<1>6. CASE Renewed(w)
  <2>1. /\ request' = [request EXCEPT ![w] = NoRequest]
        /\ UNCHANGED <<dbOwner, dbLeft, active, leaving, orphans>>
        /\ request[w] # NoRequest /\ request[w].kind # "release" /\ request[w].phase = "accepted"
    BY <1>6 DEF Renewed
  <2>2. CASE Current(w)
    <3>x. ~Expired(w)
      BY <1>t, <2>2, OwnerAssumption DEF Current, Expired, Tenure, Ages
    <3>s. stopped' = stopped
      BY <1>6, <2>2, <3>x DEF Renewed, Current
    <3>1. tenure[w] # NoTenure /\ tenure[w] \in Tenure /\ tenure'[w] = [tenure[w] EXCEPT !.age = request[w].age]
      BY <1>6, <1>t, <2>2, <3>x DEF Renewed, Current
    <3>2. tenure'[w].id = tenure[w].id /\ tenure'[w].age = request[w].age
      BY <3>1 DEF Tenure
    <3>3. \A v \in Workers : v # w => tenure'[v] = tenure[v]
      BY <1>6, <1>t, <2>2, <3>x DEF Renewed, Current
    <3>4. Backed(request[w].id, request[w].age) /\ tenure[w].id = request[w].id
      BY <2>1, <3>1 DEF RequestInv
    <3>n. tenure[w] # NoTenure
      BY <3>1
    <3>5. TenureInv'
      <4>1. Backed(tenure[w].id, tenure[w].age)'
        BY <2>1, <3>2, <3>4 DEF Backed
      <4>2. ~stopped'[w] /\ WorkerOf[tenure'[w].id] = w
        BY <2>1, <3>n, <3>s, <3>2 DEF TenureInv
      <4>3. QED
        BY <2>1, <3>3, <3>s, <4>1, <4>2 DEF TenureInv, Backed
    <3>6. RequestInv' /\ LeavingInv'
      BY <1>t, <2>1, <3>s, <3>1, <3>2, <3>3 DEF RequestInv, LeavingInv, Backed
    <3>r. \A v \in Workers : v # w => request'[v] = request[v]
      BY <1>t, <2>1
    <3>q. request'[w] = NoRequest
      BY <1>t, <2>1
    <3>7. OrphanInv' /\ ActiveInv'
      <4>1. OrphanInv'
        BY <2>1, <3>n, <3>2, <3>3, <3>r, <3>q DEF OrphanInv
      <4>2. ActiveInv'
        BY <2>1, <3>n, <3>2, <3>3, <3>r, <3>q DEF ActiveInv
      <4>3. QED
        BY <4>1, <4>2
    <3>8. QED
      BY <3>5, <3>6, <3>7
  <2>3. CASE ~Current(w)
    <3>1. /\ tenure' = [tenure EXCEPT ![w] = NoTenure]
          /\ \A v \in Workers : v # w => stopped'[v] = stopped[v]
          /\ stopped[w] => stopped'[w]
      BY <1>6, <1>t, <2>3 DEF Renewed, LoseOwnership
    <3>2. QED
      BY <1>t, <2>1, <3>1 DEF TenureInv, RequestInv, LeavingInv, OrphanInv, ActiveInv, Backed
  <2>4. QED
    BY <2>2, <2>3
<1>7. CASE NotRenewed(w)
  <2>1. /\ request' = [request EXCEPT ![w] = NoRequest]
        /\ tenure' = [tenure EXCEPT ![w] = NoTenure]
        /\ \A v \in Workers : v # w => stopped'[v] = stopped[v]
        /\ stopped[w] => stopped'[w]
        /\ UNCHANGED <<dbOwner, dbLeft, active, leaving, orphans>>
    BY <1>7, <1>t DEF NotRenewed, LoseOwnership
  <2>2. QED
    BY <1>t, <2>1 DEF TenureInv, RequestInv, LeavingInv, OrphanInv, ActiveInv, Backed
<1>8. CASE Released(w)
  <2>1. /\ request' = [request EXCEPT ![w] = NoRequest] /\ tenure[w] = NoTenure
        /\ \A v \in Workers : v # w => stopped'[v] = stopped[v] /\ leaving'[v] = leaving[v]
        /\ stopped[w] => stopped'[w]
        /\ leaving'[w] \in {leaving[w], NoId}
        /\ UNCHANGED <<dbOwner, dbLeft, tenure, active, orphans>>
    BY <1>8, <1>t DEF Released, RequestInv
  <2>2. QED
    BY <1>t, <2>1 DEF TenureInv, RequestInv, LeavingInv, OrphanInv, ActiveInv, Backed
<1>9. CASE Expire(w) \/ \E i \in Ids : StorageFails(w, i)
  <2>1. /\ tenure' = [tenure EXCEPT ![w] = NoTenure]
        /\ \A v \in Workers : v # w => stopped'[v] = stopped[v]
        /\ stopped[w] => stopped'[w]
        /\ UNCHANGED <<dbOwner, dbLeft, request, active, leaving, orphans>>
    BY <1>9, <1>t DEF Expire, Expired, StorageFails, LoseOwnership
  <2>2. QED
    BY <1>t, <2>1 DEF TenureInv, RequestInv, LeavingInv, OrphanInv, ActiveInv, Backed
<1>10. CASE StepEnds(w)
  <2>1. /\ \A v \in Workers : active'[v] \subseteq active[v]
        /\ UNCHANGED <<dbOwner, dbLeft, tenure, request, stopped, leaving, orphans>>
    BY <1>10, <1>t DEF StepEnds
  <2>2. QED
    BY <2>1 DEF TenureInv, RequestInv, LeavingInv, OrphanInv, ActiveInv, Backed
<1>11. CASE StopDrained(w)
  <2>1. /\ UNCHANGED <<dbOwner, dbLeft, tenure, active, stopped, leaving, orphans>>
        /\ \A v \in Workers : v # w => request'[v] = request[v]
        /\ request[w] = NoRequest
    BY <1>11, <1>t DEF StopDrained
  <2>2. CASE leaving[w] # NoId
    <3>1. /\ request'[w] # NoRequest /\ request'[w].id = leaving[w] /\ request'[w].kind = "release"
      BY <1>11, <1>t, <2>2, CallType DEF StopDrained
    <3>2. tenure[w] = NoTenure /\ WorkerOf[leaving[w]] = w
      BY <2>2 DEF LeavingInv, TenureInv
    <3>3. QED
      BY <2>1, <3>1, <3>2 DEF TenureInv, RequestInv, LeavingInv, OrphanInv, ActiveInv, Backed
  <2>3. CASE leaving[w] = NoId
    <3>1. request' = request
      BY <1>11, <2>3 DEF StopDrained
    <3>2. QED
      BY <2>1, <3>1 DEF TenureInv, RequestInv, LeavingInv, OrphanInv, ActiveInv, Backed
  <2>4. QED
    BY <2>2, <2>3
<1>12. CASE CallFails(w) \/ Crash(w)
  <2>1. /\ UNCHANGED <<dbOwner, dbLeft>>
        /\ request' = [request EXCEPT ![w] = NoRequest]
        /\ \A v \in Workers : v # w => /\ stopped'[v] = stopped[v] /\ leaving'[v] = leaving[v]
                                       /\ tenure'[v] = tenure[v] /\ active'[v] = active[v]
        /\ active'[w] \subseteq active[w]
        /\ tenure'[w] = NoTenure
        /\ leaving'[w] = NoId \/ (leaving'[w] = leaving[w] /\ (stopped[w] => stopped'[w]))
    <3>1. CASE CallFails(w)
      <4>1. tenure'[w] = NoTenure
        BY <1>t, <3>1 DEF CallFails, RequestInv
      <4>2. QED
        BY <1>t, <3>1, <4>1 DEF CallFails
    <3>2. CASE Crash(w)
      BY <1>t, <3>2 DEF Crash
    <3>3. QED
      BY <1>12, <3>1, <3>2
  <2>2. ASSUME NEW o \in orphans', o \notin orphans, o.kind = "release"
        PROVE  WorkerOf[o.id] = w
    <3>1. request[w] # NoRequest /\ o = [kind |-> request[w].kind, id |-> request[w].id]
      BY <1>12, <2>2 DEF CallFails, Crash
    <3>2. QED
      BY <3>1 DEF RequestInv
  <2>3. TenureInv'
    BY <1>t, <2>1 DEF TenureInv, Backed
  <2>4. RequestInv' /\ LeavingInv'
    BY <1>t, <2>1 DEF RequestInv, LeavingInv, Backed
  <2>5. OrphanInv'
    BY <1>t, <2>1, <2>2 DEF OrphanInv, TenureInv, RequestInv
  <2>6. ActiveInv'
    BY <1>t, <2>1 DEF ActiveInv
  <2>7. QED
    BY <2>3, <2>4, <2>5, <2>6
<1>13. CASE Launch(w)
  <2>1. /\ UNCHANGED <<dbOwner, dbLeft, tenure, request, stopped, leaving, orphans>>
        /\ active' = [active EXCEPT ![w] = @ \cup {tenure[w].id}]
        /\ tenure[w] # NoTenure
    BY <1>13 DEF Launch, Current
  <2>2. ActiveInv'
    BY <1>t, <2>1 DEF ActiveInv, RequestInv
  <2>3. QED
    BY <2>1, <2>2 DEF TenureInv, RequestInv, LeavingInv, OrphanInv, Backed
<1>14. CASE Stop(w)
  <2>1. /\ UNCHANGED <<dbOwner, dbLeft, request, active, orphans>>
        /\ tenure' = [tenure EXCEPT ![w] = NoTenure]
        /\ stopped' = [stopped EXCEPT ![w] = TRUE]
        /\ leaving' = [leaving EXCEPT ![w] = IF tenure[w] # NoTenure THEN tenure[w].id ELSE NoId]
    BY <1>14 DEF Stop
  <2>2. LeavingInv'
    BY <1>t, <2>1 DEF LeavingInv, TenureInv
  <2>3. QED
    BY <1>t, <2>1, <2>2 DEF TenureInv, RequestInv, OrphanInv, ActiveInv, Backed
<1>15. QED
  BY <1>1, <1>2, <1>3, <1>4, <1>5, <1>6, <1>7, <1>8, <1>9, <1>10, <1>11, <1>12, <1>13,
     <1>14 DEF Heartbeat

-----------------------------------------------------------------------------
(* Every step keeps the invariant. *)
LEMMA NextInv ==
  ASSUME OwnerInv, [Next]_vars
  PROVE  OwnerInv'
<1>1. TypeOK'
  BY NextType DEF OwnerInv
<1>2. OwnerParts'
  <2>1. CASE UNCHANGED vars
    BY <2>1 DEF vars, OwnerInv, OwnerParts, TenureInv, RequestInv, LeavingInv, OrphanInv,
                ActiveInv, Backed
  <2>2. QED
    BY <2>1, TickInv, OrphanStepInv, WorkerInv DEF Next
<1>3. QED
  BY <1>1, <1>2 DEF OwnerInv, OwnerParts

(* The inductive invariant of worker ownership holds in every behaviour of
   ensureOwner, renewTenure, loseOwnership and stop. *)
THEOREM OwnershipInvariant == Spec => []OwnerInv
<1>1. Init => OwnerInv
  BY DEF Init, OwnerInv, TypeOK, TenureInv, RequestInv, LeavingInv, OrphanInv, ActiveInv, Ages
<1>2. OwnerInv /\ [Next]_vars => OwnerInv'
  BY NextInv
<1>3. QED
  BY <1>1, <1>2, PTL DEF Spec

(* A worker whose isCurrentTenure() holds is the owner in the database, and
   the row outlives the tenure. *)
THEOREM LocalTenureIsBacked == Spec => []TenureIsBacked
<1>1. OwnerInv => TenureIsBacked
  BY DEF OwnerInv, TenureInv, Backed, TenureIsBacked, Current
<1>2. QED
  BY <1>1, OwnershipInvariant, PTL

(* Two workers never schedule at the same instant. *)
THEOREM AtMostOneOwner == Spec => []OneLocalOwner
<1>1. OwnerInv => OneLocalOwner
  <2>1. SUFFICES ASSUME OwnerInv, NEW v \in Workers, NEW w \in Workers, Current(v), Current(w)
                 PROVE  v = w
    BY DEF OneLocalOwner
  <2>2. dbOwner = tenure[v].id /\ dbOwner = tenure[w].id
    BY <2>1 DEF OwnerInv, TenureInv, Backed, Current
  <2>3. WorkerOf[tenure[v].id] = v /\ WorkerOf[tenure[w].id] = w
    BY <2>1 DEF OwnerInv, TenureInv, Current
  <2>4. QED
    BY <2>2, <2>3
<1>2. QED
  BY <1>1, OwnershipInvariant, PTL

(* The running steps of a worker all belong to its present tenure. *)
THEOREM StepsAreOfOneTenure == Spec => []StepsOfOneTenure
<1>1. OwnerInv => StepsOfOneTenure
  BY DEF OwnerInv, ActiveInv, StepsOfOneTenure
<1>2. QED
  BY <1>1, OwnershipInvariant, PTL

-----------------------------------------------------------------------------
(* How a worker that stops comes to leave no row behind. *)

(* Once stop() is under way the tenure is set aside, and it is done when the
   pending call has been awaited and the tenure given back. *)
StopInv ==
  \A w \in Workers :
    /\ stopState[w] # "no" => stopped[w] /\ tenure[w] = NoTenure
    /\ stopState[w] = "done" => request[w] = NoRequest /\ leaving[w] = NoId
    /\ leaving[w] # NoId => stopState[w] = "draining"

(* The row that names worker w is one that w still knows of: its tenure, the
   tenure stop() gives back, a claim whose answer is on its way, or a release
   that is. *)
RowIsKnown(w) ==
  \/ tenure[w] # NoTenure /\ tenure[w].id = dbOwner
  \/ leaving[w] = dbOwner
  \/ /\ request[w] # NoRequest /\ request[w].id = dbOwner
     /\ \/ request[w].kind = "claim" /\ request[w].phase = "accepted"
        \/ request[w].kind = "release" /\ request[w].phase = "sent"

(* What holds of a worker that has lost no call and no tenure.  An executed
   release leaves no row of its id. *)
Handed(w) ==
  ~lost[w] =>
    /\ dbOwner # NoId /\ WorkerOf[dbOwner] = w => RowIsKnown(w)
    /\ request[w] # NoRequest /\ request[w].kind = "release" /\ request[w].phase # "sent"
         => dbOwner # request[w].id

OrphansAreLost == \A o \in orphans : lost[WorkerOf[o.id]]

HandoverInv == StopInv /\ OrphansAreLost /\ \A w \in Workers : Handed(w)

(* stop() and what ends it keep its own books. *)
LEMMA StopStep ==
  ASSUME OwnerInv, StopInv, [Next]_vars
  PROVE  StopInv'
<1>1. /\ TypeOK
      /\ \A w \in Workers : leaving[w] # NoId => stopped[w]
  BY DEF OwnerInv, LeavingInv
<1>2. CASE UNCHANGED vars \/ (\E o \in orphans : ExecuteOrphan(o))
  BY <1>2 DEF vars, ExecuteOrphan, StopInv
<1>3. CASE Tick
  BY <1>3 DEF Tick, StopInv
<1>4. ASSUME NEW w \in Workers,
             Heartbeat(w) \/ CallFails(w) \/ Launch(w) \/ (\E i \in Ids : StorageFails(w, i))
               \/ Stop(w) \/ Crash(w)
      PROVE  StopInv'
  <2>1. /\ stopState \in [Workers -> {"no", "draining", "done"}] /\ stopped \in [Workers -> BOOLEAN]
        /\ leaving \in [Workers -> Ids \cup {NoId}] /\ tenure \in [Workers -> Tenure \cup {NoTenure}]
        /\ request \in [Workers -> Request \cup {NoRequest}]
        /\ request[w] # NoRequest => request[w].id \in Ids
    BY <1>1, PartsType DEF TypeOK
  <2>2. CASE \E i \in Ids : SendClaim(w, i)
    BY <2>1, <2>2 DEF SendClaim, StopInv
  <2>3. CASE SendRenew(w) \/ Execute(w) \/ Launch(w) \/ StepEnds(w)
    BY <2>1, <2>3 DEF SendRenew, Execute, Launch, StepEnds, Current, StopInv
  <2>4. CASE Claimed(w)
    BY <2>1, <2>4 DEF Claimed, StopInv
  <2>5. CASE NotClaimed(w)
    BY <2>1, <2>5 DEF NotClaimed, StopInv
  <2>6. CASE Renewed(w)
    BY <2>1, <2>6 DEF Renewed, Current, Expired, LoseOwnership, StopInv
  <2>7. CASE NotRenewed(w)
    BY <2>1, <2>7 DEF NotRenewed, LoseOwnership, StopInv
  <2>8. CASE Released(w)
    BY <2>1, <2>8 DEF Released, StopInv
  <2>9. CASE Expire(w) \/ (\E i \in Ids : StorageFails(w, i))
    BY <2>1, <2>9 DEF Expire, StorageFails, LoseOwnership, StopInv
  <2>10. CASE StopDrained(w)
    BY <2>1, <2>10 DEF StopDrained, StopInv
  <2>11. CASE CallFails(w)
    BY <2>1, <2>11 DEF CallFails, StopInv
  <2>12. CASE Stop(w)
    BY <2>1, <2>12 DEF Stop, StopInv
  <2>13. CASE Crash(w)
    BY <2>1, <2>13 DEF Crash, StopInv
  <2> QED
    BY <1>4, <2>2, <2>3, <2>4, <2>5, <2>6, <2>7, <2>8, <2>9, <2>10, <2>11, <2>12, <2>13 DEF Heartbeat
<1> QED
  BY <1>2, <1>3, <1>4 DEF Next

(* Nothing is forgotten: a worker is lost for good, and whatever it abandons
   makes it so. *)
LEMMA OrphansStep ==
  ASSUME OwnerInv, OrphansAreLost, [Next]_vars
  PROVE  OrphansAreLost' /\ \A w \in Workers : lost[w] => lost'[w]
<1>1. TypeOK /\ lost \in [Workers -> BOOLEAN] /\ \A o \in orphans : WorkerOf[o.id] \in Workers
  BY DEF OwnerInv, TypeOK, Orphan
<1>2. CASE UNCHANGED <<orphans, lost>>
  BY <1>2 DEF OrphansAreLost
<1>3. CASE \E o \in orphans : ExecuteOrphan(o)
  BY <1>3 DEF ExecuteOrphan, OrphansAreLost
<1>4. ASSUME NEW w \in Workers, lost' = [lost EXCEPT ![w] = TRUE],
             \/ orphans' = orphans
             \/ /\ request[w] # NoRequest
                /\ orphans' = orphans \cup {[kind |-> request[w].kind, id |-> request[w].id]}
      PROVE  OrphansAreLost' /\ \A v \in Workers : lost[v] => lost'[v]
  <2>1. request[w] # NoRequest => WorkerOf[request[w].id] = w
    BY DEF OwnerInv, RequestInv
  <2>2. \A v \in Workers : (lost[v] \/ v = w) => lost'[v]
    BY <1>1, <1>4, Zenon
  <2>3. ASSUME NEW o \in orphans' PROVE lost'[WorkerOf[o.id]]
    <3>1. CASE o \in orphans
      BY <1>1, <2>2, <3>1 DEF OrphansAreLost
    <3>2. CASE o \notin orphans
      <4>1. o.id = request[w].id /\ request[w] # NoRequest
        BY <1>4, <3>2
      <4> QED
        BY <2>1, <2>2, <4>1
    <3> QED
      BY <3>1, <3>2
  <2> QED
    BY <2>2, <2>3 DEF OrphansAreLost
<1>5. ASSUME NEW w \in Workers,
             Heartbeat(w) \/ CallFails(w) \/ Launch(w) \/ (\E i \in Ids : StorageFails(w, i))
               \/ Stop(w) \/ Crash(w)
      PROVE  OrphansAreLost' /\ \A v \in Workers : lost[v] => lost'[v]
  <2>1. CASE \/ (\E i \in Ids : SendClaim(w, i)) \/ SendRenew(w) \/ Execute(w) \/ Claimed(w) \/ NotClaimed(w)
             \/ Released(w) \/ StepEnds(w) \/ StopDrained(w) \/ Launch(w) \/ Stop(w)
    BY <1>2, <2>1 DEF SendClaim, SendRenew, Execute, Claimed, NotClaimed, Released, StepEnds, StopDrained,
                      Launch, Stop
  <2>2. CASE Renewed(w) \/ NotRenewed(w) \/ Expire(w)
    BY <1>2, <1>4, <2>2 DEF Renewed, NotRenewed, Expire, LoseOwnership
  <2>3. CASE \E i \in Ids : StorageFails(w, i)
    BY <1>4, <2>3 DEF StorageFails, LoseOwnership
  <2>4. CASE CallFails(w)
    BY <1>4, <2>4 DEF CallFails
  <2>5. CASE Crash(w)
    BY <1>4, <2>5 DEF Crash
  <2> QED
    BY <1>5, <2>1, <2>2, <2>3, <2>4, <2>5 DEF Heartbeat
<1> QED
  BY <1>2, <1>3, <1>5 DEF Next, Tick, vars

(* A worker whose own state the step leaves alone still knows of its row,
   unless the step puts the row in its name. *)
LEMMA HandedStays ==
  ASSUME NEW v \in Workers, Handed(v), lost[v] => lost'[v],
         tenure'[v] = tenure[v], leaving'[v] = leaving[v], request'[v] = request[v],
         dbOwner' = dbOwner \/ dbOwner' = NoId \/ (dbOwner' \in Ids /\ WorkerOf[dbOwner'] # v),
         request[v] # NoRequest => WorkerOf[request[v].id] = v /\ request[v].id \in Ids
  PROVE  Handed(v)'
BY DEF Handed, RowIsKnown

(* Every step keeps the books of the handover. *)
LEMMA HandoverStep ==
  ASSUME OwnerInv, HandoverInv, [Next]_vars
  PROVE  HandoverInv'
<1>1. StopInv' /\ OrphansAreLost' /\ \A w \in Workers : lost[w] => lost'[w]
  BY StopStep, OrphansStep DEF HandoverInv
<1>2. /\ TypeOK
      /\ \A w \in Workers : /\ request[w] # NoRequest => WorkerOf[request[w].id] = w /\ request[w].id \in Ids
                            /\ tenure[w] # NoTenure => ~stopped[w]
                            /\ leaving[w] # NoId => stopState[w] = "draining"
                            /\ Handed(w)
  BY PartsType DEF OwnerInv, TenureInv, RequestInv, HandoverInv, StopInv
<1>3. CASE UNCHANGED <<dbOwner, tenure, leaving, request>>
  BY <1>1, <1>2, <1>3, HandedStays DEF HandoverInv
<1>4. CASE Tick
  <2>1. ASSUME NEW w \in Workers PROVE Handed(w)'
    <3>1. /\ dbOwner' = dbOwner /\ leaving' = leaving
          /\ tenure'[w] = NoTenure <=> tenure[w] = NoTenure
          /\ request'[w] = NoRequest <=> request[w] = NoRequest
          /\ tenure[w] # NoTenure => tenure'[w].id = tenure[w].id
          /\ request[w] # NoRequest => /\ request'[w].id = request[w].id
                                       /\ request'[w].kind = request[w].kind
                                       /\ request'[w].phase = request[w].phase
      <4>1. /\ dbOwner' = dbOwner /\ leaving' = leaving
            /\ tenure'[w] = IF tenure[w] = NoTenure THEN NoTenure ELSE [tenure[w] EXCEPT !.age = Older(@)]
            /\ request'[w] = IF request[w] = NoRequest THEN NoRequest ELSE [request[w] EXCEPT !.age = Older(@)]
        BY <1>4 DEF Tick
      <4>2. tenure[w] # NoTenure => tenure[w] \in Tenure /\ Older(tenure[w].age) \in Ages
        BY <1>2, PartsType, OlderType
      <4>3. request[w] # NoRequest => request[w] \in Request /\ Older(request[w].age) \in Ages
        BY <1>2, PartsType, OlderType
      <4>4. tenure[w] # NoTenure => tenure'[w] \in Tenure /\ tenure'[w].id = tenure[w].id
        BY <4>1, <4>2 DEF Tenure
      <4>5. request[w] # NoRequest => /\ request'[w] \in Request /\ request'[w].id = request[w].id
                                      /\ request'[w].kind = request[w].kind
                                      /\ request'[w].phase = request[w].phase
        BY <4>1, <4>3 DEF Request
      <4> QED
        BY <4>1, <4>4, <4>5
    <3> QED
      BY <1>1, <1>2, <3>1 DEF Handed, RowIsKnown
  <2> QED
    BY <1>1, <2>1 DEF HandoverInv
<1>5. ASSUME NEW o \in orphans, ExecuteOrphan(o) PROVE HandoverInv'
  <2>1. o.id \in Ids /\ WorkerOf[o.id] \in Workers /\ lost[WorkerOf[o.id]]
    BY <1>2 DEF TypeOK, Orphan, HandoverInv, OrphansAreLost
  <2>2. /\ UNCHANGED <<tenure, leaving, request, lost>>
        /\ dbOwner' = dbOwner \/ dbOwner' = NoId \/ dbOwner' = o.id
    BY <1>5 DEF ExecuteOrphan, Apply
  <2>3. ASSUME NEW w \in Workers PROVE Handed(w)'
    <3>1. CASE w = WorkerOf[o.id]
      BY <1>1, <2>1, <3>1 DEF Handed
    <3>2. CASE w # WorkerOf[o.id]
      BY <1>1, <1>2, <2>1, <2>2, <3>2, HandedStays
    <3> QED
      BY <3>1, <3>2
  <2> QED
    BY <1>1, <2>3 DEF HandoverInv
<1>6. ASSUME NEW w \in Workers,
             Heartbeat(w) \/ CallFails(w) \/ Launch(w) \/ (\E i \in Ids : StorageFails(w, i))
               \/ Stop(w) \/ Crash(w)
      PROVE  HandoverInv'
  <2>1. /\ leaving \in [Workers -> Ids \cup {NoId}] /\ tenure \in [Workers -> Tenure \cup {NoTenure}]
        /\ request \in [Workers -> Request \cup {NoRequest}]
        /\ lost \in [Workers -> BOOLEAN]
        /\ request[w] # NoRequest =>
             /\ request[w].id \in Ids /\ WorkerOf[request[w].id] = w
             /\ request[w] \in Request /\ request[w].kind \in {"claim", "renew", "release"}
             /\ request[w].phase \in {"sent", "accepted", "refused"}
    BY <1>2, PartsType DEF TypeOK
  <2>2. ASSUME dbOwner' = dbOwner \/ dbOwner' = NoId \/ (dbOwner' \in Ids /\ WorkerOf[dbOwner'] = w),
               \A v \in Workers \ {w} : /\ tenure'[v] = tenure[v] /\ leaving'[v] = leaving[v]
                                        /\ request'[v] = request[v],
               Handed(w)'
        PROVE  HandoverInv'
    <3>1. ASSUME NEW v \in Workers \ {w} PROVE Handed(v)'
      BY <1>1, <1>2, <2>2, HandedStays
    <3> QED
      BY <1>1, <2>2, <3>1 DEF HandoverInv
  <2>3. CASE Execute(w)
    <3>1. /\ request[w] # NoRequest /\ request[w].phase = "sent"
          /\ Apply(request[w].kind, request[w].id)
          /\ request' = [request EXCEPT ![w].phase =
               IF Accepts(request[w].kind, request[w].id) THEN "accepted" ELSE "refused"]
          /\ UNCHANGED <<tenure, leaving, lost>>
      BY <2>3 DEF Execute
    <3>2. /\ request'[w] # NoRequest /\ request'[w].id = request[w].id /\ request'[w].kind = request[w].kind
          /\ request'[w].phase = IF Accepts(request[w].kind, request[w].id) THEN "accepted" ELSE "refused"
      <4>1. request'[w] = [request[w] EXCEPT !.phase =
              IF Accepts(request[w].kind, request[w].id) THEN "accepted" ELSE "refused"]
        BY <2>1, <3>1
      <4>2. request[w] \in Request
        BY <2>1, <3>1
      <4>3. request'[w] \in Request
        BY <4>1, <4>2 DEF Request
      <4>4. /\ request'[w].id = request[w].id /\ request'[w].kind = request[w].kind
            /\ request'[w].phase = IF Accepts(request[w].kind, request[w].id) THEN "accepted" ELSE "refused"
        BY <4>1, <4>2 DEF Request
      <4> QED
        BY <4>3, <4>4
    <3>3. \A v \in Workers \ {w} : request'[v] = request[v]
      BY <2>1, <3>1
    <3>4. CASE request[w].kind = "claim"
      <4>1. CASE Accepts(request[w].kind, request[w].id)
        <5>1. dbOwner' = request[w].id
          BY <3>1, <3>4, <4>1 DEF Apply
        <5> QED
          BY <2>1, <2>2, <3>1, <3>2, <3>3, <3>4, <4>1, <5>1 DEF Handed, RowIsKnown
      <4>2. CASE ~Accepts(request[w].kind, request[w].id)
        <5>1. dbOwner' = dbOwner
          BY <3>1, <4>2 DEF Apply
        <5> QED
          BY <1>2, <2>1, <2>2, <3>1, <3>2, <3>3, <3>4, <4>2, <5>1 DEF Handed, RowIsKnown
      <4> QED
        BY <4>1, <4>2
    <3>5. CASE request[w].kind = "renew"
      <4>1. dbOwner' = dbOwner
        BY <3>1, <3>5 DEF Apply, Accepts
      <4> QED
        BY <1>2, <2>1, <2>2, <3>1, <3>2, <3>3, <3>5, <4>1 DEF Handed, RowIsKnown
    <3>6. CASE request[w].kind = "release"
      <4>1. CASE dbOwner = request[w].id
        <5>1. dbOwner' = NoId
          BY <3>1, <3>6, <4>1 DEF Apply, Accepts
        <5> QED
          BY <2>1, <2>2, <3>1, <3>2, <3>3, <3>6, <5>1 DEF Handed
      <4>2. CASE dbOwner # request[w].id
        <5>1. dbOwner' = dbOwner
          BY <3>1, <3>6, <4>2 DEF Apply, Accepts
        <5> QED
          BY <1>2, <2>1, <2>2, <3>1, <3>2, <3>3, <3>6, <4>2, <5>1 DEF Handed, RowIsKnown
      <4> QED
        BY <4>1, <4>2
    <3> QED
      BY <2>1, <3>1, <3>4, <3>5, <3>6
  <2>4. CASE \E i \in Ids : SendClaim(w, i)
    <3>1. PICK i \in Ids : SendClaim(w, i)
      BY <2>4
    <3>2. Call("claim", i) # NoRequest /\ Call("claim", i).kind = "claim"
      BY CallType
    <3> QED
      BY <1>2, <2>1, <2>2, <3>1, <3>2 DEF SendClaim, Handed, RowIsKnown
  <2>5. CASE SendRenew(w)
    <3>1. tenure[w].id \in Ids
      BY <1>2, <2>5, PartsType DEF SendRenew, Current
    <3>2. Call("renew", tenure[w].id) # NoRequest /\ Call("renew", tenure[w].id).kind = "renew"
      BY <3>1, CallType
    <3> QED
      BY <1>2, <2>1, <2>2, <2>5, <3>2 DEF SendRenew, Handed, RowIsKnown
  <2>6. CASE Claimed(w)
    <3>1. request[w] # NoRequest /\ request[w].kind = "claim" /\ tenure[w] = NoTenure
      BY <2>6 DEF Claimed, OwnerInv, RequestInv
    <3>2. CASE stopped[w] \/ request[w].age = TTL
      <4>1. /\ Call("release", request[w].id) # NoRequest /\ Call("release", request[w].id).kind = "release"
            /\ Call("release", request[w].id).id = request[w].id
            /\ Call("release", request[w].id).phase = "sent"
        BY <2>1, <3>1, CallType
      <4>2. /\ request' = [request EXCEPT ![w] = Call("release", request[w].id)]
            /\ UNCHANGED <<dbOwner, tenure, leaving, lost>>
        BY <2>6, <3>2 DEF Claimed
      <4>3. request'[w] = Call("release", request[w].id) /\ \A v \in Workers \ {w} : request'[v] = request[v]
        BY <2>1, <4>2
      <4>4. Handed(w)'
        BY <1>2, <3>1, <4>1, <4>2, <4>3 DEF Handed, RowIsKnown
      <4> QED
        BY <2>2, <4>2, <4>3, <4>4
    <3>3. CASE ~(stopped[w] \/ request[w].age = TTL)
      <4> DEFINE t == [id |-> request[w].id, age |-> request[w].age]
      <4>1. t.id = request[w].id /\ t \in Tenure
        BY <1>2, <3>1, PartsType DEF Tenure
      <4>2. request' = [request EXCEPT ![w] = NoRequest] /\ tenure' = [tenure EXCEPT ![w] = t]
            /\ UNCHANGED <<dbOwner, leaving, lost>>
        BY <2>6, <3>3 DEF Claimed
      <4> HIDE DEF t
      <4>3. /\ request'[w] = NoRequest /\ tenure'[w] = t /\ tenure'[w] # NoTenure
            /\ \A v \in Workers \ {w} : request'[v] = request[v] /\ tenure'[v] = tenure[v]
        BY <2>1, <4>1, <4>2
      <4>4. Handed(w)'
        BY <1>2, <3>1, <4>1, <4>2, <4>3 DEF Handed, RowIsKnown
      <4> QED
        BY <2>2, <4>2, <4>3, <4>4
    <3> QED
      BY <3>2, <3>3
  <2>7. CASE NotClaimed(w)
    BY <1>2, <2>1, <2>2, <2>7 DEF NotClaimed, Handed, RowIsKnown
  <2>8. CASE Renewed(w)
    <3>1. CASE tenure[w] # NoTenure /\ tenure[w].age < TTL
      <4>1. tenure[w] \in Tenure /\ request[w].age \in Ages
        BY <1>2, <2>8, <3>1, PartsType DEF Renewed
      <4>2. /\ request' = [request EXCEPT ![w] = NoRequest] /\ request[w].kind = "renew"
            /\ tenure' = [tenure EXCEPT ![w].age = request[w].age]
            /\ UNCHANGED <<dbOwner, leaving, lost>>
        BY <2>8, <3>1, <4>1 DEF Renewed, Current, Expired, Tenure, Ages
      <4>3. tenure'[w] = [tenure[w] EXCEPT !.age = request[w].age]
            /\ request'[w] = NoRequest
            /\ \A v \in Workers \ {w} : request'[v] = request[v] /\ tenure'[v] = tenure[v]
        BY <2>1, <4>2
      <4>4. tenure'[w] \in Tenure /\ tenure'[w].id = tenure[w].id
        BY <4>1, <4>3 DEF Tenure
      <4>5. Handed(w)'
        BY <1>2, <3>1, <4>2, <4>3, <4>4 DEF Handed, RowIsKnown
      <4> QED
        BY <2>2, <4>2, <4>3, <4>5
    <3>2. CASE ~(tenure[w] # NoTenure /\ tenure[w].age < TTL)
      BY <1>2, <2>1, <2>2, <2>8, <3>2 DEF Renewed, Current, LoseOwnership, Handed, RowIsKnown
    <3> QED
      BY <3>1, <3>2
  <2>9. CASE NotRenewed(w)
    BY <1>2, <2>1, <2>2, <2>9 DEF NotRenewed, LoseOwnership, Handed, RowIsKnown
  <2>10. CASE Released(w)
    <3>1. dbOwner # request[w].id \/ lost[w]
      BY <1>2, <2>10 DEF Released, Handed
    <3> QED
      BY <1>2, <2>1, <2>2, <2>10, <3>1 DEF Released, Handed, RowIsKnown
  <2>11. CASE Expire(w) \/ (\E i \in Ids : StorageFails(w, i))
    BY <2>1, <2>2, <2>11 DEF Expire, StorageFails, LoseOwnership, Handed
  <2>12. CASE CallFails(w)
    BY <2>1, <2>2, <2>12 DEF CallFails, Handed
  <2>13. CASE Crash(w)
    BY <2>1, <2>2, <2>13 DEF Crash, Handed
  <2>14. CASE Stop(w)
    <3>1. leaving[w] = NoId
      BY <1>2, <2>14 DEF Stop
    <3> QED
      BY <1>2, <2>1, <2>2, <2>14, <3>1 DEF Stop, Handed, RowIsKnown
  <2>15. CASE StopDrained(w)
    <3>1. CASE leaving[w] # NoId
      <4>1. leaving[w] \in Ids
        BY <2>1, <3>1
      <4>2. Call("release", leaving[w]) # NoRequest /\ Call("release", leaving[w]).kind = "release"
            /\ Call("release", leaving[w]).phase = "sent"
        BY <4>1, CallType
      <4> QED
        BY <1>2, <2>1, <2>2, <2>15, <3>1, <4>2 DEF StopDrained, Handed, RowIsKnown
    <3>2. CASE leaving[w] = NoId
      BY <1>3, <2>15, <3>2 DEF StopDrained
    <3> QED
      BY <3>1, <3>2
  <2>16. CASE Launch(w) \/ StepEnds(w)
    BY <1>3, <2>16 DEF Launch, StepEnds
  <2> QED
    BY <1>6, <2>3, <2>4, <2>5, <2>6, <2>7, <2>8, <2>9, <2>10, <2>11, <2>12, <2>13, <2>14, <2>15, <2>16 DEF Heartbeat
<1> QED
  BY <1>3, <1>4, <1>5, <1>6 DEF Next, vars

(* stop() leaves no row behind, unless a call or a tenure of the worker was
   lost before: whoever takes over need not wait for an expiry. *)
THEOREM StopHandsOver == Spec => []NoOwnerAfterStop
<1>1. Init => HandoverInv
  BY DEF Init, HandoverInv, StopInv, OrphansAreLost, Handed
<1>2. OwnerInv /\ HandoverInv /\ [Next]_vars => HandoverInv'
  BY HandoverStep
<1>3. HandoverInv => NoOwnerAfterStop
  BY DEF HandoverInv, StopInv, Handed, RowIsKnown, NoOwnerAfterStop
<1> QED
  BY <1>1, <1>2, <1>3, OwnershipInvariant, PTL DEF Spec

=============================================================================

----------------------------- MODULE PoolOwner -----------------------------
(***************************************************************************)
(* Ownership of the prewarm worker.  Every Proxy runs a PrewarmWorker; the *)
(* row user_pool_settings (owner, owner_until) elects the one that may     *)
(* schedule.  A worker cannot see the database clock, so it keeps a local  *)
(* tenure whose age counts from the start of its last successful request.  *)
(*                                                                         *)
(* Time is relative: dbLeft is owner_until - DB_NOW, a tenure and a        *)
(* request have an age.  Both saturate, so the clock needs no bound.  The  *)
(* database clock and performance.now() are taken to run at the same rate. *)
(***************************************************************************)
EXTENDS Integers

CONSTANTS
  Workers,        \* PrewarmWorker instances, one per Proxy process
  Ids,            \* tenure UUIDs; one is reused only when nothing refers to it
  WorkerOf,       \* the worker that draws a UUID
  NoId, NoTenure, NoRequest,
  TTL,            \* OWNER_TTL_MS, also the 30000 of claimOwner and renewOwner
  MultiReplica,   \* options.multiReplica: MySQL, else SQLite
  MaxLatency,     \* bound: ticks that pass while a request is under way
  MaxFailures     \* bound: storage errors and crashes

ASSUME OwnerAssumption ==
  /\ TTL \in Nat \ {0} /\ MultiReplica \in BOOLEAN
  /\ MaxLatency \in Nat /\ MaxFailures \in Nat
  /\ WorkerOf \in [Ids -> Workers] /\ NoId \notin Ids

Ages == 0..TTL

Tenure == [id: Ids, age: Ages]

(* A call of claimOwner, renewOwner or releaseOwner: on its way, or executed
   and its answer on its way back. *)
Request == [kind: {"claim", "renew", "release"}, id: Ids, age: Ages,
            phase: {"sent", "accepted", "refused"}]

(* A call whose caller gave up; the database may still execute it. *)
Orphan == [kind: {"claim", "renew", "release"}, id: Ids]

ASSUME NoneAssumption == NoTenure \notin Tenure /\ NoRequest \notin Request

VARIABLES
  dbOwner, dbLeft,   \* the row of user_pool_settings
  tenure,            \* this.tenure
  request,           \* this.ownership: one call at a time
  active,            \* this.active: the tenures that running steps captured
  stopped,           \* this.stopped
  leaving,           \* the tenure that stop() took over, to be released
  stopState,         \* "no", "draining", "done": how far stop() got
  orphans,           \* abandoned calls
  failures,          \* bound: storage errors and crashes so far
  lost               \* history: the worker lost a tenure or a call since it started

vars == <<dbOwner, dbLeft, tenure, request, active, stopped, leaving, stopState, orphans, failures, lost>>

(* Types: a tenure, and a call under way, never grows older than the TTL. *)
TypeOK ==
  /\ dbOwner \in Ids \cup {NoId}
  /\ dbLeft \in Ages
  /\ tenure \in [Workers -> Tenure \cup {NoTenure}]
  /\ request \in [Workers -> Request \cup {NoRequest}]
  /\ active \in [Workers -> SUBSET Ids]
  /\ stopped \in [Workers -> BOOLEAN]
  /\ leaving \in [Workers -> Ids \cup {NoId}]
  /\ stopState \in [Workers -> {"no", "draining", "done"}]
  /\ orphans \subseteq Orphan
  /\ failures \in Nat
  /\ lost \in [Workers -> BOOLEAN]

Init ==
  /\ dbOwner = NoId /\ dbLeft = 0
  /\ tenure = [w \in Workers |-> NoTenure]
  /\ request = [w \in Workers |-> NoRequest]
  /\ active = [w \in Workers |-> {}]
  /\ stopped = [w \in Workers |-> FALSE]
  /\ leaving = [w \in Workers |-> NoId]
  /\ stopState = [w \in Workers |-> "no"]
  /\ orphans = {}
  /\ failures = 0
  /\ lost = [w \in Workers |-> FALSE]

-----------------------------------------------------------------------------
Older(a) == IF a < TTL THEN a + 1 ELSE a

Refers(w, i) ==
  \/ tenure[w] # NoTenure /\ tenure[w].id = i
  \/ request[w] # NoRequest /\ request[w].id = i
  \/ i \in active[w] \/ leaving[w] = i

(* randomUUID(): an id that nothing refers to. *)
Fresh(i) ==
  /\ dbOwner # i
  /\ \A w \in Workers : ~Refers(w, i)
  /\ \A o \in orphans : o.id # i

Call(kind, i) == [kind |-> kind, id |-> i, age |-> 0, phase |-> "sent"]

(* isCurrentTenure(), without the transition that records an expiry. *)
Current(w) == ~stopped[w] /\ tenure[w] # NoTenure /\ tenure[w].age < TTL

Expired(w) == ~stopped[w] /\ tenure[w] # NoTenure /\ tenure[w].age = TTL

(* loseOwnership(): SQLite has no standby, its worker stops. *)
LoseOwnership(w) ==
  /\ tenure' = [tenure EXCEPT ![w] = NoTenure]
  /\ stopped' = [stopped EXCEPT ![w] = @ \/ ~MultiReplica]
  /\ lost' = [lost EXCEPT ![w] = TRUE]

-----------------------------------------------------------------------------
(* The statements, as the database executes them. *)

(* Mutant: the row is taken whatever its expiry. *)
AcceptsAnyClaim(kind, i) ==
  \/ kind = "claim"
  \/ kind = "renew" /\ dbOwner = i /\ dbLeft > 0
  \/ kind = "release" /\ dbOwner = i

(* Mutant: an expired row is not up for election while it names an owner. *)
AcceptsFreeClaim(kind, i) ==
  \/ kind = "claim" /\ (IF dbOwner = i THEN dbLeft > 0 \/ ~MultiReplica ELSE dbOwner = NoId)
  \/ kind = "renew" /\ dbOwner = i /\ dbLeft > 0
  \/ kind = "release" /\ dbOwner = i

(* The WHERE clauses. *)
Accepts(kind, i) ==
  \/ kind = "claim" /\ (IF dbOwner = i THEN dbLeft > 0 \/ ~MultiReplica ELSE dbLeft = 0)
  \/ kind = "renew" /\ dbOwner = i /\ dbLeft > 0
  \/ kind = "release" /\ dbOwner = i

Apply(kind, i) ==
  IF Accepts(kind, i)
  THEN IF kind = "release" THEN dbOwner' = NoId /\ dbLeft' = 0
       ELSE dbOwner' = i /\ dbLeft' = TTL
  ELSE UNCHANGED <<dbOwner, dbLeft>>

Execute(w) ==
  /\ request[w] # NoRequest
  /\ request[w].phase = "sent"
  /\ Apply(request[w].kind, request[w].id)
  /\ request' = [request EXCEPT ![w].phase =
       IF Accepts(request[w].kind, request[w].id) THEN "accepted" ELSE "refused"]
  /\ UNCHANGED <<tenure, active, stopped, leaving, stopState, orphans, failures, lost>>

(* A call that timed out at its client is executed after all, or never. *)
ExecuteOrphan(o) ==
  /\ \/ Apply(o.kind, o.id)
     \/ UNCHANGED <<dbOwner, dbLeft>>
  /\ orphans' = orphans \ {o}
  /\ UNCHANGED <<tenure, request, active, stopped, leaving, stopState, failures, lost>>

-----------------------------------------------------------------------------
(* ensureOwner() and renewTenure(). *)

(* Mutant: the steps of the lost tenure are not drained first. *)
SendClaimAtOnce(w, i) ==
  /\ ~stopped[w]
  /\ tenure[w] = NoTenure /\ request[w] = NoRequest
  /\ WorkerOf[i] = w /\ Fresh(i)
  /\ request' = [request EXCEPT ![w] = Call("claim", i)]
  /\ UNCHANGED <<dbOwner, dbLeft, tenure, active, stopped, leaving, stopState, orphans, failures, lost>>

(* The steps of a lost tenure are drained before the next claim. *)
SendClaim(w, i) ==
  /\ ~stopped[w]
  /\ tenure[w] = NoTenure /\ request[w] = NoRequest
  /\ active[w] = {}
  /\ WorkerOf[i] = w /\ Fresh(i)
  /\ request' = [request EXCEPT ![w] = Call("claim", i)]
  /\ UNCHANGED <<dbOwner, dbLeft, tenure, active, stopped, leaving, stopState, orphans, failures, lost>>

SendRenew(w) ==
  /\ Current(w)
  /\ request[w] = NoRequest
  /\ request' = [request EXCEPT ![w] = Call("renew", tenure[w].id)]
  /\ UNCHANGED <<dbOwner, dbLeft, tenure, active, stopped, leaving, stopState, orphans, failures, lost>>

(* Mutant: the stop flag is not looked at again after the await. *)
ClaimedRegardless(w) ==
  /\ request[w] # NoRequest
  /\ request[w].kind = "claim" /\ request[w].phase = "accepted"
  /\ IF request[w].age = TTL
     THEN /\ request' = [request EXCEPT ![w] = Call("release", request[w].id)]
          /\ UNCHANGED tenure
     ELSE /\ request' = [request EXCEPT ![w] = NoRequest]
          /\ tenure' = [tenure EXCEPT ![w] = [id |-> request[w].id, age |-> request[w].age]]
  /\ UNCHANGED <<dbOwner, dbLeft, active, stopped, leaving, stopState, orphans, failures, lost>>

(* A claim succeeded. Too late, or after stop(): the row is given back. *)
Claimed(w) ==
  /\ request[w] # NoRequest
  /\ request[w].kind = "claim" /\ request[w].phase = "accepted"
  /\ IF stopped[w] \/ request[w].age = TTL
     THEN /\ request' = [request EXCEPT ![w] = Call("release", request[w].id)]
          /\ UNCHANGED tenure
     ELSE /\ request' = [request EXCEPT ![w] = NoRequest]
          /\ tenure' = [tenure EXCEPT ![w] = [id |-> request[w].id, age |-> request[w].age]]
  /\ UNCHANGED <<dbOwner, dbLeft, active, stopped, leaving, stopState, orphans, failures, lost>>

NotClaimed(w) ==
  /\ request[w] # NoRequest
  /\ request[w].kind = "claim" /\ request[w].phase = "refused"
  /\ request' = [request EXCEPT ![w] = NoRequest]
  /\ stopped' = [stopped EXCEPT ![w] = @ \/ ~MultiReplica]
  /\ UNCHANGED <<dbOwner, dbLeft, tenure, active, leaving, stopState, orphans, failures, lost>>

(* Mutant: the tenure is as young as the answer. *)
RenewedNow(w) ==
  /\ request[w] # NoRequest
  /\ request[w].kind = "renew" /\ request[w].phase = "accepted"
  /\ request' = [request EXCEPT ![w] = NoRequest]
  /\ \/ Current(w) /\ tenure' = [tenure EXCEPT ![w].age = 0] /\ UNCHANGED <<stopped, lost>>
     \/ Expired(w) /\ LoseOwnership(w)
     \/ tenure[w] = NoTenure /\ UNCHANGED <<tenure, stopped, lost>>
  /\ UNCHANGED <<dbOwner, dbLeft, active, leaving, stopState, orphans, failures>>

(* The new age counts from the request, not from its answer; a tenure that
   expired while the call was under way is lost all the same. *)
Renewed(w) ==
  /\ request[w] # NoRequest
  /\ request[w].kind = "renew" /\ request[w].phase = "accepted"
  /\ request' = [request EXCEPT ![w] = NoRequest]
  /\ \/ Current(w) /\ tenure' = [tenure EXCEPT ![w].age = request[w].age] /\ UNCHANGED <<stopped, lost>>
     \/ Expired(w) /\ LoseOwnership(w)
     \/ tenure[w] = NoTenure /\ UNCHANGED <<tenure, stopped, lost>>
  /\ UNCHANGED <<dbOwner, dbLeft, active, leaving, stopState, orphans, failures>>

NotRenewed(w) ==
  /\ request[w] # NoRequest
  /\ request[w].kind = "renew" /\ request[w].phase = "refused"
  /\ request' = [request EXCEPT ![w] = NoRequest]
  /\ IF tenure[w] # NoTenure THEN LoseOwnership(w) ELSE UNCHANGED <<tenure, stopped, lost>>
  /\ UNCHANGED <<dbOwner, dbLeft, active, leaving, stopState, orphans, failures>>

(* releaseOwner() returned: the end of stop(), or of a claim given back. *)
Released(w) ==
  /\ request[w] # NoRequest
  /\ request[w].kind = "release" /\ request[w].phase # "sent"
  /\ request' = [request EXCEPT ![w] = NoRequest]
  /\ IF leaving[w] = request[w].id
     THEN /\ stopState' = [stopState EXCEPT ![w] = "done"]
          /\ leaving' = [leaving EXCEPT ![w] = NoId]
          /\ UNCHANGED stopped
     ELSE /\ stopped' = [stopped EXCEPT ![w] = @ \/ ~MultiReplica]
          /\ UNCHANGED <<leaving, stopState>>
  /\ UNCHANGED <<dbOwner, dbLeft, tenure, active, orphans, failures, lost>>

(* The call throws (deadline, connection). The database may have executed
   it, may execute it later, or may never see it. *)
CallFails(w) ==
  /\ failures < MaxFailures
  /\ request[w] # NoRequest
  /\ failures' = failures + 1
  /\ orphans' = IF request[w].phase = "sent"
                THEN orphans \cup {[kind |-> request[w].kind, id |-> request[w].id]} ELSE orphans
  /\ request' = [request EXCEPT ![w] = NoRequest]
  /\ IF request[w].kind = "renew" /\ tenure[w] # NoTenure
     THEN tenure' = [tenure EXCEPT ![w] = NoTenure] ELSE UNCHANGED tenure
  /\ lost' = [lost EXCEPT ![w] = TRUE]
  /\ stopped' = [stopped EXCEPT ![w] = @ \/ ~MultiReplica]
  /\ IF leaving[w] = request[w].id
     THEN stopState' = [stopState EXCEPT ![w] = "done"] /\ leaving' = [leaving EXCEPT ![w] = NoId]
     ELSE UNCHANGED <<leaving, stopState>>
  /\ UNCHANGED <<dbOwner, dbLeft, active>>

(* isCurrentTenure() finds the local tenure expired. *)
Expire(w) ==
  /\ Expired(w)
  /\ LoseOwnership(w)
  /\ UNCHANGED <<dbOwner, dbLeft, request, active, leaving, stopState, orphans, failures>>

-----------------------------------------------------------------------------
(* Steps, shutdown and crashes. *)

(* schedule() launches a step, which captures the tenure. *)
Launch(w) ==
  /\ Current(w)
  /\ active' = [active EXCEPT ![w] = @ \cup {tenure[w].id}]
  /\ UNCHANGED <<dbOwner, dbLeft, tenure, request, stopped, leaving, stopState, orphans, failures, lost>>

(* The steps of one tenure have returned: completed, fenced or aborted. *)
StepEnds(w) ==
  /\ \E i \in active[w] : active' = [active EXCEPT ![w] = @ \ {i}]
  /\ UNCHANGED <<dbOwner, dbLeft, tenure, request, stopped, leaving, stopState, orphans, failures, lost>>

(* storageOperation(): an error of any statement ends the tenure that its
   step, or its round of schedule(), captured; a later tenure is untouched. *)
StorageFails(w, i) ==
  /\ failures < MaxFailures
  /\ tenure[w] # NoTenure /\ tenure[w].id = i
  /\ failures' = failures + 1
  /\ LoseOwnership(w)
  /\ UNCHANGED <<dbOwner, dbLeft, request, active, leaving, stopState, orphans>>

(* stop(): nothing new is scheduled, the tenure is set aside. *)
Stop(w) ==
  /\ stopState[w] = "no"
  /\ stopState' = [stopState EXCEPT ![w] = "draining"]
  /\ stopped' = [stopped EXCEPT ![w] = TRUE]
  /\ leaving' = [leaving EXCEPT ![w] = IF tenure[w] # NoTenure THEN tenure[w].id ELSE NoId]
  /\ tenure' = [tenure EXCEPT ![w] = NoTenure]
  /\ UNCHANGED <<dbOwner, dbLeft, request, active, orphans, failures, lost>>

(* The pending call and the steps have been awaited. *)
StopDrained(w) ==
  /\ stopState[w] = "draining"
  /\ request[w] = NoRequest
  /\ active[w] = {}
  /\ IF leaving[w] # NoId
     THEN request' = [request EXCEPT ![w] = Call("release", leaving[w])] /\ UNCHANGED stopState
     ELSE stopState' = [stopState EXCEPT ![w] = "done"] /\ UNCHANGED request
  /\ UNCHANGED <<dbOwner, dbLeft, tenure, active, stopped, leaving, orphans, failures, lost>>

(* The process dies and is started again. *)
Crash(w) ==
  /\ failures < MaxFailures
  /\ failures' = failures + 1
  /\ orphans' = IF request[w] # NoRequest /\ request[w].phase = "sent"
                THEN orphans \cup {[kind |-> request[w].kind, id |-> request[w].id]} ELSE orphans
  /\ tenure' = [tenure EXCEPT ![w] = NoTenure]
  /\ request' = [request EXCEPT ![w] = NoRequest]
  /\ active' = [active EXCEPT ![w] = {}]
  /\ stopped' = [stopped EXCEPT ![w] = FALSE]
  /\ leaving' = [leaving EXCEPT ![w] = NoId]
  /\ stopState' = [stopState EXCEPT ![w] = "no"]
  /\ lost' = [lost EXCEPT ![w] = TRUE]
  /\ UNCHANGED <<dbOwner, dbLeft>>

-----------------------------------------------------------------------------
Tick ==
  /\ \A w \in Workers : request[w] # NoRequest => request[w].age < MaxLatency
  /\ dbLeft' = IF dbLeft > 0 THEN dbLeft - 1 ELSE 0
  /\ tenure' = [w \in Workers |-> IF tenure[w] = NoTenure THEN NoTenure
                                  ELSE [tenure[w] EXCEPT !.age = Older(@)]]
  /\ request' = [w \in Workers |-> IF request[w] = NoRequest THEN NoRequest
                                   ELSE [request[w] EXCEPT !.age = Older(@)]]
  /\ UNCHANGED <<dbOwner, active, stopped, leaving, stopState, orphans, failures, lost>>

(* What a worker does by itself: its heartbeat, and the answers it awaits. *)
Heartbeat(w) ==
  \/ \E i \in Ids : SendClaim(w, i)
  \/ SendRenew(w) \/ Execute(w)
  \/ Claimed(w) \/ NotClaimed(w) \/ Renewed(w) \/ NotRenewed(w) \/ Released(w)
  \/ Expire(w) \/ StepEnds(w) \/ StopDrained(w)

Next ==
  \/ Tick
  \/ \E w \in Workers :
       Heartbeat(w) \/ CallFails(w) \/ Launch(w) \/ (\E i \in Ids : StorageFails(w, i)) \/ Stop(w) \/ Crash(w)
  \/ \E o \in orphans : ExecuteOrphan(o)

Spec == Init /\ [][Next]_vars

(* setInterval drives every worker, calls are answered, time passes. *)
FairSpec ==
  /\ Spec
  /\ WF_vars(Tick)
  /\ \A w \in Workers : WF_vars(Heartbeat(w))
  /\ WF_vars(\E o \in orphans : ExecuteOrphan(o))

-----------------------------------------------------------------------------
(* A worker that believes it may schedule is the owner the database names,
   and its row outlives its local tenure: a late answer, an executed call
   whose answer was lost or a late duplicate of a call never leave a worker
   running on a row that is up for election. (isCurrentTenure, renewTenure) *)
TenureIsBacked ==
  \A w \in Workers : Current(w) =>
    dbOwner = tenure[w].id /\ dbLeft >= TTL - tenure[w].age

(* At most one worker schedules at any instant. (isActive, claimOwner) *)
OneLocalOwner ==
  \A v, w \in Workers : Current(v) /\ Current(w) => v = w

(* The running steps of a worker captured the tenure it has now: a step of an
   earlier tenure never runs beside those of the next. (ensureOwner waits for
   this.active to be empty) *)
StepsOfOneTenure ==
  \A w \in Workers : tenure[w] # NoTenure => active[w] \subseteq {tenure[w].id}

(* A worker that stopped without having lost a call or a tenure does not
   leave its row behind, so that another takes over at once. (stop awaits the
   pending election, which gives its own id back) *)
NoOwnerAfterStop ==
  \A w \in Workers : stopState[w] = "done" /\ ~lost[w] /\ dbOwner # NoId =>
    WorkerOf[dbOwner] # w

(* While some worker runs, one of them comes to own the pool, whatever row a
   crashed or disconnected owner left. (claimOwner takes an expired row) *)
SomeWorkerTakesOver ==
  (\E w \in Workers : ~stopped[w])
    ~> ((\E w \in Workers : Current(w)) \/ (\A w \in Workers : stopped[w]))

=============================================================================

----------------------------- MODULE CallerGate -----------------------------
(* Admissions of the MySQL store to its database inside one Proxy process:   *)
(* the per-caller gate (mysqlCallerGate.ts), the deadline that settles every *)
(* wait once (mysqlDeadline.ts), and the lease of a driver connection, whose *)
(* acquisition cannot be cancelled and may answer long after its request is  *)
(* gone. A request is one call of MysqlPoolStore.admit. Node runs each step  *)
(* below without interruption; between them anything may happen.             *)
EXTENDS Naturals, Sequences, FiniteSets, SequencesExt

CONSTANTS Admissions,      \* calls of admit
          GateCallers,
          CallerOf,      \* the caller of each request
          TICKET_LIMIT,  \* MYSQL_CALLER_TICKET_LIMIT, 1024 in the code
          QUEUE_LIMIT,   \* MYSQL_CALLER_QUEUE_LIMIT, 32 in the code
          Connections,   \* connectionLimit of the mysql2 pool
          MaxRetries,    \* replays of a transaction after a lock error, 2 in the code
          NoTicket

ASSUME GateAssumption == /\ CallerOf \in [Admissions -> GateCallers]
                         /\ NoTicket \notin Admissions
                         /\ {TICKET_LIMIT, QUEUE_LIMIT, Connections, MaxRetries} \subseteq Nat

VARIABLES
    call,        \* where each request is
    permit,      \* tickets whose permit is not released
    pending,     \* tickets retained by an entry in the driver
    granted,     \* tickets whose promise is resolved
    active,      \* scope.active of each caller
    waiters,     \* scope.waiters of each caller
    retainedTickets,
    driver,      \* the request's entry in the driver: none, queued, lent
    txAttempt      \* transaction attempts

scopes == <<permit, pending, granted, active, waiters, retainedTickets>>
gateVars == <<call, scopes, driver, txAttempt>>

Calls == {"new", "queued", "admitted", "connecting", "working", "ending", "over"}

GateTypeOK == /\ call \in [Admissions -> Calls]
              /\ permit \subseteq Admissions /\ pending \subseteq Admissions /\ granted \subseteq Admissions
              /\ active \in [GateCallers -> Admissions \cup {NoTicket}]
              /\ \A c \in GateCallers : IsInjective(waiters[c]) /\ ToSet(waiters[c]) \subseteq Admissions
              /\ retainedTickets \in 0 .. TICKET_LIMIT
              /\ driver \in [Admissions -> {"none", "queued", "lent"}]
              /\ txAttempt \in [Admissions -> 0 .. MaxRetries]

GateInit == /\ call = [r \in Admissions |-> "new"]
            /\ permit = {} /\ pending = {} /\ granted = {}
            /\ active = [c \in GateCallers |-> NoTicket]
            /\ waiters = [c \in GateCallers |-> << >>]
            /\ retainedTickets = 0
            /\ driver = [r \in Admissions |-> "none"]
            /\ txAttempt = [r \in Admissions |-> 0]

-----------------------------------------------------------------------------
(* indexOf and splice: a ticket that waits leaves the queue.                 *)
TakeOut(c, r) ==
    \/ \E k \in DOMAIN waiters[c] : /\ waiters[c][k] = r
                                    /\ waiters' = [waiters EXCEPT ![c] = RemoveAt(@, k)]
    \/ r \notin ToSet(waiters[c]) /\ UNCHANGED waiters

(* drop: the last reference of a ticket hands the scope to the next waiter,  *)
(* or takes the ticket out of the queue.                                     *)
HandOff(r) ==
    LET c == CallerOf[r] IN
    /\ retainedTickets' = retainedTickets - 1
    /\ \/ /\ active[c] = r /\ waiters[c] = << >>
          /\ active' = [active EXCEPT ![c] = NoTicket]
          /\ UNCHANGED <<waiters, granted>>
       \/ /\ active[c] = r /\ waiters[c] # << >>
          /\ active' = [active EXCEPT ![c] = Head(waiters[c])]
          /\ waiters' = [waiters EXCEPT ![c] = Tail(@)]
          /\ granted' = granted \cup {Head(waiters[c])}
       \/ /\ active[c] # r
          /\ TakeOut(c, r)
          /\ UNCHANGED <<active, granted>>

(* release and the function retain returns: each drops its reference once.   *)
ReleaseTicket(r, permits, retains) ==
    /\ permit' = permits
    /\ pending' = retains
    /\ IF r \in (permit \cup pending) \ (permits \cup retains)
       THEN HandOff(r)
       ELSE UNCHANGED <<granted, active, waiters, retainedTickets>>

ReleasePermit(r) == ReleaseTicket(r, permit \ {r}, pending)
ReleasePending(r) == ReleaseTicket(r, permit, pending \ {r})

Full(c) == retainedTickets >= TICKET_LIMIT \/ Len(waiters[c]) >= QUEUE_LIMIT

(* The ticket is active at once, or waits at the end of the caller's queue.  *)
Enqueue(c, r) ==
    \/ /\ active[c] = NoTicket
       /\ active' = [active EXCEPT ![c] = r]
       /\ granted' = granted \cup {r}
       /\ UNCHANGED waiters
    \/ /\ active[c] # NoTicket
       /\ waiters' = [waiters EXCEPT ![c] = Append(@, r)]
       /\ UNCHANGED <<active, granted>>

(* acquireMysqlCaller: a ticket, or 503 at a limit.                          *)
Acquire(r) ==
    /\ call[r] = "new" /\ ~Full(CallerOf[r])
    /\ call' = [call EXCEPT ![r] = "queued"]
    /\ permit' = permit \cup {r}
    /\ retainedTickets' = retainedTickets + 1
    /\ Enqueue(CallerOf[r], r)
    /\ UNCHANGED <<pending, driver, txAttempt>>

RefuseTicket(r) == /\ call[r] = "new" /\ Full(CallerOf[r])
                   /\ call' = [call EXCEPT ![r] = "over"]
                   /\ UNCHANGED <<scopes, driver, txAttempt>>

(* MysqlDeadline.run fulfils: the continuation sees the permit in time.      *)
AdmitTicket(r) == /\ call[r] = "queued" /\ r \in granted
                  /\ call' = [call EXCEPT ![r] = "admitted"]
                  /\ UNCHANGED <<scopes, driver, txAttempt>>

(* stop: the deadline or the client's abort settles the wait first; cancel   *)
(* releases the ticket, granted or not, before the caller can see the error. *)
GiveUp(r) == /\ call[r] = "queued"
             /\ call' = [call EXCEPT ![r] = "over"]
             /\ ReleasePermit(r)
             /\ UNCHANGED <<driver, txAttempt>>

(* The wait for the driver without a retained ticket.                        *)
ConnectUnretained(r) == /\ call[r] = "admitted"
                        /\ call' = [call EXCEPT ![r] = "connecting"]
                        /\ driver' = [driver EXCEPT ![r] = "queued"]
                        /\ UNCHANGED <<scopes, txAttempt>>

(* leaseMysqlConnection, before the deadline: retain the ticket, then queue  *)
(* in the driver.                                                            *)
Connect(r) == /\ call[r] = "admitted"
              /\ call' = [call EXCEPT ![r] = "connecting"]
              /\ pending' = pending \cup {r}
              /\ driver' = [driver EXCEPT ![r] = "queued"]
              /\ UNCHANGED <<permit, granted, active, waiters, retainedTickets, txAttempt>>

(* The deadline passes, or the client aborts, before the connection is asked *)
(* for or while the driver holds the entry. A retained reference stays.      *)
TimeOut(r) == /\ call[r] \in {"admitted", "connecting"}
              /\ call' = [call EXCEPT ![r] = "ending"]
              /\ UNCHANGED <<scopes, driver, txAttempt>>

(* admit's finally.                                                          *)
End(r) == /\ call[r] = "ending"
          /\ call' = [call EXCEPT ![r] = "over"]
          /\ ReleasePermit(r)
          /\ UNCHANGED <<driver, txAttempt>>

-----------------------------------------------------------------------------
(* mysql2 lends a connection to any entry it holds while one is free.        *)
Lend(r) == /\ driver[r] = "queued"
           /\ Cardinality({q \in Admissions : driver[q] = "lent"}) < Connections
           /\ driver' = [driver EXCEPT ![r] = "lent"]
           /\ UNCHANGED <<call, scopes, txAttempt>>

(* getConnection fails (a full driver queue, an unreachable server).         *)
DriverFails(r) ==
    /\ driver[r] = "queued"
    /\ driver' = [driver EXCEPT ![r] = "none"]
    /\ ReleasePending(r)
    /\ call' = IF call[r] = "connecting" THEN [call EXCEPT ![r] = "ending"] ELSE call
    /\ UNCHANGED txAttempt

(* The connection arrives for a request that waits for it.                   *)
Deliver(r) == /\ driver[r] = "lent" /\ call[r] = "connecting"
              /\ call' = [call EXCEPT ![r] = "working"]
              /\ ReleasePending(r)
              /\ UNCHANGED <<driver, txAttempt>>

(* dispose: a connection that arrives for nobody goes back to the pool and   *)
(* gives the retained reference back. The first case is the abort that wins  *)
(* the race with the continuation.                                           *)
Dispose(r) == /\ driver[r] = "lent" /\ call[r] \in {"connecting", "ending", "over"}
              /\ call' = IF call[r] = "connecting" THEN [call EXCEPT ![r] = "ending"] ELSE call
              /\ driver' = [driver EXCEPT ![r] = "none"]
              /\ ReleasePending(r)
              /\ UNCHANGED txAttempt

(* tx: the transaction ends and its connection is returned or destroyed.     *)
(* Only an acknowledged rollback after a lock error is replayed, with the    *)
(* same permit.                                                              *)
EndTransaction(r) ==
    /\ call[r] = "working"
    /\ driver' = [driver EXCEPT ![r] = "none"]
    /\ \/ /\ txAttempt[r] < MaxRetries
          /\ call' = [call EXCEPT ![r] = "admitted"]
          /\ txAttempt' = [txAttempt EXCEPT ![r] = @ + 1]
       \/ /\ call' = [call EXCEPT ![r] = "ending"]
          /\ UNCHANGED txAttempt
    /\ UNCHANGED scopes

GateNext == \E r \in Admissions :
    \/ Acquire(r) \/ RefuseTicket(r) \/ AdmitTicket(r) \/ GiveUp(r) \/ Connect(r) \/ TimeOut(r) \/ End(r)
    \/ Lend(r) \/ DriverFails(r) \/ Deliver(r) \/ Dispose(r) \/ EndTransaction(r)

GateSpec == GateInit /\ [][GateNext]_gateVars

(* Continuations run, transactions end (their deadline destroys the socket), *)
(* and the driver answers the entries it holds when it can.                  *)
Fairness == \A r \in Admissions :
    /\ WF_gateVars(AdmitTicket(r)) /\ WF_gateVars(Connect(r) \/ TimeOut(r)) /\ WF_gateVars(End(r))
    /\ WF_gateVars(Deliver(r) \/ Dispose(r)) /\ WF_gateVars(EndTransaction(r))
    /\ SF_gateVars(Lend(r))

GateFairSpec == GateSpec /\ Fairness

-----------------------------------------------------------------------------
(* The line of a caller: the active ticket, then the waiting ones.           *)
Line == [c \in GateCallers |-> (IF active[c] = NoTicket THEN << >> ELSE <<active[c]>>) \o waiters[c]]

(* The process-wide count that refuses new admissions with 503 is the number *)
(* of tickets somebody still refers to, and they are the ones in a line.     *)
TicketsAreCounted ==
    /\ retainedTickets = Cardinality(permit \cup pending)
    /\ retainedTickets <= TICKET_LIMIT
    /\ UNION {ToSet(Line[c]) : c \in GateCallers} = permit \cup pending

(* The request the driver works for.                                         *)
Using == [c \in GateCallers |-> {r \in Admissions : CallerOf[r] = c /\ driver[r] # "none"}]

Abstract == INSTANCE CallerLine
                WITH Requests <- Admissions, Callers <- GateCallers, LineLimit <- QUEUE_LIMIT + 1,
                     line <- Line, using <- Using

(* The gate keeps what CallerLine promises: requests of a caller keep their  *)
(* order, only the first has an entry in the driver or a connection of it,   *)
(* and a request that timed out keeps its place until its late connection is *)
(* disposed of.                                                              *)
ImplementsLine == Abstract!Spec

(* The gate is the line, and counts it.                                      *)
GateIsALine == ImplementsLine /\ [](GateTypeOK /\ TicketsAreCounted)

(* Everybody who asked is decided, even if nobody gives up, and the ticket   *)
(* of a request that is over is dropped: timeouts and late connections leak  *)
(* neither tickets nor the caller's scope.                                   *)
TicketsAreDropped ==
    <>[](\A r \in Admissions : call[r] # "queued" /\ (call[r] = "over" => r \notin permit \cup pending))
=============================================================================

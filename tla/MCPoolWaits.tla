---------------------------- MODULE MCPoolWaits ----------------------------
(***************************************************************************)
(* What callers of the pool wait for: rows of the pool, and the gate of    *)
(* the MySQL store, side by side.  They share no state, so a behaviour is  *)
(* a behaviour of one part.                                                *)
(***************************************************************************)
EXTENDS MCUserPool, CallerGate

CONSTANTS t1, t2, t3, t4, k1, k2

VARIABLE part

MCCallerOf == [r \in Admissions |-> IF r = t4 THEN k2 ELSE k1]

WaitsInit == part \in {"pool", "gate"} /\ Init /\ GateInit

WaitsNext ==
  \/ part = "pool" /\ Next /\ UNCHANGED <<part, gateVars>>
  \/ part = "gate" /\ GateNext /\ UNCHANGED <<part, vars>>

(* The fairness of each component, of the behaviours that are its own. *)
WaitsFairness ==
  /\ WF_vars(part = "pool" /\ Tick) /\ WF_vars(part = "pool" /\ Reclaim)
  /\ \A r \in Admissions :
       /\ WF_gateVars(part = "gate" /\ AdmitTicket(r))
       /\ WF_gateVars(part = "gate" /\ (Connect(r) \/ TimeOut(r)))
       /\ WF_gateVars(part = "gate" /\ End(r))
       /\ WF_gateVars(part = "gate" /\ (Deliver(r) \/ Dispose(r)))
       /\ WF_gateVars(part = "gate" /\ EndTransaction(r))
       /\ SF_gateVars(part = "gate" /\ Lend(r))

WaitsSpec == WaitsInit /\ [][WaitsNext]_<<part, vars, gateVars>> /\ WaitsFairness

(* Holds of a dead Proxy and expired leases go away, and tickets are reached
   and dropped. *)
PoolWaitsEnd == RowsEnd /\ TicketsAreDropped
=============================================================================

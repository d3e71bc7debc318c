--------------------------- MODULE ReclaimCursor ---------------------------
(***************************************************************************)
(* Reclamation of the MySQL store visits a bounded batch of the members    *)
(* with something expired, behind a cursor that wraps around.  Rows that a *)
(* long request keeps locked stay candidates.                              *)
(***************************************************************************)
EXTENDS Naturals, FiniteSets

CONSTANTS Count,      \* members, in the order of their identities
          BatchLimit  \* 32 in the code

Identities == 1..Count

VARIABLES due,     \* members something of which has expired
          locked,  \* members whose rows a session keeps locked
          cursor   \* reclaimCursor

reclaimVars == <<due, locked, cursor>>

ReclaimInit == due \in SUBSET Identities /\ locked \in SUBSET Identities /\ cursor = 0

(* Mutant: every batch starts at the first candidate. *)
OrderFromStart(m) == m

(* ORDER BY identity <= cursor, identity *)
Order(m) == IF m <= cursor THEN m + Count ELSE m

(* The first n candidates of that order. *)
Visited(n) == {m \in due : Cardinality({k \in due : Order(k) < Order(m)}) < n}

(* reclaimTx: the cursor advances over locked rows too; the second of time a
   batch has may end it after any visit. *)
ReclaimBatch ==
  /\ due # {}
  /\ \E n \in 1..BatchLimit :
       /\ n <= Cardinality(due)
       /\ due' = due \ (Visited(n) \ locked)
       /\ cursor' = CHOOSE m \in Visited(n) : \A k \in Visited(n) : Order(k) <= Order(m)
  /\ UNCHANGED locked

Expires(m) == m \notin due /\ due' = due \cup {m} /\ UNCHANGED <<locked, cursor>>

ReclaimNext == ReclaimBatch \/ \E m \in Identities : Expires(m)

(* An expired member is reclaimed although rows before it stay locked and
   others keep expiring: the cursor starves nobody. *)
NobodyIsStarved == \A m \in Identities : m \in due ~> (m \notin due \/ m \in locked)
=============================================================================

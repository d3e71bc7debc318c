--------------------------- MODULE Replenishment ---------------------------
(***************************************************************************)
(* How the pool grows: the batch that plans creations from one aggregate   *)
(* of the supply, the shared ranking of enterprises by their share of      *)
(* capacity, and the reservation of names beside direct accounts.  The     *)
(* batch keeps the settings gate; direct accounts do not take it.          *)
(***************************************************************************)
EXTENDS Integers, Sequences, FiniteSets, FiniteSetsExt

CONSTANTS
  Count,         \* number of enterprises, ids 1..Count in text order
  NameCapacity,  \* NAME_CAPACITY
  Batch,         \* RESERVATION_BATCH, NAME_CAPACITY on SQLite
  ScanLimit,     \* names one reservation looks at, 128 on MySQL
  Targets,       \* values of idle_target
  Caps,          \* values of max_accounts
  MaxEdits       \* bound: policy and settings edits

Enterprises == 1..Count
Names == 0..(NameCapacity - 1)

VARIABLES
  policy,      \* proxy_enterprises: max_accounts, state, policy_version
  inventory,   \* proxy_enterprises.inventory_count
  named,       \* proxy_accounts by name: free, direct, or a member's state
  memberOf,    \* user_pool_accounts.enterprise_id by name, 0 for none
  settings,    \* idle_target, paused, next_ordinal
  plan,        \* what the open batch has still to create
  scanned,     \* names the current reservation has looked at
  edits,
  even         \* history: caps never changed and every enterprise could grow

growthVars == <<policy, inventory, named, memberOf, settings, plan, scanned, edits, even>>

GrowthInit ==
  /\ policy \in [Enterprises -> [cap: Caps, state: {"active"}, version: {1}]]
  /\ FoldSet(LAMBDA e, sum : sum + policy[e].cap, 0, Enterprises) <= NameCapacity
  /\ inventory = [e \in Enterprises |-> 0]
  /\ named = [n \in Names |-> "free"] /\ memberOf = [n \in Names |-> 0]
  /\ settings \in [idleTarget: Targets, paused: {FALSE}, nextOrdinal: {0}]
  /\ plan = <<>> /\ scanned = 0 /\ edits = 0 /\ even = TRUE

-----------------------------------------------------------------------------
Active == {e \in Enterprises : policy[e].state = "active"}

(* poolTotals over the active enterprises. *)
Capacity == FoldSet(LAMBDA e, sum : sum + policy[e].cap, 0, Active)
Inventory(inv) == FoldSet(LAMBDA e, sum : sum + inv[e], 0, Active)

(* shareScore: N * C_e - C * N_e. *)
ShareScore(e, inv) == Inventory(inv) * policy[e].cap - Capacity * inv[e]

(* rotationRanks: the ids in order, rotated by the ordinal. *)
RotationRank(e, ordinal) ==
  LET n == Cardinality(Active)
      index == Cardinality({f \in Active : f < e})
  IN  (index - (ordinal % n) + n) % n

(* rankCandidates: by cap in an empty pool, else by score; ties rotate. *)
Before(a, b, inv, ordinal) ==
  LET key(e) == IF Inventory(inv) = 0 THEN policy[e].cap ELSE ShareScore(e, inv)
  IN  \/ key(a) > key(b)
      \/ key(a) = key(b) /\ RotationRank(a, ordinal) <= RotationRank(b, ordinal)

(* rankEnterprisesForCreation *)
CreationCandidates(eligible, inv) == {e \in Active \cap eligible : inv[e] < policy[e].cap}
Best(eligible, inv, ordinal) ==
  CHOOSE e \in CreationCandidates(eligible, inv) :
    \A f \in CreationCandidates(eligible, inv) : Before(e, f, inv, ordinal)

(* Mutant: the inventories are not raised between two picks. *)
PlanCreationsFlat(eligible, deficit) ==
  LET picks[n \in 0..deficit] ==
        IF n = 0 \/ CreationCandidates(eligible, inventory) = {} THEN <<>>
        ELSE picks[n - 1] \o <<Best(eligible, inventory, settings.nextOrdinal + n - 1)>>
  IN  picks[deficit]

(* planCreations: each pick raises the inventory the next one ranks by. *)
PlanCreations(eligible, deficit) ==
  LET picks[n \in 0..deficit] ==
        IF n = 0 THEN [plan |-> <<>>, inv |-> inventory]
        ELSE LET before == picks[n - 1] IN
               IF CreationCandidates(eligible, before.inv) = {} THEN before
               ELSE LET e == Best(eligible, before.inv, settings.nextOrdinal + Len(before.plan))
                    IN  [plan |-> Append(before.plan, e), inv |-> [before.inv EXCEPT ![e] = @ + 1]]
  IN  picks[deficit].plan

(* poolSupplyQuery: ready idle members and those that will become idle, in
   active enterprises. *)
PoolMembers(states) == {n \in Names : named[n] \in states /\ memberOf[n] \in Active}
ReadyIdle == Cardinality(PoolMembers({"idle"}))
InFlight == Cardinality(PoolMembers({"provisioning"}))

(* replenishmentDeficit *)
Deficit == IF settings.paused THEN 0 ELSE Max({0, settings.idleTarget - ReadyIdle - InFlight})

-----------------------------------------------------------------------------
(* reserveDeficit: planBatch under the locks of settings and enterprises. *)
PlanBatch(eligible) ==
  /\ plan = <<>>
  /\ plan' = PlanCreations(eligible, Min({Deficit, Batch}))
  /\ plan' # <<>>
  /\ scanned' = 0
  /\ even' = (even /\ eligible = Enterprises)
  /\ UNCHANGED <<policy, inventory, named, memberOf, settings, edits>>

(* One turn of reserveCandidate: a name in use is passed over for ever; the
   member, its account and the counter are one write. *)
ReserveName ==
  LET n == settings.nextOrdinal
      e == Head(plan)
  IN  /\ plan # <<>> /\ n < NameCapacity /\ scanned < ScanLimit
      /\ settings' = [settings EXCEPT !.nextOrdinal = @ + 1]
      /\ IF named[n] # "free"
         THEN scanned' = scanned + 1 /\ UNCHANGED <<inventory, named, memberOf, plan>>
         ELSE /\ named' = [named EXCEPT ![n] = "provisioning"]
              /\ memberOf' = [memberOf EXCEPT ![n] = e]
              /\ inventory' = [inventory EXCEPT ![e] = @ + 1]
              /\ plan' = Tail(plan) /\ scanned' = 0
      /\ UNCHANGED <<policy, edits, even>>

(* The batch breaks: the names are exhausted, the scan ends for now, or the
   owner expired before the insertion. *)
BreakBatch ==
  /\ plan # <<>>
  /\ plan' = <<>>
  /\ UNCHANGED <<policy, inventory, named, memberOf, settings, scanned, edits, even>>

(* Direct accounts take names of the same space without the gate. *)
CreateDirect(n) ==
  /\ named[n] = "free" /\ edits < MaxEdits
  /\ named' = [named EXCEPT ![n] = "direct"] /\ edits' = edits + 1
  /\ UNCHANGED <<policy, inventory, memberOf, settings, plan, scanned, even>>

(* Members become idle, are leased or fail (busy), and come back. *)
Moves(n) ==
  /\ \E s \in CASE named[n] = "provisioning" -> {"idle", "busy"}
                [] named[n] = "idle" -> {"busy"}
                [] named[n] = "busy" -> {"idle"}
                [] OTHER -> {} : named' = [named EXCEPT ![n] = s]
  /\ UNCHANGED <<policy, inventory, memberOf, settings, plan, scanned, edits, even>>

(* nextPolicy: compare-and-set, allowed transitions, and the name space
   bounds the caps.  It waits for the gate a batch holds. *)
UpdateEnterprisePolicy(e, cap, state, version) ==
  /\ plan = <<>> /\ edits < MaxEdits /\ version = policy[e].version
  /\ state = policy[e].state \/ <<policy[e].state, state>> \in {<<"active", "draining">>, <<"draining", "active">>}
  /\ FoldSet(LAMBDA f, sum : sum + (IF f = e THEN cap ELSE policy[f].cap), 0, Enterprises) <= NameCapacity
  /\ policy' = [policy EXCEPT ![e] = [cap |-> cap, state |-> state, version |-> version + 1]]
  /\ edits' = edits + 1 /\ even' = FALSE
  /\ UNCHANGED <<inventory, named, memberOf, settings, plan, scanned>>

(* nextSettings *)
UpdateSettings(target, paused) ==
  /\ plan = <<>> /\ edits < MaxEdits
  /\ settings' = [settings EXCEPT !.idleTarget = target, !.paused = paused]
  /\ edits' = edits + 1
  /\ UNCHANGED <<policy, inventory, named, memberOf, plan, scanned, even>>

GrowthNext ==
  \/ \E eligible \in SUBSET Enterprises : PlanBatch(eligible)
  \/ ReserveName \/ BreakBatch
  \/ \E n \in Names : CreateDirect(n) \/ Moves(n)
  \/ \E e \in Enterprises, cap \in Caps, state \in {"active", "draining"} :
       UpdateEnterprisePolicy(e, cap, state, policy[e].version)
  \/ \E target \in Targets, paused \in BOOLEAN : UpdateSettings(target, paused)

-----------------------------------------------------------------------------
(* An enterprise grows below its cap and while active, by a name nobody used,
   and the counter is the number of its members. *)
CapsHold ==
  [][\A e \in Enterprises : inventory'[e] # inventory[e] =>
       /\ policy[e].state = "active" /\ inventory'[e] <= policy[e].cap
       /\ inventory'[e] = Cardinality({n \in Names : memberOf'[n] = e})
       /\ named[settings.nextOrdinal] = "free"]_growthVars

(* A batch plans no supply beyond the target of idle members. *)
SupplyFollowsTarget ==
  [][plan = <<>> /\ plan' # <<>> => ReadyIdle + InFlight + Len(plan') <= settings.idleTarget]_growthVars

(* The pool grows neither past its caps nor past its target, whatever direct
   accounts are created while a batch is open. *)
GrowthIsBounded == CapsHold /\ SupplyFollowsTarget

(* While every enterprise may grow, none holds more than its share of the
   members by a whole account: C * N_e - N * C_e <= C - C_e. *)
SharesAreKept ==
  (\A e \in Enterprises : inventory[e] < policy[e].cap) =>
    \A e \in Enterprises : inventory[e] > 0 => -ShareScore(e, inventory) <= Capacity - policy[e].cap

(* Growth keeps the caps and the target, and the shares while the caps stay. *)
GrowthIsSafe == GrowthIsBounded /\ [](even => SharesAreKept)
=============================================================================

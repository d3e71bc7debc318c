----------------------------- MODULE MCPoolRework -----------------------------
(***************************************************************************)
(* The generations of a pool member, and the upgrades of the databases its *)
(* rows are in, side by side: they share no state, so a behaviour is a     *)
(* behaviour of one part.                                                  *)
(***************************************************************************)
EXTENDS MCUserPool, MysqlMigrations, ServiceDb

VARIABLE part

(* MysqlMigrations: replicas that disagree on everything. *)
MCIdentity == [r \in Replicas |-> r]
MCPoolConfig == [r \in Replicas |-> IF r = "b" THEN "y" ELSE "x"]
MCRegistered == [r \in Replicas |-> IF r = "a" THEN {"default", "other"} ELSE {"default"}]

MCDefaultPrint == [o \in Openers |-> o]

-----------------------------------------------------------------------------
MCInit ==
  /\ part \in {"pool", "upgrade", "db"}
  /\ Init
  /\ UpgradeInit /\ (members["default"] = 0 <=> poolSettings = NoRow)
  /\ (part # "upgrade" => recorded = {} /\ poolSettings = NoRow)
  /\ DbInit /\ (part # "db" => service = "sso")

MCNext ==
  \/ part = "pool" /\ Next /\ UNCHANGED <<part, upgradeVars, dbVars>>
  \/ part = "upgrade" /\ UpgradeNext /\ UNCHANGED <<part, vars, dbVars>>
  \/ part = "db" /\ DbNext /\ UNCHANGED <<part, vars, upgradeVars>>

MCSpec == MCInit /\ [][MCNext]_<<part, vars, upgradeVars, dbVars>>

-----------------------------------------------------------------------------
(* What an upgrade leaves behind is complete once it is recorded, counted and
   agreed on; it neither loses rows nor changes what an enterprise is. *)
UpgradesAreSafe ==
  [](RecordedMeansApplied /\ InventoryAgrees /\ ReplicasAgree) /\ IdentityIsFixed /\ UpgradeKeepsData
=============================================================================

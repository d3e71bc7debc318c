---------------------------- MODULE MCMysqlStore ----------------------------
(***************************************************************************)
(* The databases: sessions on the tables of the pool in MySQL and its      *)
(* growth by batches, and the offline tools that copy SQLite into MySQL,   *)
(* side by side.  They share no state, so a behaviour is a behaviour of    *)
(* one part.                                                               *)
(***************************************************************************)
EXTENDS MysqlStore, Replenishment, PoolImport, DirectImport

VARIABLE part

Symmetry == Permutations(Sessions) \cup Permutations(Callers) \cup Permutations(Requests)

(* PoolImport: a backup of either shape, and one whose ready member has no token. *)
MCSingle == [journal |-> "rollback", shape |-> "single", fence |-> TRUE, enterprises |-> {}, counter |-> 0,
             state |-> "ready", stage |-> "ready", oauth |-> "valid", uncertain |-> FALSE,
             evidence |-> TRUE, paused |-> TRUE, live |-> FALSE, holds |-> FALSE, identity |-> "other"]
MCMulti == [MCSingle EXCEPT !.shape = "multi", !.enterprises = {"default"}, !.counter = 1,
              !.identity = "deployment", !.state = "disabled", !.oauth = "missing", !.evidence = FALSE]
MCUnproven == [MCSingle EXCEPT !.oauth = "missing"]
MCBackups == {MCSingle, MCMulti, MCUnproven}

(* DirectImport: two sources that overlap, and one that was migrated in part. *)
MCRunRows == [r \in Runs |-> CASE r = "r1" -> {1, 2} [] r = "r2" -> {2, 3} [] OTHER -> {1}]
MCRunSource == [r \in Runs |->
  [shape |-> CASE r = "r1" -> "multi" [] r = "r2" -> "single" [] OTHER -> "partial",
   enterprises |-> {"default"}, print |-> "deployment", members |-> 0]]

-----------------------------------------------------------------------------
MCInit ==
  /\ part \in {"store", "growth", "import", "legacy", "copy"}
  /\ Init /\ DirectInit
  /\ GrowthInit /\ policy[1].cap <= policy[2].cap /\ Capacity = NameCapacity
  /\ (part # "growth" => policy[1].cap = 2)
  /\ PoolImportInit /\ (part # "import" => \A t \in Imports : backup[t] = MCSingle)

MCNext ==
  \/ /\ part = "store" /\ Next
     /\ UNCHANGED <<part, growthVars, poolImportVars, directVars>>
  \/ /\ part = "growth" /\ GrowthNext
     /\ UNCHANGED <<part, vars, poolImportVars, directVars>>
  \/ /\ part = "import" /\ TargetNext
     /\ UNCHANGED <<part, vars, growthVars, directVars>>
  \/ /\ part = "legacy" /\ LegacyStep
     /\ UNCHANGED <<part, vars, growthVars, directVars>>
  \/ /\ part = "copy" /\ DirectNext
     /\ UNCHANGED <<part, vars, growthVars, poolImportVars>>

MCSpec ==
  MCInit /\ [][MCNext]_<<part, vars, growthVars, poolImportVars, directVars>>

-----------------------------------------------------------------------------
(* Both copies into MySQL are all or nothing. *)
CopiesAreWhole == OfflineToolsAreSafe /\ DirectCopyIsWhole
=============================================================================

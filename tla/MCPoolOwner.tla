---------------------------- MODULE MCPoolOwner ----------------------------
(* Finite instances of PoolOwner for TLC. *)
EXTENDS PoolOwner, TLC

CONSTANTS w1, w2, i1, i2, j1, j2

(* Two UUIDs per worker: one that is still referred to, one that is fresh. *)
TwoIdsEach == [i \in Ids |-> IF i \in {i1, i2} THEN w1 ELSE w2]

=============================================================================

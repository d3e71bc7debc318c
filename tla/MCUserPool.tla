----------------------------- MODULE MCUserPool -----------------------------
(* Finite instances of UserPool for TLC. *)
EXTENDS UserPool, TLC

CONSTANT e1

(* Every member belongs to the same enterprise. *)
OneEnterprise == [m \in Members |-> e1]

(* Callers and request slots are interchangeable; so are the members of one
   enterprise when none of them is singled out. *)
ClientSymmetry == Permutations(Callers) \cup Permutations(Requests)
FullSymmetry == ClientSymmetry \cup Permutations(Members)

=============================================================================

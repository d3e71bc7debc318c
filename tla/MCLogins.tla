------------------------------ MODULE MCLogins ------------------------------
(***************************************************************************)
(* Login's task queue, and the slots the Proxy gives to logins, side by    *)
(* side: a behaviour is a behaviour of one part.                           *)
(***************************************************************************)
EXTENDS LoginTasks, Provisioner, TLC

VARIABLE part

MCAccountOf == [i \in Attempts |-> CHOOSE a \in Accounts : TRUE]

MCSymmetry == Permutations(Tasks) \cup Permutations(Attempts) \cup Permutations(Members)

LoginsInit == part \in {"tasks", "provision"} /\ Init /\ ProvisionInit

LoginsNext ==
  \/ part = "tasks" /\ Next /\ UNCHANGED <<part, provisionVars>>
  \/ part = "provision" /\ ProvisionNext /\ UNCHANGED <<part, vars>>

LoginsSpec == LoginsInit /\ [][LoginsNext]_<<part, vars, provisionVars>>
=============================================================================

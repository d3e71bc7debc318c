----------------------------- MODULE MCOperators -----------------------------
(***************************************************************************)
(* What operators start and watch: the lists of the console, the batch     *)
(* operations behind them, the login tasks those submit and the error log, *)
(* side by side.  They share no state, so a behaviour is a behaviour of    *)
(* one part.                                                               *)
(***************************************************************************)
EXTENDS LoginTasks, Operations, ConsoleOperations, ConsoleRows, Diagnostics, TLC

VARIABLE part

(* LoginTasks *)
MCAccountOf == [i \in Attempts |-> CHOOSE a \in Accounts : TRUE]

(* Operations: the first and the last record are of one account. *)
MCKeyOf == <<"a", "b", "a">>

(* Diagnostics: a body that is kept, and one that does not fit and does not parse. *)
MCBody(bytes, parses) ==
  [complete |-> TRUE, truncated |-> FALSE, type |-> "json", encoded |-> FALSE, bytes |-> bytes, parses |-> parses]
MCBodies == {MCBody(1, TRUE), MCBody(2, FALSE)}

MCInit ==
  /\ part \in {"tasks", "batch", "console", "rows", "log"}
  /\ Init /\ OpInit /\ ConsoleInit /\ DiagInit
  /\ RowsInit /\ place.tenant = "e1"

MCNext ==
  \/ /\ part = "tasks" /\ Next
     /\ UNCHANGED <<part, opVars, consoleVars, rowVars, diagVars>>
  \/ /\ part = "batch" /\ OpNext
     /\ UNCHANGED <<part, vars, consoleVars, rowVars, diagVars>>
  \/ /\ part = "console" /\ ConsoleNext
     /\ UNCHANGED <<part, vars, opVars, rowVars, diagVars>>
  \/ /\ part = "rows" /\ RowsNext
     /\ UNCHANGED <<part, vars, opVars, consoleVars, diagVars>>
  \/ /\ part = "log" /\ DiagNext
     /\ UNCHANGED <<part, vars, opVars, consoleVars, rowVars>>

(* The fairness of LoginTasks, of the behaviours that are its own. *)
MCFairness ==
  /\ \A t \in Tasks : WF_vars(part = "tasks" /\ RunNext(t)) /\ WF_vars(part = "tasks" /\ FinishCancellation(t))
  /\ \A i \in Attempts : /\ WF_vars(part = "tasks" /\ SaveChecked(i))
                         /\ WF_vars(part = "tasks" /\ (SaveToken(i) \/ SubjectFails(i)))
  /\ WF_vars(part = "tasks" /\ Recover)

MCSpec == MCInit /\ [][MCNext]_<<part, vars, opVars, consoleVars, rowVars, diagVars>> /\ MCFairness

-----------------------------------------------------------------------------
(* What the lists of the console keep for the operator: no accepted batch is
   forgotten or shown in another session, rows and selections are those of the
   scope on screen, and what failed stays selected. *)
ConsoleIsSafe == [](BatchesAreKept /\ RowsAreSafe) /\ FailedStaySelected
=============================================================================

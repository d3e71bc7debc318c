----------------------------- MODULE CallerLine -----------------------------
(* What the caller gate of the MySQL store promises to its database: each    *)
(* caller has a line of bounded length, requests join it at the end and keep *)
(* their order, only the first of a line may have anything to do with a      *)
(* connection, and nobody leaves the line while the driver still owes or     *)
(* lends a connection on its behalf.                                         *)
EXTENDS Naturals, Sequences, SequencesExt

CONSTANTS Requests, Callers, LineLimit

VARIABLES line, using

vars == <<line, using>>

Init == /\ line = [c \in Callers |-> << >>]
        /\ using = [c \in Callers |-> {}]

Join(c, r) == /\ Len(line[c]) < LineLimit
              /\ r \notin ToSet(line[c])
              /\ line' = [line EXCEPT ![c] = Append(@, r)]
              /\ UNCHANGED using

Use(c, r) == /\ line[c] # << >> /\ Head(line[c]) = r
             /\ using' = [using EXCEPT ![c] = {r}]
             /\ UNCHANGED line

Return(c, r) == /\ r \in using[c]
                /\ using' = [using EXCEPT ![c] = @ \ {r}]
                /\ UNCHANGED line

Leave(c, r) == /\ \E k \in DOMAIN line[c] : /\ line[c][k] = r
                                             /\ line' = [line EXCEPT ![c] = RemoveAt(@, k)]
               /\ using' = [using EXCEPT ![c] = @ \ {r}]

Next == \E c \in Callers, r \in Requests :
            Join(c, r) \/ Use(c, r) \/ Return(c, r) \/ Leave(c, r)

Spec == Init /\ [][Next]_vars
=============================================================================

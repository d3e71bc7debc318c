------------------------------ MODULE Shutdown ------------------------------
(***************************************************************************)
(* Start and graceful shutdown of the Proxy: startServer opens storage and *)
(* pool before it listens; installGracefulShutdown drains keep-alive       *)
(* connections, releases pool and storage and exits, within two timers.    *)
(*                                                                         *)
(* A connection is fresh until its first request; Node counts it as idle   *)
(* only after one.  A hanging release keeps some handle of its own open,   *)
(* so that the unreferenced timers still fire.                             *)
(***************************************************************************)
EXTENDS Naturals

CONSTANTS Conns, MaxRequests

ASSUME ShutdownAssumption == MaxRequests \in Nat

VARIABLES
  life,       \* starting, cleanup, up, draining, releasing or exited
  code,       \* exitCode, and the code of the exit
  conn,       \* state of each connection
  handler,    \* connections whose handler runs before the end of its response
  tails,      \* ... handlers of each that run after it: statistics, the finish of a hold
  ending,     \* ... that closeAfterResponse has marked
  began,      \* requests begun on each connection
  drained,    \* the drain timer has fired
  poolUp, storageUp, released,  \* getUserPool, storage, and whether release was settled
  busyAtSignal, lateOn, cut     \* history: busy when draining began, requests since, ended under their handler

lifeVars == <<life, code, drained>>
connVars == <<conn, handler, tails, ending, began, lateOn, cut>>
resourceVars == <<poolUp, storageUp, released>>
shutdownVars == <<lifeVars, connVars, resourceVars, busyAtSignal>>

ShutdownInit ==
  /\ life = "starting" /\ code = 0 /\ drained = FALSE
  /\ conn = [c \in Conns |-> "fresh"] /\ began = [c \in Conns |-> 0]
  /\ handler = {} /\ tails = [c \in Conns |-> 0] /\ ending = {} /\ lateOn = {} /\ cut = {} /\ busyAtSignal = {}
  /\ poolUp = FALSE /\ storageUp = FALSE /\ released = FALSE

Alive == life \in {"up", "draining", "releasing"}

-----------------------------------------------------------------------------
(* startServer *)

StartStorage ==
  /\ life = "starting" /\ ~storageUp
  /\ storageUp' = TRUE
  /\ UNCHANGED <<lifeVars, connVars, poolUp, released, busyAtSignal>>

StartPool ==
  /\ life = "starting" /\ storageUp /\ ~poolUp
  /\ poolUp' = TRUE
  /\ UNCHANGED <<lifeVars, connVars, storageUp, released, busyAtSignal>>

Listen ==
  /\ life = "starting" /\ poolUp
  /\ life' = "up"
  /\ UNCHANGED <<code, drained, connVars, resourceVars, busyAtSignal>>

StartFails ==
  /\ life = "starting"
  /\ life' = "cleanup" /\ code' = 1
  /\ UNCHANGED <<drained, connVars, resourceVars, busyAtSignal>>

-----------------------------------------------------------------------------
(* Connections. *)

(* The 'request' listener: while draining every response closes its connection. *)
Request(c) ==
  /\ Alive /\ conn[c] \in {"fresh", "idle"} /\ began[c] < MaxRequests
  /\ conn' = [conn EXCEPT ![c] = "busy"]
  /\ began' = [began EXCEPT ![c] = @ + 1]
  /\ handler' = handler \cup {c}
  /\ ending' = IF life = "up" THEN ending ELSE ending \cup {c}
  /\ lateOn' = IF life = "up" THEN lateOn ELSE lateOn \cup {c}
  /\ UNCHANGED <<lifeVars, tails, cut, resourceVars, busyAtSignal>>

(* The response is complete: by its header, or by its 'finish' listener, a
   marked connection ends.  A handler that has not returned goes on. *)
ResponseEnds(c) ==
  /\ Alive /\ conn[c] = "busy"
  /\ conn' = [conn EXCEPT ![c] = IF c \in ending THEN "closed" ELSE "idle"]
  /\ handler' = handler \ {c}
  /\ tails' = IF c \in handler THEN [tails EXCEPT ![c] = @ + 1] ELSE tails
  /\ UNCHANGED <<lifeVars, ending, began, lateOn, cut, resourceVars, busyAtSignal>>

(* Connections that end whatever their handlers do. *)
Closing(cs) ==
  /\ conn' = [c \in Conns |-> IF c \in cs THEN "closed" ELSE conn[c]]
  /\ cut' = cut \cup (cs \cap handler)

ConnectionLost(c) ==
  /\ Alive /\ conn[c] # "closed"
  /\ Closing({c})
  /\ UNCHANGED <<lifeVars, handler, tails, ending, began, lateOn, resourceVars, busyAtSignal>>

(* The handler returns: with its answer still on the way, after its client has
   gone, or after the end of its response. *)
HandlerEnds(c) ==
  /\ Alive /\ c \in handler
  /\ handler' = handler \ {c}
  /\ UNCHANGED <<lifeVars, conn, tails, ending, began, lateOn, cut, resourceVars, busyAtSignal>>

TailEnds(c) ==
  /\ Alive /\ tails[c] > 0
  /\ tails' = [tails EXCEPT ![c] = @ - 1]
  /\ UNCHANGED <<lifeVars, conn, handler, ending, began, lateOn, cut, resourceVars, busyAtSignal>>

-----------------------------------------------------------------------------
(* run(): mark what is in flight, close what is idle, then await the server. *)

InFlightConns == {c \in Conns : conn[c] = "busy"}

(* Mutant: only idle connections are closed, as server.close() does. *)
DrainUnmarked ==
  /\ life = "up"
  /\ life' = "draining"
  /\ busyAtSignal' = InFlightConns
  /\ Closing({c \in Conns : conn[c] = "idle"})
  /\ UNCHANGED <<code, drained, handler, tails, ending, began, lateOn, resourceVars>>

StartDraining ==
  /\ life = "up"
  /\ life' = "draining"
  /\ busyAtSignal' = InFlightConns
  /\ ending' = ending \cup InFlightConns
  /\ Closing({c \in Conns : conn[c] = "idle"})
  /\ UNCHANGED <<code, drained, handler, tails, began, lateOn, resourceVars>>

DrainTimer ==
  /\ life = "draining" /\ ~drained
  /\ drained' = TRUE
  /\ Closing(Conns)
  /\ UNCHANGED <<life, code, handler, tails, ending, began, lateOn, resourceVars, busyAtSignal>>

(* hardExitTimer fires after the drain timer, or after release began. *)
HardExit ==
  /\ life = "releasing" \/ (life = "draining" /\ drained)
  /\ life' = "exited" /\ code' = 1
  /\ UNCHANGED <<drained, connVars, resourceVars, busyAtSignal>>

(* shutdown() while running is set. *)
SecondSignal ==
  /\ life \in {"draining", "releasing"}
  /\ life' = "exited" /\ code' = 1
  /\ UNCHANGED <<drained, connVars, resourceVars, busyAtSignal>>

(* closeServer resolves when no connection is left. *)
ServerClosed ==
  /\ life = "draining" /\ \A c \in Conns : conn[c] = "closed"
  /\ life' = "releasing"
  /\ UNCHANGED <<code, drained, connVars, resourceVars, busyAtSignal>>

(* release: the pool is stopped, then storage closed; a failure of the first
   skips the second. *)
StopPool ==
  /\ life \in {"releasing", "cleanup"} /\ poolUp /\ ~released
  /\ \/ poolUp' = FALSE /\ UNCHANGED <<code, released>>
     \/ released' = TRUE /\ code' = 1 /\ UNCHANGED poolUp
  /\ UNCHANGED <<life, drained, connVars, storageUp, busyAtSignal>>

CloseStorage ==
  /\ life \in {"releasing", "cleanup"} /\ ~poolUp /\ ~released
  /\ released' = TRUE
  /\ \/ storageUp' = FALSE /\ UNCHANGED code
     \/ code' = 1 /\ UNCHANGED storageUp
  /\ UNCHANGED <<life, drained, connVars, poolUp, busyAtSignal>>

Exit ==
  /\ life \in {"releasing", "cleanup"} /\ released
  /\ life' = "exited"
  /\ UNCHANGED <<code, drained, connVars, resourceVars, busyAtSignal>>

-----------------------------------------------------------------------------
ShutdownNext ==
  \/ StartStorage \/ StartPool \/ Listen \/ StartFails
  \/ \E c \in Conns : Request(c) \/ ResponseEnds(c) \/ ConnectionLost(c) \/ HandlerEnds(c) \/ TailEnds(c)
  \/ StartDraining \/ DrainTimer \/ HardExit \/ SecondSignal \/ ServerClosed
  \/ StopPool \/ CloseStorage \/ Exit

(* The timers fire and a closed server resolves; nothing is assumed of
   handlers, of clients or of the release. *)
ShutdownSpec == ShutdownInit /\ [][ShutdownNext]_shutdownVars
                  /\ WF_shutdownVars(DrainTimer) /\ WF_shutdownVars(ServerClosed) /\ WF_shutdownVars(HardExit)

-----------------------------------------------------------------------------
(* The orchestrator is told 0 only if everything was given back. *)
CleanExitIsClean ==
  life = "exited" /\ code = 0 => ~poolUp /\ ~storageUp /\ \A c \in Conns : conn[c] = "closed"

(* Storage is taken from under a handler before the end of its response only
   when its connection was already gone: by its client, or by the drain timer.
   Every connection has ended by then, so no other handler begins; but nothing
   waits for what a handler does after its response (tails): its statistic and
   the finish of its hold may find storage closed. *)
AnswersKeepStorage ==
  Alive /\ (~poolUp \/ ~storageUp) => handler \subseteq cut /\ \A c \in Conns : conn[c] = "closed"

(* Clients move to another replica: a connection that was busy when draining
   began serves nothing after its response. *)
BusyConnectionsEnd == busyAtSignal \cap lateOn = {}

(* Graceful shutdown gives back what it took and sends clients away. *)
ShutdownIsSafe == CleanExitIsClean /\ AnswersKeepStorage /\ BusyConnectionsEnd

-----------------------------------------------------------------------------
(* Why it does. *)

ShutdownTypeOK ==
  /\ life \in {"starting", "cleanup", "up", "draining", "releasing", "exited"} /\ code \in {0, 1}
  /\ conn \in [Conns -> {"fresh", "idle", "busy", "closed"}] /\ began \in [Conns -> 0..MaxRequests]
  /\ handler \subseteq Conns /\ tails \in [Conns -> Nat] /\ ending \subseteq Conns /\ lateOn \subseteq Conns
  /\ cut \subseteq Conns /\ busyAtSignal \subseteq Conns
  /\ drained \in BOOLEAN /\ poolUp \in BOOLEAN /\ storageUp \in BOOLEAN /\ released \in BOOLEAN

(* Pool and storage are given back in order, and only when every connection
   has ended or the process never served. *)
ResourcesInv ==
  /\ life \in {"starting", "up", "draining"} => (poolUp => storageUp) /\ ~released
  /\ life \in {"up", "draining"} => poolUp
  /\ life \in {"starting", "up", "draining"} => code = 0
  /\ life = "releasing" => \A c \in Conns : conn[c] = "closed"
  /\ life = "cleanup" => code = 1
  /\ released /\ code = 0 => ~poolUp /\ ~storageUp

(* A handler runs on an open connection or has lost it, and a connection that
   was busy when draining began is marked. *)
ConnInv ==
  \A c \in Conns :
    /\ conn[c] = "closed" /\ c \in handler => c \in cut
    /\ c \in handler => conn[c] \in {"busy", "closed"}
    /\ c \in busyAtSignal => c \in ending /\ conn[c] \in {"busy", "closed"}

HistoryInv == life \in {"starting", "up"} => busyAtSignal = {} /\ lateOn = {}

ShutdownInv == ShutdownTypeOK /\ ResourcesInv /\ ConnInv /\ HistoryInv /\ CleanExitIsClean /\ BusyConnectionsEnd

-----------------------------------------------------------------------------
(* "the process never lingers": once draining, it exits, whatever requests
   and the release do. *)
ShutdownEnds == (life = "draining") ~> (life = "exited")
=============================================================================

------------------------------- MODULE MCProxy -------------------------------
(***************************************************************************)
(* The request path of the Proxy and the calls it makes, side by side: the *)
(* components share no state, so a behaviour is a behaviour of one part.   *)
(***************************************************************************)
EXTENDS PoolRequest, ModelsCache, ReclaimCursor, BrowserLogin, Shutdown, Provisioner,
        Operations, SseStream

VARIABLE part

MCKeyOf == <<"a", "b">>

(* SseStream: one or two events in both line endings, named or not, perhaps cut off. *)
MCLine == {line \o end : line \in {<<"delta">>, <<"stop">>, <<"done">>, <<"fail">>},
                         end \in {<<"LF">>, <<"LF", "LF">>, <<"CR", "LF">>, <<"CR", "LF", "CR", "LF">>}}
MCNamed == {<<"name", "LF">> \o line : line \in MCLine}
MCTexts == {a \o b : a \in MCLine, b \in MCLine \cup MCNamed \cup {<<>>, <<"stop">>}}
MCRenamed == [delta |-> "Delta", stop |-> "Stop", fail |-> "Fail"]
MCUsageOf == [delta |-> 1, stop |-> 2, fail |-> 0]

-----------------------------------------------------------------------------
MCInit ==
  /\ part \in {"request", "cache", "reclaim", "browser", "shutdown", "provision", "batch",
             "stream"}
  /\ RequestInit /\ (part # "request" => kind = "inference")
  /\ CacheInit /\ ShutdownInit /\ ProvisionInit /\ OpInit
  /\ StreamInit /\ (part # "stream" => text = <<"stop", "LF">> /\ ~filterDone)
  /\ ReclaimInit /\ (part # "reclaim" => due = {} /\ locked = {})
  /\ BrowserInit /\ (part # "browser" => ~gheCom)

MCNext ==
  \/ /\ part = "request" /\ RequestNext
     /\ UNCHANGED <<part, cacheVars, reclaimVars, browserVars, shutdownVars, provisionVars, opVars,
                    streamVars>>
  \/ /\ part = "cache" /\ CacheNext
     /\ UNCHANGED <<part, requestVars, reclaimVars, browserVars, shutdownVars, provisionVars, opVars,
                    streamVars>>
  \/ /\ part = "reclaim" /\ ReclaimNext
     /\ UNCHANGED <<part, requestVars, cacheVars, browserVars, shutdownVars, provisionVars, opVars,
                    streamVars>>
  \/ /\ part = "browser" /\ BrowserNext
     /\ UNCHANGED <<part, requestVars, cacheVars, reclaimVars, shutdownVars, provisionVars, opVars,
                    streamVars>>
  \/ /\ part = "shutdown" /\ ShutdownNext
     /\ UNCHANGED <<part, requestVars, cacheVars, reclaimVars, browserVars, provisionVars, opVars,
                    streamVars>>
  \/ /\ part = "provision" /\ ProvisionNext
     /\ UNCHANGED <<part, requestVars, cacheVars, reclaimVars, browserVars, shutdownVars, opVars,
                    streamVars>>
  \/ /\ part = "batch" /\ OpNext
     /\ UNCHANGED <<part, requestVars, cacheVars, reclaimVars, browserVars, shutdownVars, provisionVars,
                    streamVars>>
  \/ /\ part = "stream" /\ StreamNext
     /\ UNCHANGED <<part, requestVars, cacheVars, reclaimVars, browserVars, shutdownVars, provisionVars, opVars>>

(* The fairness of each component, of the behaviours that are its own. *)
MCFairness ==
  /\ WF_requestVars(part = "request" /\ Running) /\ WF_requestVars(part = "request" /\ Deadline)
  /\ WF_requestVars(part = "request" /\ HoldExpires) /\ WF_requestVars(part = "request" /\ HeartbeatEnds)
  /\ WF_cacheVars(part = "cache" /\ \E r \in Refreshes : Fetched(r) \/ RefreshFailed(r))
  /\ WF_reclaimVars(part = "reclaim" /\ ReclaimBatch)
  /\ WF_browserVars(part = "browser" /\ FlowStep) /\ WF_browserVars(part = "browser" /\ CloseBrowser)
  /\ WF_shutdownVars(part = "shutdown" /\ DrainTimer) /\ WF_shutdownVars(part = "shutdown" /\ HardExit)
  /\ WF_shutdownVars(part = "shutdown" /\ ServerClosed)
  /\ \A m \in Members : /\ WF_provisionVars(part = "provision" /\ StepNext(m))
                        /\ WF_provisionVars(part = "provision" /\ ReleaseReservation(m))
  /\ \A w \in Workers :
       WF_opVars(part = "batch" /\ (Take(w) \/ Check(w) \/ Perform(w) \/ PerformNow(w)))
  /\ WF_opVars(part = "batch" /\ Collect) /\ WF_opVars(part = "batch" /\ CompleteOperation)
  /\ \A i \in Items : /\ WF_opVars(part = "batch" /\ JobEnds(i))
                      /\ WF_opVars(part = "batch" /\ (RefreshJob(i) \/ RefreshFails(i)))

MCSpec ==
  /\ MCInit
  /\ [][MCNext]_<<part, requestVars, cacheVars, reclaimVars, browserVars, shutdownVars, provisionVars,
                  opVars, streamVars>>
  /\ MCFairness

-----------------------------------------------------------------------------
(* What the callers wait for comes: the slot of a login that ended is given
   back, a committed hold is finished, a lookup of the models is answered, an
   expired member is reclaimed, a login returns, a draining process exits
   and a confirmed batch operation ends. *)
WaitsEnd ==
  /\ ReservationEnds /\ HoldIsFinished /\ LookupEnds /\ NobodyIsStarved
  /\ part = "browser" => LoginReturns
  /\ ShutdownEnds /\ OperationEnds
=============================================================================

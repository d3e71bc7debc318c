---------------------------- MODULE PoolRequest ----------------------------
(***************************************************************************)
(* One request of the pool in the event loop of the Proxy: the bounded     *)
(* admission, the handler of the compatible routes, the events of the      *)
(* response, and the single finish() of the hold they race for.  A step    *)
(* ends at an await.                                                       *)
(***************************************************************************)
EXTENDS Naturals

VARIABLES
  kind,        \* inference, count (count_tokens) or models
  stage,       \* where the handler awaits
  res,         \* the Express response
  hold,        \* external: the hold in the store
  aborted,     \* signal of the admission, then of the request
  finishing,   \* the promise finishing, or the cleanup of a late hold
  renew,       \* argument of store.finish
  responseSucceeded,
  poolSuccess, \* res.locals.poolSuccess
  operationActive,
  upstreamComplete,
  upstream,    \* status of the upstream response
  stats,       \* statistics recorded for the request
  timers,      \* timeout and heartbeat are set
  closed,      \* the close event was emitted
  timedOut     \* the deadline has answered 504

settled == <<kind, poolSuccess, operationActive, upstreamComplete, upstream, stats, timedOut>>
finishVars == <<hold, finishing, renew, responseSucceeded, timers>>
requestVars == <<kind, stage, res, hold, aborted, finishing, renew, responseSucceeded, poolSuccess,
                 operationActive, upstreamComplete, upstream, stats, timers, closed, timedOut>>

Handled == {"auth", "model", "fetch", "pipe", "buffer", "stream", "fallback", "listed", "refusing",
            "empty", "tail", "caught", "answer", "leave"}
Traffic == {"model", "fetch", "pipe", "buffer", "stream", "fallback"}

RequestInit ==
  /\ kind \in {"inference", "count", "models"}
  /\ stage = "arrived"
  /\ res = [headers |-> FALSE, ended |-> FALSE, finished |-> FALSE, destroyed |-> FALSE, ok |-> TRUE]
  /\ hold = "none" /\ finishing = "idle" /\ upstream = "none" /\ stats = 0
  /\ aborted = FALSE /\ renew = FALSE /\ responseSucceeded = FALSE /\ poolSuccess = FALSE
  /\ operationActive = FALSE /\ upstreamComplete = FALSE /\ timers = FALSE /\ closed = FALSE
  /\ timedOut = FALSE

(* A JSON answer: headers and body leave at once. *)
Sent(ok) == [headers |-> TRUE, ended |-> TRUE, finished |-> res.finished,
             destroyed |-> res.destroyed, ok |-> ok]

(* The error answer of the catch blocks. *)
Answered == IF ~res.headers /\ ~res.destroyed THEN Sent(FALSE) ELSE [res EXCEPT !.ended = TRUE]

-----------------------------------------------------------------------------
(* Mutant: the hold is finished although its upstream is still draining. *)
FinishAtOnce(success) ==
  /\ responseSucceeded' = (responseSucceeded \/ (success /\ kind = "inference" /\ res.ok))
  /\ IF finishing # "idle"
     THEN UNCHANGED <<finishing, renew, aborted, timers>>
     ELSE /\ aborted' = TRUE /\ timers' = FALSE
          /\ finishing' = "running" /\ renew' = responseSucceeded'

(* finish(): the first call clears the timers and aborts; it is put off while
   an operation still drains its upstream.  The argument of store.finish is
   fixed when the promise starts. *)
Finish(success) ==
  /\ responseSucceeded' = (responseSucceeded \/ (success /\ kind = "inference" /\ res.ok))
  /\ IF finishing # "idle"
     THEN UNCHANGED <<finishing, renew, aborted, timers>>
     ELSE /\ aborted' = TRUE /\ timers' = FALSE
          /\ IF operationActive' /\ ~upstreamComplete'
             THEN UNCHANGED <<finishing, renew>>
             ELSE finishing' = "running" /\ renew' = responseSucceeded'

(* store.finish answers, or fails and leaves the hold to its expiry. *)
StoreFinishes ==
  /\ finishing = "running"
  /\ finishing' = "done"
  /\ hold' \in IF hold = "held" THEN {"finished", "left"} ELSE {hold}
  /\ UNCHANGED <<settled, stage, res, aborted, renew, responseSucceeded, timers, closed>>

-----------------------------------------------------------------------------
(* routeUserPool up to the wrapper: an invalid model is refused. *)
Arrive ==
  /\ stage = "arrived"
  /\ \/ stage' = "queued" /\ UNCHANGED res
     \/ stage' = "refused" /\ res' = Answered
  /\ UNCHANGED <<settled, finishVars, aborted, closed>>

(* The request gives up: the timeout of the admission or the client. *)
AbortAdmission ==
  /\ stage \in {"queued", "admitting"} /\ ~aborted
  /\ aborted' = TRUE
  /\ \/ res' = Sent(FALSE)
     \/ res' = [res EXCEPT !.destroyed = TRUE]
  /\ UNCHANGED <<settled, finishVars, stage, closed>>

(* The deferred operation does not start after an abort. *)
StartAdmission ==
  /\ stage = "queued"
  /\ stage' = IF aborted THEN "refused" ELSE "admitting"
  /\ UNCHANGED <<settled, finishVars, res, aborted, closed>>

(* boundedAdmission: a late hold is cleaned up, never forwarded. *)
Admit ==
  /\ stage = "admitting"
  /\ hold' = "held"
  /\ IF aborted
     THEN stage' = "refused" /\ finishing' = "running" /\ UNCHANGED timers
     ELSE stage' = "routed" /\ timers' = TRUE /\ UNCHANGED finishing
  /\ UNCHANGED <<settled, res, aborted, renew, responseSucceeded, closed>>

(* acquire rejects. *)
Refuse ==
  /\ stage = "admitting"
  /\ stage' = "refused"
  /\ res' = IF aborted THEN res ELSE Answered
  /\ UNCHANGED <<settled, finishVars, aborted, closed>>

-----------------------------------------------------------------------------
Goto(s) == stage' = s /\ UNCHANGED <<kind, finishVars, res, aborted, poolSuccess, operationActive,
                                     upstreamComplete, upstream, stats, closed, timedOut>>

Record == stats' = stats + 1

(* prepareForward refuses a body, and the refusal is counted before it is
   answered. *)
PreflightError == kind # "models" /\ Record /\ stage' = "refusing"

(* withPoolOperation starts the handler; malformed requests are answered
   without a statistic. *)
Enter ==
  /\ stage = "routed"
  /\ operationActive' = TRUE
  /\ \/ stage' = "auth" /\ UNCHANGED <<res, stats>>
     \/ stage' = "leave" /\ res' = Answered /\ UNCHANGED stats
     \/ PreflightError /\ UNCHANGED res
  /\ UNCHANGED <<kind, finishVars, aborted, poolSuccess, upstreamComplete, upstream, closed, timedOut>>

(* leaseAuth: the hold is verified before and after the account is read. *)
Authenticate ==
  /\ stage = "auth"
  /\ Goto("caught") \/ (~aborted /\ hold = "held" /\ Goto("model"))

(* resolveCopilotModel or listModels, the abort check and the heartbeat; 401
   and 429 recover or cool the member first. *)
ResolveModel ==
  /\ stage = "model"
  /\ \/ Goto("caught")
     \/ ~aborted /\ kind # "models" /\ hold = "held" /\ Goto("fetch")

(* handleModels records the statistic and then answers. *)
ListModels ==
  /\ stage = "model" /\ kind = "models" /\ ~aborted
  /\ Record /\ stage' = "listed"
  /\ UNCHANGED <<kind, finishVars, res, aborted, poolSuccess, operationActive, upstreamComplete,
                 upstream, closed, timedOut>>

(* The answer after its statistic, of the list, the estimate or the preflight
   error: res.json throws when the 504 of the deadline was sent meanwhile, and
   the catch block records again. *)
AnswerModels ==
  /\ stage \in {"listed", "refusing"}
  /\ IF res.headers THEN Goto("caught")
     ELSE /\ res' = Sent(stage = "listed") /\ stage' = "leave"
          /\ UNCHANGED <<settled, finishVars, aborted, closed>>

(* executePreparedCopilotRequest, and recoverUnauthorized on 401 or cool on
   429, which may themselves fail. *)
Fetch ==
  /\ stage = "fetch"
  /\ \/ Goto("caught")
     \/ /\ upstream' \in {"ok", "unauthorized", "limited", "error"}
        /\ stage' \in IF kind = "count" /\ upstream' = "error" THEN {"fallback"} ELSE {"pipe"}
        /\ UNCHANGED <<kind, finishVars, res, aborted, poolSuccess, operationActive,
                       upstreamComplete, stats, closed, timedOut>>

(* count_tokens answers an estimate when the upstream has no such path. *)
Fallback ==
  /\ stage = "fallback"
  /\ \/ Goto("caught")
     \/ /\ Record /\ stage' = "listed"
        /\ UNCHANGED <<kind, finishVars, res, aborted, poolSuccess, operationActive,
                       upstreamComplete, upstream, closed, timedOut>>

(* pipeAndRecord up to the first read; an empty body is no success, and one of
   an error ends only after its diagnostics are written. *)
Pipe ==
  /\ stage = "pipe"
  /\ IF aborted THEN Goto("caught")
     ELSE /\ \/ stage' \in {"buffer", "stream"} /\ res' = [res EXCEPT !.ok = (upstream = "ok")]
             \/ upstream = "ok" /\ stage' = "tail" /\ res' = Sent(TRUE)
             \/ upstream # "ok" /\ stage' = "empty" /\ res' = [res EXCEPT !.ok = FALSE]
          /\ UNCHANGED <<settled, finishVars, aborted, closed>>

EndEmpty ==
  /\ stage = "empty"
  /\ res' = IF res.headers THEN res ELSE Sent(FALSE)
  /\ stage' = "tail"
  /\ UNCHANGED <<settled, finishVars, aborted, closed>>

(* A read of the upstream fails, as it does once the signal aborts: the
   statistic is recorded here and not again by the catch block. *)
ReadFails ==
  /\ stage \in {"buffer", "stream"}
  /\ Record /\ stage' = "answer"
  /\ res' = IF res.headers THEN [res EXCEPT !.ended = TRUE] ELSE res
  /\ UNCHANGED <<kind, finishVars, aborted, poolSuccess, operationActive, upstreamComplete,
                 upstream, closed, timedOut>>

(* The whole body is read: canonical JSON is sent, and the verdict on it. *)
Complete(body) ==
  /\ poolSuccess' = (upstream = "ok" /\ body)
  /\ upstreamComplete' = TRUE
  /\ res' = Sent(res.ok)
  /\ stage' = "tail"
  /\ UNCHANGED <<kind, finishVars, aborted, operationActive, upstream, stats, closed, timedOut>>

BufferEnds ==
  /\ stage = "buffer"
  /\ IF aborted THEN Goto("caught") ELSE \E body \in BOOLEAN : Complete(body)

(* An unsupported web search is answered before the abort is looked at. *)
TranslateWebSearch ==
  /\ stage = "buffer" /\ upstream = "error"
  /\ IF res.headers THEN Goto("caught")
     ELSE /\ res' = Sent(FALSE) /\ stage' = "tail"
          /\ UNCHANGED <<settled, finishVars, aborted, closed>>

(* A chunk is forwarded; an event above the size limit aborts the request. *)
Chunk ==
  /\ stage = "stream"
  /\ IF aborted THEN Goto("caught")
     ELSE /\ \/ res' = [res EXCEPT !.headers = TRUE] /\ UNCHANGED <<stage, aborted>>
             \/ aborted' = TRUE /\ stage' = "caught" /\ UNCHANGED res
          /\ UNCHANGED <<settled, finishVars, closed>>

StreamEnds ==
  /\ stage = "stream"
  /\ IF aborted THEN Goto("caught") ELSE \E body \in BOOLEAN : Complete(body)

(* The statistic after the answer. *)
AnswerTail ==
  /\ stage = "tail"
  /\ Record /\ stage' = "leave"
  /\ UNCHANGED <<kind, finishVars, res, aborted, poolSuccess, operationActive, upstreamComplete,
                 upstream, closed, timedOut>>

(* The catch block records a failure it has not seen recorded; that of
   handleModels passes an error of its own recovery on, uncounted. *)
Catch ==
  /\ stage = "caught" /\ stage' = "answer"
  /\ Record \/ (kind = "models" /\ stats = 0 /\ UNCHANGED stats)
  /\ UNCHANGED <<kind, finishVars, res, aborted, poolSuccess, operationActive, upstreamComplete,
                 upstream, closed, timedOut>>

Answer ==
  /\ stage = "answer"
  /\ res' = Answered /\ stage' = "leave"
  /\ UNCHANGED <<settled, finishVars, aborted, closed>>

(* withPoolOperation ends: a finish that was put off is made up for. *)
Leave ==
  /\ stage = "leave"
  /\ stage' = "done" /\ operationActive' = FALSE
  /\ IF res.destroyed \/ res.finished
     THEN UNCHANGED upstreamComplete /\ Finish(poolSuccess /\ res.finished)
     ELSE UNCHANGED <<upstreamComplete, aborted, finishing, renew, responseSucceeded, timers>>
  /\ UNCHANGED <<kind, res, hold, poolSuccess, upstream, stats, closed, timedOut>>

-----------------------------------------------------------------------------
Admitted == stage \in Handled \cup {"routed", "done"}

(* The last byte of an ended response is handed over. *)
ResponseFinishes ==
  /\ res.ended /\ ~res.finished /\ ~res.destroyed
  /\ res' = [res EXCEPT !.finished = TRUE]
  /\ UNCHANGED <<stage, hold, settled, closed>>
  /\ IF Admitted THEN Finish(poolSuccess)
     ELSE UNCHANGED <<aborted, finishing, renew, responseSucceeded, timers>>

ClientLeaves ==
  /\ Admitted /\ ~res.finished /\ ~res.destroyed
  /\ res' = [res EXCEPT !.destroyed = TRUE]
  /\ UNCHANGED <<settled, finishVars, stage, aborted, closed>>

(* The close event of a destroyed or finished response. *)
CloseEvent ==
  /\ Admitted /\ ~closed /\ (res.destroyed \/ res.finished)
  /\ closed' = TRUE
  /\ UNCHANGED <<stage, res, hold, settled>>
  /\ Finish(FALSE)

(* The deadline answers 504, or cuts an answer that has begun. *)
Deadline ==
  /\ timers /\ ~aborted
  /\ aborted' = TRUE
  /\ res' = IF ~res.headers THEN Sent(FALSE)
            ELSE IF ~res.ended THEN [res EXCEPT !.destroyed = TRUE] ELSE res
  /\ timedOut' = ~res.headers
  /\ UNCHANGED <<kind, poolSuccess, operationActive, upstreamComplete, upstream, stats, finishVars,
                 stage, closed>>

(* The hold has expired or cannot be verified; a check under way when the
   timers are cleared still counts until the hold is finished. *)
HeartbeatFails ==
  /\ Admitted /\ finishing = "idle" /\ ~res.destroyed
  /\ aborted' = TRUE /\ res' = [res EXCEPT !.destroyed = TRUE]
  /\ UNCHANGED <<settled, finishVars, stage, closed>>

HoldExpires ==
  /\ hold = "held"
  /\ hold' = "expired"
  /\ UNCHANGED <<settled, finishing, renew, responseSucceeded, timers, stage, res, aborted, closed>>

Handler ==
  \/ Enter \/ Authenticate \/ ResolveModel \/ ListModels \/ AnswerModels \/ Fetch \/ Fallback
  \/ Pipe \/ EndEmpty \/ ReadFails \/ BufferEnds \/ TranslateWebSearch \/ StreamEnds
  \/ AnswerTail \/ Catch \/ Answer \/ Leave

RequestNext ==
  \/ Arrive \/ AbortAdmission \/ StartAdmission \/ Admit \/ Refuse \/ Handler \/ Chunk
  \/ StoreFinishes \/ ResponseFinishes \/ ClientLeaves \/ CloseEvent \/ Deadline
  \/ HeartbeatFails \/ HoldExpires

(* The event loop runs the handler and emits the events.  An upstream may
   take for ever until its signal aborts, and a client may never read. *)
Running == StartAdmission \/ Admit \/ (Handler /\ (stage \in Traffic => aborted))
           \/ StoreFinishes \/ CloseEvent

HeartbeatEnds == hold # "held" /\ timers /\ HeartbeatFails

RequestSpec ==
  /\ RequestInit /\ [][RequestNext]_requestVars
  /\ WF_requestVars(Running) /\ WF_requestVars(Deadline)
  /\ WF_requestVars(HoldExpires) /\ WF_requestVars(HeartbeatEnds)

-----------------------------------------------------------------------------
(* A finished hold serves no upstream call: finish() waits for the operation
   that drains, and a late hold is never forwarded. *)
NoTrafficAfterFinish == finishing # "idle" => stage \notin Traffic

(* A lease is renewed only for an inference whose whole body was read, found
   valid and delivered with a 2xx status. *)
RenewalIsEarned ==
  renew => /\ kind = "inference" /\ upstream = "ok" /\ upstreamComplete
           /\ poolSuccess /\ res.ok /\ res.finished /\ ~res.destroyed

HoldGuardsUpstream == NoTrafficAfterFinish /\ RenewalIsEarned

(* A request that reached its upstream is counted, and an inference exactly
   once, however its answer failed.  The answers that follow their statistic
   (models, an estimate of tokens, a preflight error) are counted again when
   the 504 of the deadline came between the two, and only then. *)
StatisticsAreTrue ==
  /\ stage = "done" /\ upstream # "none" => stats >= 1
  /\ kind = "inference" /\ upstream # "none" => stats <= 1
  /\ stats <= 2 /\ (stats = 2 => timedOut /\ ~res.ok /\ ~poolSuccess)

(* The request holds its member as long as it uses it and is counted for what
   it was. *)
RequestIsSafe == HoldGuardsUpstream /\ StatisticsAreTrue

(* Every committed hold is given to store.finish in the end: after a late
   admission, a client that left or stopped reading, or a put-off finish. *)
HoldIsFinished == hold = "held" ~> finishing = "done"

-----------------------------------------------------------------------------
(* What the handler and the events keep between them. *)

Before == {"arrived", "queued", "admitting"}
Unanswered == {"routed", "auth", "model", "fetch", "fallback", "listed", "refusing"}
Uncounted == Traffic \cup Before \cup {"refused", "routed", "auth", "empty", "tail"}

Response == [headers : BOOLEAN, ended : BOOLEAN, finished : BOOLEAN, destroyed : BOOLEAN, ok : BOOLEAN]

StageTypeOK ==
  /\ kind \in {"inference", "count", "models"}
  /\ stage \in Handled \cup Before \cup {"refused", "routed", "done"}
  /\ hold \in {"none", "held", "finished", "left", "expired"}
  /\ finishing \in {"idle", "running", "done"} /\ stats \in Nat
  /\ upstream \in {"none", "ok", "unauthorized", "limited", "error"}

FlagTypeOK ==
  /\ aborted \in BOOLEAN /\ renew \in BOOLEAN /\ responseSucceeded \in BOOLEAN
  /\ poolSuccess \in BOOLEAN /\ operationActive \in BOOLEAN /\ upstreamComplete \in BOOLEAN
  /\ timers \in BOOLEAN /\ closed \in BOOLEAN /\ timedOut \in BOOLEAN

RequestTypeOK == StageTypeOK /\ FlagTypeOK /\ res \in Response

(* The handler runs inside its operation, which drains until its body is read. *)
OperationIsMarked ==
  /\ stage \in Handled => operationActive
  /\ upstreamComplete => stage \in {"tail", "leave", "done"}

(* Nothing goes on after the end of the answer, or after finish(). *)
EndIsSeen ==
  /\ finishing # "idle" \/ timedOut => aborted /\ stage \notin Before
  /\ res.finished => res.ended
  /\ (res.ended \/ res.headers) /\ stage \in Before => aborted
  /\ Admitted /\ res.finished => aborted
  /\ timers => Admitted

(* A success is known before its response is finished, which is then the
   event that finishes the hold. *)
SuccessIsWhole ==
  poolSuccess => /\ upstream = "ok" /\ upstreamComplete /\ res.headers
                 /\ res.finished => finishing # "idle" /\ ~res.destroyed

SuccessIsDelivered ==
  /\ responseSucceeded => /\ kind = "inference" /\ poolSuccess /\ aborted
                          /\ res.ok /\ res.finished /\ ~res.destroyed
  /\ renew => responseSucceeded

(* What a second statistic needs: the 504 came after the first. *)
Twice == timedOut /\ ~res.ok /\ ~poolSuccess /\ (kind = "inference" => upstream = "none")

StatisticIsDue ==
  /\ stage \in Uncounted => stats = 0
  /\ stage \in Before \cup {"routed"} \/ kind = "models" => upstream = "none"
  /\ stage \in Traffic \ {"model"} => kind # "models" /\ (stage = "fallback" => kind = "count")
  /\ stage \in {"listed", "refusing"} => stats = 1
  /\ stage \in {"listed", "refusing"} /\ kind = "inference" => upstream = "none"
  /\ stage \in Unanswered /\ res.headers => timedOut /\ ~res.ok
  /\ stage = "caught" /\ stats = 1 => Twice
  /\ stage = "caught" => stats <= 1
  /\ stage \in {"answer", "leave", "done"} => stats <= 2 /\ (stats = 2 => Twice)
  /\ stage = "answer" /\ kind # "models" => stats >= 1
  /\ stage \in {"leave", "done"} /\ upstream # "none" => stats >= 1

RequestInv ==
  /\ RequestTypeOK /\ OperationIsMarked /\ EndIsSeen /\ SuccessIsWhole
  /\ SuccessIsDelivered /\ StatisticIsDue /\ NoTrafficAfterFinish
=============================================================================

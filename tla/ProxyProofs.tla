---------------------------- MODULE ProxyProofs ----------------------------
(***************************************************************************)
(* The request path of the Proxy: a request of the pool, the models cache, *)
(* the shutdown and the diagnostics.  None of the four properties is       *)
(* inductive.                                                              *)
(*                                                                         *)
(* RequestInv adds what the flags of the handler say of each other: an     *)
(* operation is marked until its body is read, a finished answer has       *)
(* aborted its request, a success is known before its response ends, and   *)
(* which stages have recorded a statistic, and that only the 504 of the    *)
(* deadline makes the handler record a second one.                         *)
(*                                                                         *)
(* CacheInv adds that what is asked for an entry of the map is newer than  *)
(* the last clear: an entry the map has dropped is the entry of no key     *)
(* again, so a late refresh cannot reach the map through it.               *)
(*                                                                         *)
(* ShutdownInv adds what each stage of the process still has, and that a   *)
(* handler with an open response and a closed connection was cut.          *)
(*                                                                         *)
(* DiagInv adds where a record may be: ahead of every list that has not    *)
(* read it, in files that are ordered and full behind it, so that what a   *)
(* rotation drops has enough newer records before it (FullBehind), and     *)
(* that a clear is later than all its replica wrote.                       *)
(***************************************************************************)
EXTENDS PoolRequest, ModelsCache, Shutdown, Diagnostics, FiniteSetTheorems, TLAPS

-----------------------------------------------------------------------------
(* PoolRequest: whatever order the handler, the events of the response, its
   timers and the store come in. *)

(* The responses the steps make are responses. *)
LEMMA ResponseType ==
  ASSUME res \in Response
  PROVE  /\ \A b \in BOOLEAN : Sent(b) \in Response
         /\ [res EXCEPT !.headers = TRUE] \in Response
         /\ [res EXCEPT !.ended = TRUE] \in Response
         /\ [res EXCEPT !.finished = TRUE] \in Response
         /\ [res EXCEPT !.destroyed = TRUE] \in Response
         /\ \A b \in BOOLEAN : [res EXCEPT !.ok = b] \in Response
<1>1. \A b \in BOOLEAN : Sent(b) \in Response
  BY DEF Sent, Response
<1>2. [res EXCEPT !.headers = TRUE] \in Response
  BY DEF Response
<1>3. [res EXCEPT !.ended = TRUE] \in Response
  BY DEF Response
<1>4. [res EXCEPT !.finished = TRUE] \in Response
  BY DEF Response
<1>5. [res EXCEPT !.destroyed = TRUE] \in Response
  BY DEF Response
<1>6. \A b \in BOOLEAN : [res EXCEPT !.ok = b] \in Response
  BY DEF Response
<1> QED
  BY <1>1, <1>2, <1>3, <1>4, <1>5, <1>6

(* Types are kept by every step. *)
LEMMA TypeStep ==
  ASSUME RequestTypeOK, RequestNext
  PROVE  RequestTypeOK'
<1>0. res \in Response
  BY DEF RequestTypeOK
<1>r. Answered \in Response
  BY <1>0, ResponseType DEF Answered
<1>1. CASE Arrive
  <2>1. res' \in Response
    BY <1>0, <1>r, <1>1, ResponseType DEF Arrive, settled, finishVars
  <2>2. StageTypeOK'
    BY <1>1 DEF Arrive, settled, finishVars, RequestTypeOK, StageTypeOK, FlagTypeOK, Handled,
       Before
  <2>3. FlagTypeOK'
    BY <1>1 DEF Arrive, settled, finishVars, RequestTypeOK, StageTypeOK, FlagTypeOK
  <2> QED
    BY <2>1, <2>2, <2>3 DEF RequestTypeOK
<1>2. CASE AbortAdmission
  <2>1. res' \in Response
    BY <1>0, <1>r, <1>2, ResponseType DEF AbortAdmission, settled, finishVars
  <2>2. StageTypeOK'
    BY <1>2 DEF AbortAdmission, settled, finishVars, RequestTypeOK, StageTypeOK, FlagTypeOK,
       Handled, Before
  <2>3. FlagTypeOK'
    BY <1>2 DEF AbortAdmission, settled, finishVars, RequestTypeOK, StageTypeOK, FlagTypeOK
  <2> QED
    BY <2>1, <2>2, <2>3 DEF RequestTypeOK
<1>3. CASE StartAdmission
  <2>1. res' \in Response
    BY <1>0, <1>r, <1>3, ResponseType DEF StartAdmission, settled, finishVars
  <2>2. StageTypeOK'
    BY <1>3 DEF StartAdmission, settled, finishVars, RequestTypeOK, StageTypeOK, FlagTypeOK,
       Handled, Before
  <2>3. FlagTypeOK'
    BY <1>3 DEF StartAdmission, settled, finishVars, RequestTypeOK, StageTypeOK, FlagTypeOK
  <2> QED
    BY <2>1, <2>2, <2>3 DEF RequestTypeOK
<1>4. CASE Admit
  <2>1. res' \in Response
    BY <1>0, <1>r, <1>4, ResponseType DEF Admit, settled
  <2>2. StageTypeOK'
    BY <1>4 DEF Admit, settled, RequestTypeOK, StageTypeOK, FlagTypeOK, Handled, Before
  <2>3. FlagTypeOK'
    BY <1>4 DEF Admit, settled, RequestTypeOK, StageTypeOK, FlagTypeOK
  <2> QED
    BY <2>1, <2>2, <2>3 DEF RequestTypeOK
<1>5. CASE Refuse
  <2>1. res' \in Response
    BY <1>0, <1>r, <1>5, ResponseType DEF Refuse, settled, finishVars
  <2>2. StageTypeOK'
    BY <1>5 DEF Refuse, settled, finishVars, RequestTypeOK, StageTypeOK, FlagTypeOK, Handled,
       Before
  <2>3. FlagTypeOK'
    BY <1>5 DEF Refuse, settled, finishVars, RequestTypeOK, StageTypeOK, FlagTypeOK
  <2> QED
    BY <2>1, <2>2, <2>3 DEF RequestTypeOK
<1>6. CASE Enter
  <2>1. res' \in Response
    BY <1>0, <1>r, <1>6, ResponseType DEF Enter, Record, PreflightError, finishVars
  <2>2. StageTypeOK'
    BY <1>6 DEF Enter, Record, PreflightError, finishVars, RequestTypeOK, StageTypeOK,
       FlagTypeOK, Handled, Before
  <2>3. FlagTypeOK'
    BY <1>6 DEF Enter, Record, PreflightError, finishVars, RequestTypeOK, StageTypeOK, FlagTypeOK
  <2> QED
    BY <2>1, <2>2, <2>3 DEF RequestTypeOK
<1>7. CASE Authenticate
  <2>1. res' \in Response
    BY <1>0, <1>r, <1>7, ResponseType DEF Authenticate, Goto, finishVars
  <2>2. StageTypeOK'
    BY <1>7 DEF Authenticate, Goto, finishVars, RequestTypeOK, StageTypeOK, FlagTypeOK,
       Handled, Before
  <2>3. FlagTypeOK'
    BY <1>7 DEF Authenticate, Goto, finishVars, RequestTypeOK, StageTypeOK, FlagTypeOK
  <2> QED
    BY <2>1, <2>2, <2>3 DEF RequestTypeOK
<1>8. CASE ResolveModel
  <2>1. res' \in Response
    BY <1>0, <1>r, <1>8, ResponseType DEF ResolveModel, Goto, finishVars
  <2>2. StageTypeOK'
    BY <1>8 DEF ResolveModel, Goto, finishVars, RequestTypeOK, StageTypeOK, FlagTypeOK,
       Handled, Before
  <2>3. FlagTypeOK'
    BY <1>8 DEF ResolveModel, Goto, finishVars, RequestTypeOK, StageTypeOK, FlagTypeOK
  <2> QED
    BY <2>1, <2>2, <2>3 DEF RequestTypeOK
<1>9. CASE ListModels
  <2>1. res' \in Response
    BY <1>0, <1>r, <1>9, ResponseType DEF ListModels, Record, finishVars
  <2>2. StageTypeOK'
    BY <1>9 DEF ListModels, Record, finishVars, RequestTypeOK, StageTypeOK, FlagTypeOK,
       Handled, Before
  <2>3. FlagTypeOK'
    BY <1>9 DEF ListModels, Record, finishVars, RequestTypeOK, StageTypeOK, FlagTypeOK
  <2> QED
    BY <2>1, <2>2, <2>3 DEF RequestTypeOK
<1>10. CASE AnswerModels
  <2>1. res' \in Response
    BY <1>0, <1>r, <1>10, ResponseType DEF AnswerModels, Goto, settled, finishVars
  <2>2. StageTypeOK'
    BY <1>10 DEF AnswerModels, Goto, settled, finishVars, RequestTypeOK, StageTypeOK, FlagTypeOK,
       Handled, Before
  <2>3. FlagTypeOK'
    BY <1>10 DEF AnswerModels, Goto, settled, finishVars, RequestTypeOK, StageTypeOK, FlagTypeOK
  <2> QED
    BY <2>1, <2>2, <2>3 DEF RequestTypeOK
<1>11. CASE Fetch
  <2>1. res' \in Response
    BY <1>0, <1>r, <1>11, ResponseType DEF Fetch, Goto, finishVars
  <2>2. StageTypeOK'
    BY <1>11 DEF Fetch, Goto, finishVars, RequestTypeOK, StageTypeOK, FlagTypeOK, Handled, Before
  <2>3. FlagTypeOK'
    BY <1>11 DEF Fetch, Goto, finishVars, RequestTypeOK, StageTypeOK, FlagTypeOK
  <2> QED
    BY <2>1, <2>2, <2>3 DEF RequestTypeOK
<1>12. CASE Fallback
  <2>1. res' \in Response
    BY <1>0, <1>r, <1>12, ResponseType DEF Fallback, Goto, Record, finishVars
  <2>2. StageTypeOK'
    BY <1>12 DEF Fallback, Goto, Record, finishVars, RequestTypeOK, StageTypeOK, FlagTypeOK,
       Handled, Before
  <2>3. FlagTypeOK'
    BY <1>12 DEF Fallback, Goto, Record, finishVars, RequestTypeOK, StageTypeOK, FlagTypeOK
  <2> QED
    BY <2>1, <2>2, <2>3 DEF RequestTypeOK
<1>13. CASE Pipe
  <2>1. res' \in Response
    BY <1>0, <1>r, <1>13, ResponseType DEF Pipe, Goto, settled, finishVars
  <2>2. StageTypeOK'
    BY <1>13 DEF Pipe, Goto, settled, finishVars, RequestTypeOK, StageTypeOK, FlagTypeOK,
       Handled, Before
  <2>3. FlagTypeOK'
    BY <1>13 DEF Pipe, Goto, settled, finishVars, RequestTypeOK, StageTypeOK, FlagTypeOK
  <2> QED
    BY <2>1, <2>2, <2>3 DEF RequestTypeOK
<1>14. CASE ReadFails
  <2>1. res' \in Response
    BY <1>0, <1>r, <1>14, ResponseType DEF ReadFails, Record, finishVars
  <2>2. StageTypeOK'
    BY <1>14 DEF ReadFails, Record, finishVars, RequestTypeOK, StageTypeOK, FlagTypeOK,
       Handled, Before
  <2>3. FlagTypeOK'
    BY <1>14 DEF ReadFails, Record, finishVars, RequestTypeOK, StageTypeOK, FlagTypeOK
  <2> QED
    BY <2>1, <2>2, <2>3 DEF RequestTypeOK
<1>15. CASE BufferEnds
  <2>1. res' \in Response
    <3>1. res.ok \in BOOLEAN
      BY <1>0 DEF Response
    <3>2. CASE aborted
      BY <1>0, <1>15, <3>2 DEF BufferEnds, Goto
    <3>3. CASE ~aborted
      BY <1>15, <3>1, <3>3, ResponseType, <1>0 DEF BufferEnds, Complete
    <3> QED
      BY <3>2, <3>3
  <2>2. StageTypeOK'
    BY <1>15 DEF BufferEnds, Goto, Complete, finishVars, RequestTypeOK, StageTypeOK,
       FlagTypeOK, Handled, Before
  <2>3. FlagTypeOK'
    BY <1>15 DEF BufferEnds, Goto, Complete, finishVars, RequestTypeOK, StageTypeOK, FlagTypeOK
  <2> QED
    BY <2>1, <2>2, <2>3 DEF RequestTypeOK
<1>16. CASE TranslateWebSearch
  <2>1. res' \in Response
    BY <1>0, <1>r, <1>16, ResponseType DEF TranslateWebSearch, Goto, settled, finishVars
  <2>2. StageTypeOK'
    BY <1>16 DEF TranslateWebSearch, Goto, settled, finishVars, RequestTypeOK, StageTypeOK,
       FlagTypeOK, Handled, Before
  <2>3. FlagTypeOK'
    BY <1>16 DEF TranslateWebSearch, Goto, settled, finishVars, RequestTypeOK, StageTypeOK,
       FlagTypeOK
  <2> QED
    BY <2>1, <2>2, <2>3 DEF RequestTypeOK
<1>17. CASE StreamEnds
  <2>1. res' \in Response
    <3>1. res.ok \in BOOLEAN
      BY <1>0 DEF Response
    <3>2. CASE aborted
      BY <1>0, <1>17, <3>2 DEF StreamEnds, Goto
    <3>3. CASE ~aborted
      BY <1>17, <3>1, <3>3, ResponseType, <1>0 DEF StreamEnds, Complete
    <3> QED
      BY <3>2, <3>3
  <2>2. StageTypeOK'
    BY <1>17 DEF StreamEnds, Goto, Complete, finishVars, RequestTypeOK, StageTypeOK,
       FlagTypeOK, Handled, Before
  <2>3. FlagTypeOK'
    BY <1>17 DEF StreamEnds, Goto, Complete, finishVars, RequestTypeOK, StageTypeOK, FlagTypeOK
  <2> QED
    BY <2>1, <2>2, <2>3 DEF RequestTypeOK
<1>18. CASE AnswerTail
  <2>1. res' \in Response
    BY <1>0, <1>r, <1>18, ResponseType DEF AnswerTail, Record, finishVars
  <2>2. StageTypeOK'
    BY <1>18 DEF AnswerTail, Record, finishVars, RequestTypeOK, StageTypeOK, FlagTypeOK,
       Handled, Before
  <2>3. FlagTypeOK'
    BY <1>18 DEF AnswerTail, Record, finishVars, RequestTypeOK, StageTypeOK, FlagTypeOK
  <2> QED
    BY <2>1, <2>2, <2>3 DEF RequestTypeOK
<1>19. CASE Catch
  <2>1. res' \in Response
    BY <1>0, <1>r, <1>19, ResponseType DEF Catch, Record, finishVars
  <2>2. StageTypeOK'
    BY <1>19 DEF Catch, Record, finishVars, RequestTypeOK, StageTypeOK, FlagTypeOK, Handled,
       Before
  <2>3. FlagTypeOK'
    BY <1>19 DEF Catch, Record, finishVars, RequestTypeOK, StageTypeOK, FlagTypeOK
  <2> QED
    BY <2>1, <2>2, <2>3 DEF RequestTypeOK
<1>20. CASE Answer
  <2>1. res' \in Response
    BY <1>0, <1>r, <1>20, ResponseType DEF Answer, settled, finishVars
  <2>2. StageTypeOK'
    BY <1>20 DEF Answer, settled, finishVars, RequestTypeOK, StageTypeOK, FlagTypeOK, Handled,
       Before
  <2>3. FlagTypeOK'
    BY <1>20 DEF Answer, settled, finishVars, RequestTypeOK, StageTypeOK, FlagTypeOK
  <2> QED
    BY <2>1, <2>2, <2>3 DEF RequestTypeOK
<1>21. CASE Leave
  <2>1. res' \in Response
    BY <1>0, <1>r, <1>21, ResponseType DEF Leave, Finish
  <2>2. StageTypeOK'
    BY <1>21 DEF Leave, Finish, RequestTypeOK, StageTypeOK, FlagTypeOK, Handled, Before
  <2>3. FlagTypeOK'
    BY <1>21 DEF Leave, Finish, RequestTypeOK, StageTypeOK, FlagTypeOK
  <2> QED
    BY <2>1, <2>2, <2>3 DEF RequestTypeOK
<1>22. CASE Chunk
  <2>1. res' \in Response
    BY <1>0, <1>r, <1>22, ResponseType DEF Chunk, Goto, settled, finishVars
  <2>2. StageTypeOK'
    BY <1>22 DEF Chunk, Goto, settled, finishVars, RequestTypeOK, StageTypeOK, FlagTypeOK,
       Handled, Before
  <2>3. FlagTypeOK'
    BY <1>22 DEF Chunk, Goto, settled, finishVars, RequestTypeOK, StageTypeOK, FlagTypeOK
  <2> QED
    BY <2>1, <2>2, <2>3 DEF RequestTypeOK
<1>23. CASE StoreFinishes
  <2>1. res' \in Response
    BY <1>0, <1>r, <1>23, ResponseType DEF StoreFinishes, settled
  <2>2. StageTypeOK'
    BY <1>23 DEF StoreFinishes, settled, RequestTypeOK, StageTypeOK, FlagTypeOK, Handled, Before
  <2>3. FlagTypeOK'
    BY <1>23 DEF StoreFinishes, settled, RequestTypeOK, StageTypeOK, FlagTypeOK
  <2> QED
    BY <2>1, <2>2, <2>3 DEF RequestTypeOK
<1>24. CASE ResponseFinishes
  <2>1. res' \in Response
    BY <1>0, <1>r, <1>24, ResponseType DEF ResponseFinishes, Finish, settled
  <2>2. StageTypeOK'
    BY <1>24 DEF ResponseFinishes, Finish, settled, RequestTypeOK, StageTypeOK, FlagTypeOK,
       Handled, Before
  <2>3. FlagTypeOK'
    BY <1>24 DEF ResponseFinishes, Finish, settled, RequestTypeOK, StageTypeOK, FlagTypeOK
  <2> QED
    BY <2>1, <2>2, <2>3 DEF RequestTypeOK
<1>25. CASE ClientLeaves
  <2>1. res' \in Response
    BY <1>0, <1>r, <1>25, ResponseType DEF ClientLeaves, settled, finishVars
  <2>2. StageTypeOK'
    BY <1>25 DEF ClientLeaves, settled, finishVars, RequestTypeOK, StageTypeOK, FlagTypeOK,
       Handled, Before
  <2>3. FlagTypeOK'
    BY <1>25 DEF ClientLeaves, settled, finishVars, RequestTypeOK, StageTypeOK, FlagTypeOK
  <2> QED
    BY <2>1, <2>2, <2>3 DEF RequestTypeOK
<1>26. CASE CloseEvent
  <2>1. res' \in Response
    BY <1>0, <1>r, <1>26, ResponseType DEF CloseEvent, Finish, settled
  <2>2. StageTypeOK'
    BY <1>26 DEF CloseEvent, Finish, settled, RequestTypeOK, StageTypeOK, FlagTypeOK, Handled,
       Before
  <2>3. FlagTypeOK'
    BY <1>26 DEF CloseEvent, Finish, settled, RequestTypeOK, StageTypeOK, FlagTypeOK
  <2> QED
    BY <2>1, <2>2, <2>3 DEF RequestTypeOK
<1>27. CASE Deadline
  <2>1. res' \in Response
    BY <1>0, <1>r, <1>27, ResponseType DEF Deadline, settled, finishVars
  <2>2. StageTypeOK'
    BY <1>27 DEF Deadline, settled, finishVars, RequestTypeOK, StageTypeOK, FlagTypeOK,
       Handled, Before
  <2>3. FlagTypeOK'
    BY <1>27 DEF Deadline, settled, finishVars, RequestTypeOK, StageTypeOK, FlagTypeOK
  <2> QED
    BY <2>1, <2>2, <2>3 DEF RequestTypeOK
<1>28. CASE HeartbeatFails
  <2>1. res' \in Response
    BY <1>0, <1>r, <1>28, ResponseType DEF HeartbeatFails, settled, finishVars
  <2>2. StageTypeOK'
    BY <1>28 DEF HeartbeatFails, settled, finishVars, RequestTypeOK, StageTypeOK, FlagTypeOK,
       Handled, Before
  <2>3. FlagTypeOK'
    BY <1>28 DEF HeartbeatFails, settled, finishVars, RequestTypeOK, StageTypeOK, FlagTypeOK
  <2> QED
    BY <2>1, <2>2, <2>3 DEF RequestTypeOK
<1>29. CASE HoldExpires
  <2>1. res' \in Response
    BY <1>0, <1>r, <1>29, ResponseType DEF HoldExpires, settled
  <2>2. StageTypeOK'
    BY <1>29 DEF HoldExpires, settled, RequestTypeOK, StageTypeOK, FlagTypeOK, Handled, Before
  <2>3. FlagTypeOK'
    BY <1>29 DEF HoldExpires, settled, RequestTypeOK, StageTypeOK, FlagTypeOK
  <2> QED
    BY <2>1, <2>2, <2>3 DEF RequestTypeOK
<1>30. CASE EndEmpty
  <2>1. res' \in Response
    BY <1>0, <1>30, ResponseType DEF EndEmpty
  <2>2. StageTypeOK'
    BY <1>30 DEF EndEmpty, settled, finishVars, RequestTypeOK, StageTypeOK, Handled, Before
  <2>3. FlagTypeOK'
    BY <1>30 DEF EndEmpty, settled, finishVars, RequestTypeOK, FlagTypeOK
  <2> QED
    BY <2>1, <2>2, <2>3 DEF RequestTypeOK
<1> QED
  BY <1>1, <1>2, <1>3, <1>4, <1>5, <1>6, <1>7, <1>8, <1>9, <1>10, <1>11, <1>12, <1>13, <1>14,
     <1>15, <1>16, <1>17, <1>18, <1>19, <1>20, <1>21, <1>22, <1>23, <1>24, <1>25, <1>26, <1>27,
     <1>28, <1>29, <1>30 DEF RequestNext, Handler

(* Each step of the handler and each event keeps the flags in agreement. *)
LEMMA RequestStep ==
  ASSUME RequestInv, RequestNext
  PROVE  /\ OperationIsMarked' /\ EndIsSeen' /\ SuccessIsWhole'
         /\ SuccessIsDelivered' /\ StatisticIsDue' /\ NoTrafficAfterFinish'
<1> USE DEF RequestInv, RequestTypeOK, StageTypeOK, FlagTypeOK, OperationIsMarked, EndIsSeen,
    SuccessIsWhole, SuccessIsDelivered,
            StatisticIsDue, Twice, NoTrafficAfterFinish, Admitted, Handled, Traffic, Before, Unanswered, Uncounted,
            Response
<1>1. CASE Arrive
  BY <1>1 DEF Arrive, Sent, Answered, settled, finishVars
<1>2. CASE AbortAdmission
  BY <1>2 DEF AbortAdmission, Sent, settled, finishVars
<1>3. CASE StartAdmission
  BY <1>3 DEF StartAdmission, settled, finishVars
<1>4. CASE Admit
  BY <1>4 DEF Admit, settled
<1>5. CASE Refuse
  BY <1>5 DEF Refuse, Sent, Answered, settled, finishVars
<1>6. CASE Enter
  <2>1. CASE stage' = "auth" /\ UNCHANGED <<res, stats>>
    BY <1>6, <2>1 DEF Enter, finishVars
  <2>2. CASE stage' = "leave" /\ res' = Answered /\ UNCHANGED stats
    <3>1. upstream = "none" /\ ~poolSuccess /\ ~responseSucceeded /\ stats' = 0
      BY <1>6, <2>2 DEF Enter
    <3>2. (res'.finished => res.finished /\ res'.ended) /\ stage' = "leave"
      BY <2>2 DEF Answered, Sent
    <3> QED
      BY <1>6, <3>1, <3>2 DEF Enter, finishVars
  <2>3. CASE stage' = "refusing" /\ Record /\ UNCHANGED res
    BY <1>6, <2>3 DEF Enter, Record, finishVars
  <2> QED
    BY <1>6, <2>1, <2>2, <2>3 DEF Enter, PreflightError
<1>7. CASE Authenticate
  <2>1. CASE Goto("caught")
    BY <1>7, <2>1 DEF Authenticate, Goto, finishVars
  <2>2. CASE ~aborted /\ Goto("model")
    BY <1>7, <2>2 DEF Authenticate, Goto, finishVars
  <2> QED
    BY <1>7, <2>1, <2>2 DEF Authenticate
<1>8. CASE ResolveModel
  <2>1. CASE Goto("caught")
    BY <1>8, <2>1 DEF ResolveModel, Goto, finishVars
  <2>2. CASE ~aborted /\ Goto("fetch")
    BY <1>8, <2>2 DEF ResolveModel, Goto, finishVars
  <2> QED
    BY <1>8, <2>1, <2>2 DEF ResolveModel
<1>9. CASE ListModels
  BY <1>9 DEF ListModels, Record, finishVars
<1>10. CASE AnswerModels
  <2>1. CASE res.headers
    BY <1>10, <2>1 DEF AnswerModels, Goto, finishVars
  <2>2. CASE ~res.headers
    BY <1>10, <2>2 DEF AnswerModels, Sent, settled, finishVars
  <2> QED
    BY <2>1, <2>2
<1>11. CASE Fetch
  <2>1. CASE Goto("caught")
    BY <1>11, <2>1 DEF Fetch, Goto, finishVars
  <2>2. CASE /\ stage' \in {"fallback", "pipe"}
             /\ UNCHANGED <<kind, finishVars, res, aborted, poolSuccess, operationActive,
                            upstreamComplete, stats, timedOut>>
             /\ kind # "models" /\ (stage' = "fallback" => kind = "count")
    BY <1>11, <2>2 DEF Fetch, finishVars
  <2> QED
    BY <1>11, <2>1, <2>2 DEF Fetch
<1>12. CASE Fallback
  <2>1. CASE Goto("caught")
    BY <1>12, <2>1 DEF Fallback, Goto, finishVars
  <2>2. CASE /\ Record /\ stage' = "listed"
             /\ UNCHANGED <<kind, finishVars, res, aborted, poolSuccess, operationActive,
                            upstreamComplete, upstream, timedOut>>
    BY <1>12, <2>2 DEF Fallback, Record, finishVars
  <2> QED
    BY <1>12, <2>1, <2>2 DEF Fallback
<1>13. CASE Pipe
  <2>1. CASE aborted
    BY <1>13, <2>1 DEF Pipe, Goto, finishVars
  <2>2. CASE ~aborted /\ stage' \in {"buffer", "stream"} /\ res' = [res EXCEPT !.ok = (upstream = "ok")]
    BY <1>13, <2>2 DEF Pipe, settled, finishVars
  <2>3. CASE ~aborted /\ stage' = "tail" /\ res' = Sent(TRUE)
    BY <1>13, <2>3 DEF Pipe, Sent, settled, finishVars
  <2>4. CASE ~aborted /\ stage' = "empty" /\ res' = [res EXCEPT !.ok = FALSE]
    BY <1>13, <2>4 DEF Pipe, settled, finishVars
  <2> QED
    BY <1>13, <2>1, <2>2, <2>3, <2>4 DEF Pipe
<1>14. CASE ReadFails
  BY <1>14 DEF ReadFails, Record, finishVars
<1>15. CASE BufferEnds
  <2>1. CASE aborted
    BY <1>15, <2>1 DEF BufferEnds, Goto, finishVars
  <2>2. CASE ~aborted
    <3>1. PICK body \in BOOLEAN : Complete(body)
      BY <1>15, <2>2 DEF BufferEnds
    <3> QED
      BY <1>15, <2>2, <3>1 DEF BufferEnds, Complete, Sent, finishVars
  <2> QED
    BY <2>1, <2>2
<1>16. CASE TranslateWebSearch
  <2>1. CASE res.headers
    BY <1>16, <2>1 DEF TranslateWebSearch, Goto, finishVars
  <2>2. CASE ~res.headers
    BY <1>16, <2>2 DEF TranslateWebSearch, Sent, settled, finishVars
  <2> QED
    BY <2>1, <2>2
<1>17. CASE StreamEnds
  <2>1. CASE aborted
    BY <1>17, <2>1 DEF StreamEnds, Goto, finishVars
  <2>2. CASE ~aborted
    <3>1. PICK body \in BOOLEAN : Complete(body)
      BY <1>17, <2>2 DEF StreamEnds
    <3> QED
      BY <1>17, <2>2, <3>1 DEF StreamEnds, Complete, Sent, finishVars
  <2> QED
    BY <2>1, <2>2
<1>18. CASE AnswerTail
  BY <1>18 DEF AnswerTail, Record, finishVars
<1>19. CASE Catch
  BY <1>19 DEF Catch, Record, finishVars
<1>20. CASE Answer
  BY <1>20 DEF Answer, Sent, Answered, settled, finishVars
<1>21. CASE Leave
  BY <1>21 DEF Leave, Finish
<1>22. CASE Chunk
  <2>1. CASE aborted
    BY <1>22, <2>1 DEF Chunk, Goto, finishVars
  <2>2. CASE ~aborted /\ res' = [res EXCEPT !.headers = TRUE] /\ UNCHANGED <<stage, aborted>>
    BY <1>22, <2>2 DEF Chunk, settled, finishVars
  <2>3. CASE ~aborted /\ aborted' = TRUE /\ stage' = "caught" /\ UNCHANGED res
    BY <1>22, <2>3 DEF Chunk, settled, finishVars
  <2> QED
    BY <1>22, <2>1, <2>2, <2>3 DEF Chunk
<1>23. CASE StoreFinishes
  BY <1>23 DEF StoreFinishes, settled
<1>24. CASE ResponseFinishes
  BY <1>24 DEF ResponseFinishes, Finish, settled
<1>25. CASE ClientLeaves
  BY <1>25 DEF ClientLeaves, settled, finishVars
<1>26. CASE CloseEvent
  BY <1>26 DEF CloseEvent, Finish, settled
<1>27. CASE Deadline
  <2>1. ~timedOut /\ stats <= 1
    BY <1>27 DEF Deadline
  <2>2. CASE ~res.headers
    <3>1. ~poolSuccess /\ ~responseSucceeded /\ ~renew /\ ~res.finished
      BY <1>27, <2>2 DEF Deadline
    <3>2. res'.headers /\ res'.ended /\ ~res'.ok /\ res'.finished = res.finished
      BY <1>27, <2>2 DEF Deadline, Sent
    <3>3. aborted' /\ timedOut' /\ stage \notin Before
      BY <1>27, <2>2 DEF Deadline
    <3>4. OperationIsMarked' /\ EndIsSeen' /\ NoTrafficAfterFinish'
      BY <1>27, <3>2, <3>3 DEF Deadline, finishVars
    <3>5. SuccessIsWhole' /\ SuccessIsDelivered'
      BY <1>27, <3>1 DEF Deadline, finishVars
    <3>6. StatisticIsDue'
      BY <1>27, <2>1, <3>1, <3>2, <3>3 DEF Deadline, finishVars
    <3> QED
      BY <3>4, <3>5, <3>6
  <2>3. CASE res.headers
    BY <1>27, <2>1, <2>3 DEF Deadline, finishVars
  <2> QED
    BY <2>2, <2>3
<1>28. CASE HeartbeatFails
  BY <1>28 DEF HeartbeatFails, settled, finishVars
<1>29. CASE HoldExpires
  BY <1>29 DEF HoldExpires, settled
<1>30. CASE EndEmpty
  BY <1>30 DEF EndEmpty, Sent, settled, finishVars
<1> QED
  BY <1>1, <1>2, <1>3, <1>4, <1>5, <1>6, <1>7, <1>8, <1>9, <1>10, <1>11, <1>12, <1>13, <1>14,
     <1>15, <1>16, <1>17, <1>18, <1>19, <1>20, <1>21, <1>22, <1>23, <1>24, <1>25, <1>26, <1>27,
     <1>28, <1>29, <1>30 DEF RequestNext, Handler

(* RequestInv holds in every state of a request. *)
LEMMA RequestInvariant == RequestSpec => []RequestInv
<1>1. RequestInit => RequestInv
  <2> SUFFICES ASSUME RequestInit PROVE RequestInv
    OBVIOUS
  <2>1. RequestTypeOK
    BY DEF RequestInit, RequestTypeOK, StageTypeOK, FlagTypeOK, Response, Handled, Before
  <2>2. OperationIsMarked /\ EndIsSeen /\ SuccessIsWhole /\ SuccessIsDelivered
    BY DEF RequestInit, OperationIsMarked, EndIsSeen, SuccessIsWhole, SuccessIsDelivered,
       Handled, Before, Admitted
  <2>3. StatisticIsDue /\ NoTrafficAfterFinish
    BY DEF RequestInit, StatisticIsDue, NoTrafficAfterFinish, Handled, Before, Traffic, Unanswered
  <2> QED
    BY <2>1, <2>2, <2>3 DEF RequestInv
<1>2. RequestInv /\ [RequestNext]_requestVars => RequestInv'
  <2>1. CASE RequestInv /\ RequestNext
    BY <2>1, TypeStep, RequestStep DEF RequestInv
  <2>2. CASE RequestInv /\ UNCHANGED requestVars
    BY <2>2 DEF requestVars, RequestInv, RequestTypeOK, StageTypeOK, FlagTypeOK,
       OperationIsMarked, EndIsSeen, SuccessIsWhole,
                SuccessIsDelivered, StatisticIsDue, Twice, NoTrafficAfterFinish, Admitted
  <2> QED
    BY <2>1, <2>2
<1> QED
  BY <1>1, <1>2, PTL DEF RequestSpec

(* A hold is finished after its last upstream call, a renewal is earned by an
   inference that was read whole and delivered, an inference that reached its
   upstream is counted once, and only the 504 of the deadline between a
   statistic and its answer makes two: whatever the order of the handler, the
   client, the deadline, the heartbeat and the store. *)
THEOREM RequestStaysSafe == RequestSpec => []RequestIsSafe
<1>1. RequestInv => RequestIsSafe
  <2> SUFFICES ASSUME RequestInv PROVE RequestIsSafe
    OBVIOUS
  <2>1. NoTrafficAfterFinish
    BY DEF RequestInv
  <2>2. RenewalIsEarned
    BY DEF RequestInv, SuccessIsDelivered, SuccessIsWhole, RenewalIsEarned
  <2>3. StatisticsAreTrue
    BY DEF RequestInv, RequestTypeOK, StageTypeOK, StatisticIsDue, Twice, StatisticsAreTrue, Handled,
       Uncounted, Traffic, Before
  <2> QED
    BY <2>1, <2>2, <2>3 DEF RequestIsSafe, HoldGuardsUpstream
<1> QED
  BY <1>1, RequestInvariant, PTL

-----------------------------------------------------------------------------
(* ModelsCache: whatever refreshes are on their way. *)

(* What the end of refresh r leaves: its entry, which may have got a snapshot,
   without it, and nobody who waits for it. *)
RefreshEnds(r) ==
  /\ refresh'[r].entry = refresh[r].entry /\ refresh'[r].key = refresh[r].key
  /\ refresh'[r].since = refresh[r].since /\ refresh'[r].state # "unused"
  /\ \A q \in Refreshes \ {r} : refresh'[q] = refresh[q]
  /\ \A o \in Entries :
       /\ entry'[o].made = entry[o].made /\ entry'[o].retired = entry[o].retired
       /\ entry'[o].refresh \in {entry[o].refresh, NoObject} \ {r}
       /\ \/ entry'[o].snapshot = entry[o].snapshot
          \/ o = refresh[r].entry /\ ~entry[o].retired /\ entry'[o].snapshot.since = refresh[r].since
  /\ \A k \in Keys : modelsCache'[k] \in {modelsCache[k], NoObject}
  /\ \A c \in Lookups : lookup'[c].step = "waiting" => lookup'[c] = lookup[c] /\ lookup[c].refresh # r
  /\ clears' = clears

(* A refresh that ends brings back no entry that was detached and no old snapshot. *)
LEMMA EndStep ==
  ASSUME CacheInv, NEW r \in Refreshes, refresh[r].state # "unused", RefreshEnds(r)
  PROVE  ObjectsInv' /\ EntriesInv' /\ SinceInv'
<1>1. ObjectsInv'
  <2>1. \A k \in Keys : modelsCache'[k] # NoObject => entry'[modelsCache'[k]].made
    BY DEF RefreshEnds, CacheInv, CacheTypeOK, ObjectsInv
  <2>2. \A e \in Entries : ~entry'[e].made => entry'[e].snapshot.age = "none" /\ entry'[e].refresh = NoObject
    BY DEF RefreshEnds, CacheInv, ObjectsInv
  <2>3. \A e \in Entries : entry'[e].refresh # NoObject =>
          refresh'[entry'[e].refresh].state = "fetching" /\ refresh'[entry'[e].refresh].entry = e
    BY DEF RefreshEnds, CacheInv, CacheTypeOK, Entry, ObjectsInv
  <2>4. \A q \in Refreshes : refresh'[q].state # "unused" =>
          refresh'[q].key \in Keys /\ refresh'[q].entry \in Entries /\ entry'[refresh'[q].entry].made
    BY DEF RefreshEnds, CacheInv, ObjectsInv
  <2>5. \A c \in Lookups : lookup'[c].step = "waiting" =>
          lookup'[c].refresh \in Refreshes /\ refresh'[lookup'[c].refresh].state = "fetching"
    BY DEF RefreshEnds, CacheInv, ObjectsInv
  <2> QED
    BY <2>1, <2>2, <2>3, <2>4, <2>5 DEF ObjectsInv
<1>2. EntriesInv'
  BY DEF RefreshEnds, CacheInv, CacheTypeOK, EntriesInv
<1>3. SinceInv'
  BY DEF RefreshEnds, CacheInv, CacheTypeOK, SinceInv, ObjectsInv
<1> QED
  BY <1>1, <1>2, <1>3

(* The callers of a refresh that ends have their answer. *)
LEMMA SettledCalls ==
  ASSUME CacheTypeOK, NEW r \in Refreshes, \E ok, bad \in BOOLEAN : lookup' = Settled(r, ok, bad)
  PROVE  /\ lookup' \in [Lookups -> LookupCall]
         /\ \A c \in Lookups : lookup'[c].step = "waiting" => lookup'[c] = lookup[c] /\ lookup[c].refresh # r
<1>1. \A x \in {"served", "failed"} : Ended(x) \in LookupCall /\ Ended(x).step # "waiting"
  BY DEF Ended, LookupCall
<1>2. PICK ok \in BOOLEAN, bad \in BOOLEAN : lookup' = Settled(r, ok, bad)
  OBVIOUS
<1>3. ASSUME NEW c \in Lookups
      PROVE  IF lookup[c].step = "waiting" /\ lookup[c].refresh = r
               THEN \E x \in {"served", "failed"} : lookup'[c] = Ended(x)
               ELSE lookup'[c] = lookup[c]
  BY <1>2 DEF Settled, Waiters
<1>4. \A c \in Lookups : lookup[c] \in LookupCall
  BY DEF CacheTypeOK
<1>5. lookup' \in [Lookups -> LookupCall]
  <2>1. \A c \in Lookups : lookup'[c] \in LookupCall
    BY <1>1, <1>3, <1>4
  <2> QED
    BY <1>2, <2>1 DEF Settled
<1> QED
  BY <1>1, <1>3, <1>5

(* A refresh keeps what it is for when it ends. *)
LEMMA EndedRefresh ==
  ASSUME CacheTypeOK, NEW r \in Refreshes, NEW s \in {"settled", "cancelled"},
         refresh' = [refresh EXCEPT ![r] = [refresh[r] EXCEPT !.state = s]]
  PROVE  /\ refresh' \in [Refreshes -> Refresh]
         /\ refresh'[r].entry = refresh[r].entry /\ refresh'[r].key = refresh[r].key
         /\ refresh'[r].since = refresh[r].since /\ refresh'[r].state # "unused"
         /\ \A q \in Refreshes \ {r} : refresh'[q] = refresh[q]
<1>1. refresh[r] \in Refresh
  BY DEF CacheTypeOK
<1>2. [refresh[r] EXCEPT !.state = s] \in Refresh
  BY <1>1 DEF Refresh
<1>3. refresh'[r] = [refresh[r] EXCEPT !.state = s]
  BY DEF CacheTypeOK
<1> QED
  BY <1>1, <1>2, <1>3 DEF CacheTypeOK, Refresh

(* Detaching touches the entry of r only. *)
LEMMA DetachedEntry ==
  ASSUME CacheInv, NEW r \in Refreshes, refresh[r].state # "unused", Detach(r)
  PROVE  /\ entry' \in [Entries -> Entry] /\ modelsCache' \in [Keys -> Entries \cup {NoObject}]
         /\ \A o \in Entries :
              /\ entry'[o].made = entry[o].made /\ entry'[o].retired = entry[o].retired
              /\ entry'[o].refresh \in {entry[o].refresh, NoObject} \ {r}
              /\ entry'[o].snapshot = entry[o].snapshot
         /\ \A k \in Keys : modelsCache'[k] \in {modelsCache[k], NoObject}
<1> DEFINE e == refresh[r].entry
<1> HIDE DEF e
<1>1. e \in Entries /\ refresh[r].key \in Keys
  BY DEF CacheInv, ObjectsInv, e
<1>2. entry[e] \in Entry
  BY <1>1 DEF CacheInv, CacheTypeOK
<1>3. [entry[e] EXCEPT !.refresh = NoObject] \in Entry
  BY <1>2 DEF Entry
<1>4. entry' = IF entry[e].refresh = r THEN [entry EXCEPT ![e] = [entry[e] EXCEPT !.refresh = NoObject]] ELSE entry
  BY DEF Detach, e
<1>5. entry' \in [Entries -> Entry]
  BY <1>1, <1>3, <1>4 DEF CacheInv, CacheTypeOK
<1>6. ASSUME NEW o \in Entries
      PROVE  /\ entry'[o].made = entry[o].made /\ entry'[o].retired = entry[o].retired
             /\ entry'[o].refresh \in {entry[o].refresh, NoObject} \ {r}
             /\ entry'[o].snapshot = entry[o].snapshot
  <2>1. o # e => entry[o].refresh # r
    BY ObjectAssumption DEF CacheInv, ObjectsInv, e, CacheTypeOK
  <2>2. CASE entry[e].refresh = r /\ o = e
    <3>1. entry'[o] = [entry[e] EXCEPT !.refresh = NoObject]
      BY <1>1, <1>4, <2>2 DEF CacheInv, CacheTypeOK
    <3> QED
      BY <3>1, <2>2, <1>2, ObjectAssumption DEF Entry
  <2>3. CASE entry[e].refresh # r \/ o # e
    <3>1. entry'[o] = entry[o]
      BY <1>1, <1>4, <2>3 DEF CacheInv, CacheTypeOK
    <3> QED
      BY <2>1, <2>3, <3>1
  <2> QED
    BY <2>2, <2>3
<1>7. /\ modelsCache' \in [Keys -> Entries \cup {NoObject}]
      /\ \A k \in Keys : modelsCache'[k] \in {modelsCache[k], NoObject}
  BY <1>1 DEF Detach, CacheInv, CacheTypeOK
<1> QED
  BY <1>5, <1>6, <1>7

(* An answer of the upstream keeps CacheInv. *)
LEMMA FetchedStep ==
  ASSUME CacheInv, NEW r \in Refreshes, Fetched(r)
  PROVE  CacheInv'
<1> DEFINE e == refresh[r].entry
           new == [made |-> entry[e].made, retired |-> entry[e].retired,
                   refresh |-> IF entry[e].refresh = r THEN NoObject ELSE entry[e].refresh,
                   snapshot |-> IF entry[e].retired THEN entry[e].snapshot
                                ELSE [age |-> "fresh", since |-> refresh[r].since]]
<1> HIDE DEF e, new
<1>0. refresh[r].state # "unused"
  BY DEF Fetched
<1>1. e \in Entries /\ refresh[r].key \in Keys
  BY <1>0 DEF CacheInv, ObjectsInv, e
<1>2. entry[e] \in Entry /\ refresh[r].since \in Nat
  BY <1>1 DEF CacheInv, CacheTypeOK, Refresh
<1>3. new \in Entry
  BY <1>2 DEF new, Entry, Snapshot
<1>4. entry' = [entry EXCEPT ![e] = new]
  BY DEF Fetched, e, new
<1>5. refresh' = [refresh EXCEPT ![r] = [refresh[r] EXCEPT !.state = "settled"]]
  BY DEF Fetched
<1>6. /\ modelsCache' \in [Keys -> Entries \cup {NoObject}]
      /\ \A k \in Keys : modelsCache'[k] \in {modelsCache[k], NoObject}
  BY <1>1 DEF Fetched, CacheInv, CacheTypeOK
<1>7. lookup' = Settled(r, TRUE, FALSE) /\ clears' = clears
  BY DEF Fetched
<1>8. CacheTypeOK /\ CacheTypeOK'
  <2>1. entry' \in [Entries -> Entry]
    BY <1>1, <1>3, <1>4 DEF CacheInv, CacheTypeOK
  <2>2. refresh' \in [Refreshes -> Refresh]
    BY <1>5, EndedRefresh DEF CacheInv
  <2> QED
    BY <2>1, <2>2, <1>6, <1>7, SettledCalls DEF CacheInv, CacheTypeOK
<1>9. RefreshEnds(r)
  <2>1. ASSUME NEW o \in Entries
        PROVE  /\ entry'[o].made = entry[o].made /\ entry'[o].retired = entry[o].retired
               /\ entry'[o].refresh \in {entry[o].refresh, NoObject} \ {r}
               /\ \/ entry'[o].snapshot = entry[o].snapshot
                  \/ o = refresh[r].entry /\ ~entry[o].retired /\ entry'[o].snapshot.since = refresh[r].since
    <3>1. CASE o = e
      <4>1. entry'[o] = new
        BY <1>1, <1>4, <3>1 DEF CacheInv, CacheTypeOK
      <4>2. /\ new.made = entry[e].made /\ new.retired = entry[e].retired
            /\ new.refresh \in {entry[e].refresh, NoObject} \ {r}
            /\ entry[e].retired => new.snapshot = entry[e].snapshot
            /\ ~entry[e].retired => new.snapshot.since = refresh[r].since
        BY ObjectAssumption DEF new
      <4> QED
        BY <3>1, <4>1, <4>2 DEF e
    <3>2. CASE o # e
      <4>1. entry'[o] = entry[o]
        BY <1>1, <1>4, <3>2 DEF CacheInv, CacheTypeOK
      <4>2. entry[o].refresh # r
        BY <3>2, ObjectAssumption DEF CacheInv, ObjectsInv, e
      <4> QED
        BY <4>1, <4>2
    <3> QED
      BY <3>1, <3>2
  <2>2. \A c \in Lookups : lookup'[c].step = "waiting" => lookup'[c] = lookup[c] /\ lookup[c].refresh # r
    BY <1>7, <1>8, SettledCalls
  <2>3. /\ refresh'[r].entry = refresh[r].entry /\ refresh'[r].key = refresh[r].key
        /\ refresh'[r].since = refresh[r].since /\ refresh'[r].state # "unused"
        /\ \A q \in Refreshes \ {r} : refresh'[q] = refresh[q]
    BY <1>5, EndedRefresh DEF CacheInv
  <2> QED
    BY <1>6, <1>7, <2>1, <2>2, <2>3 DEF RefreshEnds
<1> QED
  BY <1>0, <1>8, <1>9, EndStep DEF CacheInv

(* A refresh that fails keeps CacheInv. *)
LEMMA FailedStep ==
  ASSUME CacheInv, NEW r \in Refreshes, RefreshFailed(r)
  PROVE  CacheInv'
<1>1. refresh[r].state # "unused" /\ CacheTypeOK
  BY DEF RefreshFailed, CacheInv
<1>2. PICK bad \in BOOLEAN : lookup' = Settled(r, FALSE, bad)
  BY DEF RefreshFailed
<1>3. refresh' = [refresh EXCEPT ![r] = [refresh[r] EXCEPT !.state = "settled"]] /\ Detach(r) /\ clears' = clears
  BY DEF RefreshFailed
<1>4. CacheTypeOK'
  BY <1>1, <1>2, <1>3, DetachedEntry, EndedRefresh, SettledCalls DEF CacheTypeOK
<1>5. \A c \in Lookups : lookup'[c].step = "waiting" => lookup'[c] = lookup[c] /\ lookup[c].refresh # r
  BY <1>1, <1>2, SettledCalls
<1>6. RefreshEnds(r)
  BY <1>1, <1>3, <1>5, DetachedEntry, EndedRefresh DEF RefreshEnds
<1> QED
  BY <1>1, <1>4, <1>6, EndStep DEF CacheInv

(* A caller that gives up, and the refresh it may cancel, keep CacheInv. *)
LEMMA AbortStep ==
  ASSUME CacheInv, NEW c \in Lookups, Abort(c)
  PROVE  CacheInv'
<1> DEFINE r == lookup[c].refresh
<1> HIDE DEF r
<1>1. lookup[c].step = "waiting" /\ lookup' = [lookup EXCEPT ![c] = Ended("failed")] /\ clears' = clears
  BY DEF Abort
<1>2. r \in Refreshes /\ refresh[r].state = "fetching"
  BY <1>1 DEF CacheInv, ObjectsInv, r
<1>3. /\ lookup' \in [Lookups -> LookupCall]
      /\ \A d \in Lookups : lookup'[d].step = "waiting" => d # c /\ lookup'[d] = lookup[d]
  BY <1>1 DEF CacheInv, CacheTypeOK, Ended, LookupCall
<1>4. CASE Waiters(r) = {c}
  <2>1. refresh' = [refresh EXCEPT ![r] = [refresh[r] EXCEPT !.state = "cancelled"]] /\ Detach(r)
    BY <1>4 DEF Abort, r
  <2>2. \A d \in Lookups : lookup'[d].step = "waiting" => lookup'[d] = lookup[d] /\ lookup[d].refresh # r
    BY <1>3, <1>4 DEF Waiters
  <2>3. CacheTypeOK'
    BY <1>1, <1>2, <1>3, <2>1, DetachedEntry, EndedRefresh DEF CacheTypeOK, CacheInv
  <2>4. RefreshEnds(r)
    BY <1>1, <1>2, <2>1, <2>2, DetachedEntry, EndedRefresh DEF RefreshEnds, CacheInv
  <2> QED
    BY <1>2, <2>3, <2>4, EndStep DEF CacheInv
<1>5. CASE Waiters(r) # {c}
  <2>1. UNCHANGED <<refresh, entry, modelsCache>>
    BY <1>5 DEF Abort, r
  <2> QED
    BY <1>1, <1>3, <2>1 DEF CacheInv, CacheTypeOK, ObjectsInv, EntriesInv, SinceInv
<1> QED
  BY <1>4, <1>5

(* What a lookup does to the map: the entry e of key k is the only one in use. *)
LookupDoes(k, e) ==
  /\ \A o \in Entries \ {e} :
       /\ entry'[o].made = entry[o].made /\ entry'[o].refresh = entry[o].refresh
       /\ \/ entry'[o].retired = entry[o].retired /\ entry'[o].snapshot = entry[o].snapshot
          \/ entry'[o].retired /\ entry'[o].snapshot.age = "none"
  /\ entry'[e].made /\ ~entry'[e].retired /\ entry'[e].snapshot = entry[e].snapshot
  /\ modelsCache'[k] = e
  /\ \A j \in Keys \ {k} : /\ modelsCache'[j] \in {modelsCache[j], NoObject}
                           /\ modelsCache[j] # e
                           /\ modelsCache'[j] # NoObject => entry'[modelsCache'[j]].retired
  /\ clears' = clears

(* The fields make an entry. *)
LEMMA NewEntry ==
  ASSUME NEW s \in Snapshot, NEW x \in Refreshes \cup {NoObject}, NEW m \in BOOLEAN, NEW t \in BOOLEAN
  PROVE  [made |-> m, retired |-> t, snapshot |-> s, refresh |-> x] \in Entry
  BY DEF Entry

(* After a lookup the entry of its key is the only one in use, and the others
   are retired. *)
LEMMA LookupMap ==
  ASSUME CacheInv, NEW k \in Keys, NEW e \in Entries, IsEntryOf(k, e),
         NEW entries, entries = IF Current(k) THEN entry ELSE Retired(k, e),
         modelsCache' = IF Current(k) THEN modelsCache ELSE Dropped(k, e)
  PROVE  /\ entries \in [Entries -> Entry] /\ modelsCache' \in [Keys -> Entries \cup {NoObject}]
         /\ \A o \in Entries \ {e} :
              /\ entries[o].made = entry[o].made /\ entries[o].refresh = entry[o].refresh
              /\ \/ entries[o].retired = entry[o].retired /\ entries[o].snapshot = entry[o].snapshot
                 \/ entries[o].retired /\ entries[o].snapshot.age = "none"
         /\ entries[e].made /\ ~entries[e].retired /\ entries[e].snapshot = entry[e].snapshot
         /\ entries[e].refresh = entry[e].refresh
         /\ modelsCache'[k] = e
         /\ \A j \in Keys \ {k} : /\ modelsCache'[j] \in {modelsCache[j], NoObject}
                                  /\ modelsCache[j] # e
                                  /\ modelsCache'[j] # NoObject => entries[modelsCache'[j]].retired
<1> USE ObjectAssumption
<1>0. modelsCache[k] # NoObject => e = modelsCache[k]
  BY DEF IsEntryOf
<1>1. modelsCache[k] = NoObject => ~entry[e].made
  BY DEF IsEntryOf, Fresh
<1>2. \A j \in Keys \ {k} : modelsCache[j] # e
  BY <1>0, <1>1 DEF CacheInv, ObjectsInv, EntriesInv
<1>3. CASE Current(k)
  BY <1>0, <1>2, <1>3 DEF CacheInv, CacheTypeOK, ObjectsInv, EntriesInv, Current
<1>4. CASE ~Current(k)
  <2>1. entries = Retired(k, e) /\ modelsCache' = Dropped(k, e)
    BY <1>4
  <2>2. ASSUME NEW o \in Entries
        PROVE  /\ entries[o] \in Entry
               /\ entries[o].refresh = entry[o].refresh
               /\ o = e => entries[o].made /\ ~entries[o].retired /\ entries[o].snapshot = entry[o].snapshot
               /\ o # e => /\ entries[o].made = entry[o].made
                           /\ \/ entries[o].retired = entry[o].retired /\ entries[o].snapshot = entry[o].snapshot
                              \/ entries[o].retired /\ entries[o].snapshot.age = "none"
               /\ o # e /\ (\E j \in Keys \ {k} : modelsCache[j] = o) => entries[o].retired
    <3>1. entry[o] \in Entry
      BY DEF CacheInv, CacheTypeOK
    <3>2. CASE o = e
      <4>1. entries[o] = [made |-> TRUE, retired |-> FALSE,
                          snapshot |-> entry[o].snapshot, refresh |-> entry[o].refresh]
        BY <2>1, <3>2 DEF Retired
      <4>2. entries[o] \in Entry
        <5>1. entry[o].snapshot \in Snapshot /\ entry[o].refresh \in Refreshes \cup {NoObject}
          BY <3>1 DEF Entry
        <5> QED
          BY <4>1, <5>1, NewEntry
      <4>3. entries[o].made /\ ~entries[o].retired /\ entries[o].snapshot = entry[o].snapshot
            /\ entries[o].refresh = entry[o].refresh
        BY <4>1
      <4> QED
        BY <3>2, <4>2, <4>3
    <3>3. CASE o # e /\ \E j \in Keys \ {k} : modelsCache[j] = o
      <4>1. entries[o] = [made |-> entry[o].made, retired |-> TRUE,
                          snapshot |-> NoSnapshot, refresh |-> entry[o].refresh]
        BY <2>1, <3>3 DEF Retired
      <4>2. entries[o] \in Entry
        <5>1. entry[o].made \in BOOLEAN /\ entry[o].refresh \in Refreshes \cup {NoObject}
          BY <3>1 DEF Entry
        <5>2. NoSnapshot \in Snapshot
          BY DEF Snapshot, NoSnapshot
        <5> QED
          BY <4>1, <5>1, <5>2, NewEntry
      <4>3. /\ entries[o].made = entry[o].made /\ entries[o].retired
            /\ entries[o].snapshot.age = "none" /\ entries[o].refresh = entry[o].refresh
        BY <4>1 DEF NoSnapshot
      <4> QED
        BY <3>3, <4>2, <4>3
    <3>4. CASE o # e /\ ~\E j \in Keys \ {k} : modelsCache[j] = o
      <4>1. entries[o] = entry[o]
        BY <2>1, <3>4 DEF Retired
      <4> QED
        BY <3>1, <3>4, <4>1
    <3> QED
      BY <3>2, <3>3, <3>4
  <2>4. entries \in [Entries -> Entry]
    BY <2>1, <2>2 DEF Retired
  <2>5. \A j \in Keys : modelsCache'[j] = IF j = k THEN e
                        ELSE IF modelsCache[j] # NoObject /\ entry[modelsCache[j]].refresh = NoObject
                        THEN NoObject ELSE modelsCache[j]
    BY <2>1 DEF Dropped
  <2>6. modelsCache' \in [Keys -> Entries \cup {NoObject}]
    <3>1. \A j \in Keys : modelsCache'[j] \in Entries \cup {NoObject}
      BY <2>5 DEF CacheInv, CacheTypeOK
    <3> QED
      BY <2>1, <3>1 DEF Dropped
  <2>7. \A o \in Entries \ {e} :
          /\ entries[o].made = entry[o].made /\ entries[o].refresh = entry[o].refresh
          /\ \/ entries[o].retired = entry[o].retired /\ entries[o].snapshot = entry[o].snapshot
             \/ entries[o].retired /\ entries[o].snapshot.age = "none"
    BY <2>2
  <2>8. /\ entries[e].made /\ ~entries[e].retired /\ entries[e].snapshot = entry[e].snapshot
        /\ entries[e].refresh = entry[e].refresh
    BY <2>2
  <2>9. \A j \in Keys \ {k} : modelsCache'[j] # NoObject => entries[modelsCache'[j]].retired
    <3> SUFFICES ASSUME NEW j \in Keys \ {k}, modelsCache'[j] # NoObject
                 PROVE  entries[modelsCache[j]].retired /\ modelsCache'[j] = modelsCache[j]
      OBVIOUS
    <3>1. modelsCache'[j] = modelsCache[j] /\ modelsCache[j] \in Entries \ {e}
      BY <1>2, <2>5 DEF CacheInv, CacheTypeOK
    <3> QED
      BY <2>2, <3>1
  <2>10. \A j \in Keys \ {k} : modelsCache'[j] \in {modelsCache[j], NoObject}
    BY <2>5
  <2>11. modelsCache'[k] = e
    BY <2>5
  <2> QED
    BY <1>2, <2>4, <2>6, <2>7, <2>8, <2>9, <2>10, <2>11
<1> QED
  BY <1>3, <1>4

(* After a lookup the map follows the credential that asked, and the entry's
   refresh was asked for since the last clear. *)
LEMMA LookupKeeps ==
  ASSUME CacheInv, NEW k \in Keys, NEW e \in Entries, NEW r \in Refreshes, IsEntryOf(k, e), LookupDoes(k, e),
         CacheTypeOK',
         \/ refresh' = refresh /\ entry'[e].refresh = entry[e].refresh
         \/ /\ refresh[r].state = "unused" /\ entry[e].refresh = NoObject /\ entry'[e].refresh = r
            /\ refresh'[r] = [state |-> "fetching", key |-> k, entry |-> e, since |-> clears]
            /\ \A q \in Refreshes \ {r} : refresh'[q] = refresh[q],
         \A c \in Lookups : lookup'[c].step = "waiting" =>
           \/ lookup'[c] = lookup[c]
           \/ entry'[e].refresh # NoObject /\ lookup'[c].refresh = entry'[e].refresh
  PROVE  ObjectsInv' /\ EntriesInv' /\ SinceInv'
<1> USE ObjectAssumption
<1>1. ASSUME NEW q \in Refreshes
      PROVE  \/ refresh'[q] = refresh[q]
             \/ /\ refresh[q].state = "unused" /\ refresh'[q].state = "fetching" /\ refresh'[q].key = k
                /\ refresh'[q].entry = e /\ refresh'[q].since = clears
  OBVIOUS
<1>2. ASSUME NEW o \in Entries
      PROVE  /\ entry[o].made => entry'[o].made
             /\ ~entry'[o].made => entry'[o].snapshot.age = "none"
             /\ entry'[o].refresh # NoObject =>
                  refresh'[entry'[o].refresh].state = "fetching" /\ refresh'[entry'[o].refresh].entry = o
             /\ ~entry'[o].made => entry'[o].refresh = NoObject
  <2>1. CASE o = e
    BY <1>1, <2>1 DEF LookupDoes, CacheInv, CacheTypeOK, Entry, ObjectsInv
  <2>2. CASE o # e
    <3>1. entry'[o].made = entry[o].made /\ entry'[o].refresh = entry[o].refresh
      BY <2>2 DEF LookupDoes
    <3>2. ~entry[o].made => entry'[o].snapshot.age = "none"
      BY <2>2 DEF LookupDoes, CacheInv, ObjectsInv
    <3>3. entry[o].refresh # NoObject => entry[o].refresh \in Refreshes
      BY DEF CacheInv, CacheTypeOK, Entry
    <3> QED
      BY <1>1, <3>1, <3>2, <3>3 DEF CacheInv, ObjectsInv
  <2> QED
    BY <2>1, <2>2
<1>3. ObjectsInv'
  <2>1. \A j \in Keys : modelsCache'[j] # NoObject => entry'[modelsCache'[j]].made
    BY <1>2 DEF LookupDoes, CacheInv, CacheTypeOK, ObjectsInv
  <2>2. \A q \in Refreshes : refresh'[q].state # "unused" =>
          refresh'[q].key \in Keys /\ refresh'[q].entry \in Entries /\ entry'[refresh'[q].entry].made
    BY <1>1, <1>2 DEF LookupDoes, CacheInv, ObjectsInv
  <2>3. \A c \in Lookups : lookup'[c].step = "waiting" =>
          lookup'[c].refresh \in Refreshes /\ refresh'[lookup'[c].refresh].state = "fetching"
    <3> SUFFICES ASSUME NEW c \in Lookups, lookup'[c].step = "waiting"
                 PROVE  lookup'[c].refresh \in Refreshes /\ refresh'[lookup'[c].refresh].state = "fetching"
      OBVIOUS
    <3>1. CASE lookup'[c] = lookup[c]
      <4>1. lookup[c].refresh \in Refreshes /\ refresh[lookup[c].refresh].state = "fetching"
        BY <3>1 DEF CacheInv, ObjectsInv
      <4>2. refresh'[lookup[c].refresh] = refresh[lookup[c].refresh]
        BY <4>1
      <4> QED
        BY <3>1, <4>1, <4>2
    <3>2. CASE entry'[e].refresh # NoObject /\ lookup'[c].refresh = entry'[e].refresh
      BY <1>2, <3>2 DEF CacheTypeOK, Entry
    <3> QED
      BY <3>1, <3>2
  <2> QED
    BY <1>2, <2>1, <2>2, <2>3 DEF ObjectsInv
<1>4. EntriesInv'
  <2>1. \A i, j \in Keys : i # j /\ modelsCache'[i] # NoObject => modelsCache'[i] # modelsCache'[j]
    BY DEF LookupDoes, CacheInv, EntriesInv
  <2>2. \A i, j \in Keys : i # j /\ modelsCache'[i] # NoObject /\ modelsCache'[j] # NoObject =>
          entry'[modelsCache'[i]].retired \/ entry'[modelsCache'[j]].retired
    BY DEF LookupDoes
  <2>3. ASSUME NEW j \in Keys, modelsCache'[j] # NoObject, entry'[modelsCache'[j]].retired
        PROVE  entry'[modelsCache'[j]].snapshot.age = "none"
    <3>1. j # k /\ modelsCache'[j] = modelsCache[j] /\ modelsCache[j] \in Entries \ {e}
      BY <2>3 DEF LookupDoes, CacheInv, CacheTypeOK
    <3> QED
      BY <2>3, <3>1 DEF LookupDoes, CacheInv, EntriesInv
  <2> QED
    BY <2>1, <2>2, <2>3 DEF EntriesInv
<1>5. SinceInv'
  <2> SUFFICES ASSUME NEW j \in Keys, modelsCache'[j] # NoObject
               PROVE  /\ entry'[modelsCache'[j]].snapshot.age # "none" =>
                           entry'[modelsCache'[j]].snapshot.since = clears
                      /\ \A q \in Refreshes : refresh'[q].state # "unused" /\ refresh'[q].entry = modelsCache'[j] =>
                           refresh'[q].since = clears
    BY DEF SinceInv, LookupDoes
  <2>1. CASE j = k
    <3>1. modelsCache'[j] = e /\ entry'[e].snapshot = entry[e].snapshot
      BY <2>1 DEF LookupDoes
    <3>2. CASE modelsCache[k] # NoObject
      <4>1. modelsCache[k] = e
        BY <3>2 DEF IsEntryOf
      <4> QED
        BY <1>1, <3>1, <3>2, <4>1 DEF CacheInv, SinceInv
    <3>3. CASE modelsCache[k] = NoObject
      <4>1. ~entry[e].made
        BY <3>3 DEF IsEntryOf, Fresh
      <4> QED
        BY <1>1, <3>1, <4>1 DEF CacheInv, ObjectsInv
    <3> QED
      BY <3>2, <3>3
  <2>2. CASE j # k
    <3>1. modelsCache'[j] = modelsCache[j] /\ modelsCache[j] \in Entries \ {e}
      BY <2>2 DEF LookupDoes, CacheInv, CacheTypeOK
    <3>2. entry'[modelsCache[j]].snapshot.age # "none" => entry'[modelsCache[j]].snapshot = entry[modelsCache[j]].snapshot
      BY <3>1 DEF LookupDoes
    <3> QED
      BY <1>1, <3>1, <3>2 DEF CacheInv, SinceInv
  <2> QED
    BY <2>1, <2>2
<1> QED
  BY <1>3, <1>4, <1>5

(* A lookup keeps CacheInv, whether it is served, joins a refresh or starts one. *)
LEMMA LookupStep ==
  ASSUME CacheInv, NEW c \in Lookups, NEW k \in Keys, NEW e \in Entries, NEW r \in Refreshes, Lookup(c, k, e, r)
  PROVE  CacheInv'
<1> DEFINE entries == IF Current(k) THEN entry ELSE Retired(k, e)
           used == IF entry[e].refresh # NoObject THEN entry[e].refresh ELSE r
<1> HIDE DEF entries, used
<1>1. /\ IsEntryOf(k, e) /\ modelsCache' = IF Current(k) THEN modelsCache ELSE Dropped(k, e)
      /\ lookup[c].step = "idle" /\ clears' = clears
  BY DEF Lookup
<1>2. /\ entries \in [Entries -> Entry] /\ modelsCache' \in [Keys -> Entries \cup {NoObject}]
      /\ \A o \in Entries \ {e} :
           /\ entries[o].made = entry[o].made /\ entries[o].refresh = entry[o].refresh
           /\ \/ entries[o].retired = entry[o].retired /\ entries[o].snapshot = entry[o].snapshot
              \/ entries[o].retired /\ entries[o].snapshot.age = "none"
      /\ entries[e].made /\ ~entries[e].retired /\ entries[e].snapshot = entry[e].snapshot
      /\ entries[e].refresh = entry[e].refresh
      /\ modelsCache'[k] = e
      /\ \A j \in Keys \ {k} : /\ modelsCache'[j] \in {modelsCache[j], NoObject}
                               /\ modelsCache[j] # e
                               /\ modelsCache'[j] # NoObject => entries[modelsCache'[j]].retired
  BY <1>1, LookupMap DEF entries
<1>3. CASE /\ lookup' = [lookup EXCEPT ![c] = Ended("served")]
           /\ entry' = entries /\ refresh' = refresh
  <2>1. CacheTypeOK'
    <3>1. Ended("served") \in LookupCall
      BY DEF Ended, LookupCall
    <3> QED
      BY <1>1, <1>2, <1>3, <3>1 DEF CacheInv, CacheTypeOK
  <2>2. LookupDoes(k, e)
    BY <1>1, <1>2, <1>3 DEF LookupDoes
  <2>3. \A d \in Lookups : lookup'[d].step = "waiting" => lookup'[d] = lookup[d]
    BY <1>3 DEF CacheInv, CacheTypeOK, Ended
  <2> QED
    BY <1>1, <1>2, <1>3, <2>1, <2>2, <2>3, LookupKeeps DEF CacheInv
<1>4. ASSUME NEW force \in BOOLEAN,
             entry[e].refresh # NoObject \/ Unstarted(r),
             lookup' = [lookup EXCEPT ![c] = [step |-> "waiting", refresh |-> used,
                                              stale |-> ~force /\ entry[e].snapshot.age = "stale"]],
             entry' = [entries EXCEPT ![e] = [entries[e] EXCEPT !.refresh = used]],
             refresh' = IF entry[e].refresh # NoObject THEN refresh
                        ELSE [refresh EXCEPT ![r] = [state |-> "fetching", key |-> k, entry |-> e, since |-> clears]]
      PROVE  CacheInv'
  <2>1. used \in Refreshes /\ used # NoObject
    BY ObjectAssumption DEF used, CacheInv, CacheTypeOK, Entry
  <2>2. entries[e] \in Entry /\ entry'[e] = [entries[e] EXCEPT !.refresh = used]
    BY <1>2, <1>4
  <2>3. /\ entry'[e].made /\ ~entry'[e].retired /\ entry'[e].snapshot = entry[e].snapshot
        /\ entry'[e].refresh = used /\ entry'[e] \in Entry
    BY <1>2, <2>1, <2>2 DEF Entry
  <2>4. \A o \in Entries \ {e} : entry'[o] = entries[o]
    BY <1>2, <1>4
  <2>5. [step |-> "waiting", refresh |-> used,
         stale |-> ~force /\ entry[e].snapshot.age = "stale"] \in LookupCall
    BY <2>1 DEF LookupCall
  <2>6. [state |-> "fetching", key |-> k, entry |-> e, since |-> clears] \in Refresh
    BY DEF CacheInv, CacheTypeOK, Refresh
  <2>7. entry' \in [Entries -> Entry]
    BY <1>2, <1>4, <2>2, <2>3
  <2>8. lookup' \in [Lookups -> LookupCall] /\ refresh' \in [Refreshes -> Refresh]
    BY <1>4, <2>5, <2>6 DEF CacheInv, CacheTypeOK
  <2>9. CacheTypeOK'
    BY <1>1, <1>2, <2>7, <2>8 DEF CacheInv, CacheTypeOK
  <2>10. LookupDoes(k, e)
    <3>1. \A j \in Keys \ {k} : modelsCache'[j] # NoObject => entry'[modelsCache'[j]].retired
      <4> SUFFICES ASSUME NEW j \in Keys \ {k}, modelsCache'[j] # NoObject
                   PROVE  entry'[modelsCache'[j]].retired
        OBVIOUS
      <4>1. modelsCache'[j] \in Entries \ {e} /\ entries[modelsCache'[j]].retired
        BY <1>2
      <4> QED
        BY <2>4, <4>1
    <3>2. \A o \in Entries \ {e} :
            /\ entry'[o].made = entry[o].made /\ entry'[o].refresh = entry[o].refresh
            /\ \/ entry'[o].retired = entry[o].retired /\ entry'[o].snapshot = entry[o].snapshot
               \/ entry'[o].retired /\ entry'[o].snapshot.age = "none"
      BY <1>2, <2>4
    <3> QED
      BY <1>1, <1>2, <2>3, <3>1, <3>2 DEF LookupDoes
  <2>11. \A d \in Lookups : lookup'[d].step = "waiting" =>
           \/ lookup'[d] = lookup[d]
           \/ entry'[e].refresh # NoObject /\ lookup'[d].refresh = entry'[e].refresh
    BY <1>4, <2>1, <2>3 DEF CacheInv, CacheTypeOK
  <2>12. \/ refresh' = refresh /\ entry'[e].refresh = entry[e].refresh
         \/ /\ refresh[r].state = "unused" /\ entry[e].refresh = NoObject /\ entry'[e].refresh = r
            /\ refresh'[r] = [state |-> "fetching", key |-> k, entry |-> e, since |-> clears]
            /\ \A q \in Refreshes \ {r} : refresh'[q] = refresh[q]
    <3>1. CASE entry[e].refresh # NoObject
      BY <1>4, <2>3, <3>1 DEF used
    <3>2. CASE entry[e].refresh = NoObject
      BY <1>4, <2>3, <3>2 DEF used, Unstarted, CacheInv, CacheTypeOK
    <3> QED
      BY <3>1, <3>2
  <2> QED
    BY <1>1, <2>9, <2>10, <2>11, <2>12, LookupKeeps DEF CacheInv
<1> QED
  BY <1>3, <1>4 DEF Lookup, entries, used

(* Every step keeps CacheInv. *)
LEMMA CacheStep ==
  ASSUME CacheInv, [CacheNext]_cacheVars
  PROVE  CacheInv'
<1>1. ASSUME NEW k \in Keys, Reject(k) PROVE CacheInv'
  <2> USE DEF CacheInv, CacheTypeOK, ObjectsInv, EntriesInv, SinceInv
  <2>1. CacheTypeOK'
    BY <1>1 DEF Reject
  <2>2. ObjectsInv'
    BY <1>1 DEF Reject
  <2>3. EntriesInv' /\ SinceInv'
    BY <1>1 DEF Reject
  <2> QED
    BY <2>1, <2>2, <2>3
<1>2. CASE Clear
  BY <1>2 DEF Clear, CacheInv, CacheTypeOK, ObjectsInv, EntriesInv, SinceInv
<1>3. ASSUME NEW e \in Entries, Ages(e) PROVE CacheInv'
  <2> USE DEF CacheInv, CacheTypeOK, Entry, Snapshot, ObjectsInv, EntriesInv, SinceInv
  <2>1. CacheTypeOK'
    BY <1>3 DEF Ages
  <2>2. ObjectsInv'
    BY <1>3 DEF Ages
  <2>3. EntriesInv' /\ SinceInv'
    BY <1>3 DEF Ages
  <2> QED
    BY <2>1, <2>2, <2>3
<1>4. CASE UNCHANGED cacheVars
  BY <1>4 DEF cacheVars, CacheInv, CacheTypeOK, ObjectsInv, EntriesInv, SinceInv
<1> QED
  BY <1>1, <1>2, <1>3, <1>4, FetchedStep, FailedStep, AbortStep, LookupStep DEF CacheNext

(* CacheInv holds in every state of the cache. *)
LEMMA CacheInvariant == CacheSpec => []CacheInv
<1>1. CacheInit => CacheInv
  <2> SUFFICES ASSUME CacheInit PROVE CacheInv
    OBVIOUS
  <2>1. CacheTypeOK
    BY DEF CacheInit, CacheTypeOK, Entry, Refresh, LookupCall, Snapshot, NoSnapshot, Ended
  <2>2. ObjectsInv /\ EntriesInv /\ SinceInv
    BY DEF CacheInit, ObjectsInv, EntriesInv, SinceInv, NoSnapshot, Ended
  <2> QED
    BY <2>1, <2>2 DEF CacheInv
<1> QED
  BY <1>1, CacheStep, PTL DEF CacheSpec

(* Whatever refreshes are on their way when the credential changes or the
   cache is cleared: only the latest credential has a snapshot, and none that
   was asked for before the last clear. *)
THEOREM CacheStaysCurrent == CacheSpec => []CacheFollowsCredential
<1>1. CacheInv => CacheFollowsCredential
  BY DEF CacheInv, CacheTypeOK, EntriesInv, SinceInv, CacheFollowsCredential
<1> QED
  BY <1>1, CacheInvariant, PTL

-----------------------------------------------------------------------------
(* Shutdown *)

(* Every step of the start, the requests and the release keeps ShutdownInv. *)
LEMMA ShutdownStep ==
  ASSUME ShutdownInv, ShutdownNext
  PROVE  ShutdownInv'
<1> USE DEF ShutdownInv, ShutdownTypeOK, ResourcesInv, ConnInv, HistoryInv, CleanExitIsClean,
            BusyConnectionsEnd, lifeVars, connVars, resourceVars
<1>1. CASE StartStorage
  BY <1>1, ShutdownAssumption DEF StartStorage, Closing, InFlightConns
<1>2. CASE StartPool
  BY <1>2, ShutdownAssumption DEF StartPool, Closing, InFlightConns
<1>3. CASE Listen
  BY <1>3, ShutdownAssumption DEF Listen, Closing, InFlightConns
<1>4. CASE StartFails
  BY <1>4, ShutdownAssumption DEF StartFails, Closing, InFlightConns
<1>5. CASE StartDraining
  BY <1>5, ShutdownAssumption DEF StartDraining, Closing, InFlightConns
<1>6. CASE DrainTimer
  BY <1>6, ShutdownAssumption DEF DrainTimer, Closing, InFlightConns
<1>7. CASE HardExit
  BY <1>7, ShutdownAssumption DEF HardExit, Closing, InFlightConns
<1>8. CASE SecondSignal
  BY <1>8, ShutdownAssumption DEF SecondSignal, Closing, InFlightConns
<1>9. CASE ServerClosed
  BY <1>9, ShutdownAssumption DEF ServerClosed, Closing, InFlightConns
<1>10. CASE StopPool
  <2>1. ShutdownTypeOK'
    BY <1>10 DEF StopPool
  <2>2. ResourcesInv' /\ CleanExitIsClean'
    <3>1. CASE poolUp' = FALSE /\ UNCHANGED <<code, released>>
      BY <1>10, <3>1 DEF StopPool
    <3>2. CASE released' = TRUE /\ code' = 1 /\ UNCHANGED poolUp
      BY <1>10, <3>2 DEF StopPool
    <3> QED
      BY <1>10, <3>1, <3>2 DEF StopPool
  <2>3. ConnInv' /\ HistoryInv' /\ BusyConnectionsEnd'
    BY <1>10 DEF StopPool
  <2> QED
    BY <2>1, <2>2, <2>3
<1>11. CASE CloseStorage
  <2>1. ShutdownTypeOK'
    BY <1>11 DEF CloseStorage
  <2>2. ResourcesInv' /\ CleanExitIsClean'
    BY <1>11 DEF CloseStorage
  <2>3. ConnInv' /\ HistoryInv' /\ BusyConnectionsEnd'
    BY <1>11 DEF CloseStorage
  <2> QED
    BY <2>1, <2>2, <2>3
<1>12. CASE Exit
  BY <1>12, ShutdownAssumption DEF Exit, Closing, InFlightConns
<1>13. ASSUME NEW c \in Conns, Request(c) \/ ResponseEnds(c) \/ ConnectionLost(c) \/ HandlerEnds(c) \/ TailEnds(c)
      PROVE  ShutdownInv'
  <2>1. CASE Request(c)
    BY <2>1, ShutdownAssumption DEF Request, Closing, Alive
  <2>2. CASE ResponseEnds(c)
    BY <2>2, ShutdownAssumption DEF ResponseEnds, Closing, Alive
  <2>3. CASE ConnectionLost(c)
    BY <2>3, ShutdownAssumption DEF ConnectionLost, Closing, Alive
  <2>4. CASE HandlerEnds(c)
    BY <2>4, ShutdownAssumption DEF HandlerEnds, Closing, Alive
  <2>5. CASE TailEnds(c)
    <3>1. tails' \in [Conns -> Nat]
      BY <2>5 DEF TailEnds
    <3> QED
      BY <2>5, <3>1 DEF TailEnds
  <2> QED
    BY <1>13, <2>1, <2>2, <2>3, <2>4, <2>5
<1> QED
  BY <1>1, <1>2, <1>3, <1>4, <1>5, <1>6, <1>7, <1>8, <1>9, <1>10, <1>11, <1>12, <1>13
     DEF ShutdownNext

(* ShutdownInv holds in every state of the process. *)
LEMMA ShutdownInvariant == ShutdownSpec => []ShutdownInv
<1>1. ShutdownInit => ShutdownInv
  <2> SUFFICES ASSUME ShutdownInit PROVE ShutdownInv
    OBVIOUS
  <2>1. ShutdownTypeOK
    <3>1. conn \in [Conns -> {"fresh", "idle", "busy", "closed"}]
      BY DEF ShutdownInit
    <3>2. began \in [Conns -> 0..MaxRequests]
      <4>1. 0 \in 0..MaxRequests
        BY ShutdownAssumption
      <4> QED
        BY <4>1 DEF ShutdownInit
    <3> QED
      BY <3>1, <3>2 DEF ShutdownInit, ShutdownTypeOK
  <2>2. ResourcesInv /\ CleanExitIsClean
    BY DEF ShutdownInit, ResourcesInv, CleanExitIsClean
  <2>3. ConnInv /\ HistoryInv /\ BusyConnectionsEnd
    BY DEF ShutdownInit, ConnInv, HistoryInv, BusyConnectionsEnd
  <2> QED
    BY <2>1, <2>2, <2>3 DEF ShutdownInv
<1>2. ShutdownInv /\ [ShutdownNext]_shutdownVars => ShutdownInv'
  <2>1. CASE ShutdownInv /\ ShutdownNext
    BY <2>1, ShutdownStep
  <2>2. CASE ShutdownInv /\ UNCHANGED shutdownVars
    BY <2>2 DEF shutdownVars, lifeVars, connVars, resourceVars, ShutdownInv, ShutdownTypeOK,
       ResourcesInv,
                ConnInv, HistoryInv, CleanExitIsClean, BusyConnectionsEnd
  <2> QED
    BY <2>1, <2>2
<1> QED
  BY <1>1, <1>2, PTL DEF ShutdownSpec

(* However requests, lost connections, the drain timer, a second signal and
   failures of the release interleave, an exit with code 0 has given everything
   back, storage is not taken from under a handler that has not answered unless
   its connection was lost, and connections that were busy when draining began
   are sent away (startServer, shutdown). *)
THEOREM ShutdownStaysSafe == ShutdownSpec => []ShutdownIsSafe
<1>1. ShutdownInv => ShutdownIsSafe
  BY DEF ShutdownInv, ShutdownIsSafe, ShutdownTypeOK, ResourcesInv, ConnInv, AnswersKeepStorage,
     Alive
<1> QED
  BY <1>1, ShutdownInvariant, PTL
-----------------------------------------------------------------------------
(* The diagnostics of the replicas.  A record of the log: *)
DiagRec == [id: Nat \ {0}, at: Nat \ {0}, of: Writers, leaks: BOOLEAN]
Block == DiagRec \cup {TornBlock, NewLine}
FileTable == [Writers -> [Places -> Seq(Block)]]

AppendJob == [op: {"rotate", "write"}, rec: DiagRec, place: Places]
ListJob == [op: {"list", "listed"}, dir: Writers, place: Places, cut: Nat, items: SUBSET DiagRec,
            begun: SUBSET DiagRec, cleared: Nat]
ClearJob == [op: {"mark", "remove"}, cut: Nat \ {0}, place: Places]
JobTable == [Writers -> AppendJob \cup ListJob \cup ClearJob \cup {NoJob}]

DiagTypes ==
  /\ files \in FileTable /\ job \in JobTable
  /\ cutoff \in Nat /\ time \in Nat \ {0} /\ failures \in Nat /\ cleared \in Nat
  /\ written \subseteq DiagRec /\ IsFiniteSet(written)

Appending(w) == job[w].op \in {"rotate", "write"}
Listing(w) == job[w].op \in {"list", "listed"}

(* Records: their numbers tell them apart, and grow with their times; one that
   waits for its turn is the newest of its replica. *)
RecordsSound ==
  /\ \A r \in written : r.id <= failures /\ r.at <= time
  /\ \A r, s \in written : /\ r.id = s.id => r = s
                           /\ r.of = s.of /\ r.id < s.id => r.at <= s.at
  /\ \A w \in Writers : Appending(w) =>
       /\ job[w].rec.of = w /\ job[w].rec.id <= failures /\ job[w].rec.at <= time
       /\ \A s \in written : s.id # job[w].rec.id /\ (s.of = w => s.id < job[w].rec.id /\ s.at <= job[w].rec.at)
       /\ \A x \in Writers : Appending(x) /\ x # w => job[x].rec.id # job[w].rec.id

NothingLeaks ==
  Redact => /\ \A r \in written : ~r.leaks
            /\ \A w \in Writers : Appending(w) => ~job[w].rec.leaks

(* Blocks: a whole one was written by its replica, behind no torn one. *)
BlocksSound ==
  \A w \in Writers, p \in Places : \A n \in DOMAIN files[w][p] :
    files[w][p][n].id > 0 => /\ files[w][p][n] \in written /\ files[w][p][n].of = w
                             /\ n > 1 => files[w][p][n - 1].id # 0

(* Lists: what one has not read yet lies ahead of it. *)
Ahead(w, d, p) == job[w].op = "list" /\ (d > job[w].dir \/ (d = job[w].dir /\ p >= job[w].place))

ListSound(w) ==
  /\ job[w].begun \subseteq written
  /\ \A r \in job[w].items : ~Hidden(r, job[w].cut)
  /\ ~crossed => job[w].cleared <= job[w].cut
  /\ \A d \in Writers, p \in Places : \A n \in DOMAIN files[d][p] :
       files[d][p][n] \in job[w].begun /\ ~Hidden(files[d][p][n], job[w].cut) =>
         files[d][p][n] \in job[w].items \/ Ahead(w, d, p)

ListsSound == \A w \in Writers : Listing(w) => ListSound(w)

(* Clears: they are one after the other, unless they crossed, and each is later
   than all its replica wrote. *)
ClearsSound ==
  /\ cutoff <= time
  /\ ~crossed => cleared <= cutoff /\ \A x, y \in Clearing : x = y
  /\ \A w \in Clearing :
       /\ job[w].cut <= time
       /\ ~crossed => cutoff <= job[w].cut /\ (job[w].op = "remove" => cutoff = job[w].cut)
       /\ \A r \in written : r.of = w => r.at <= job[w].cut

(* The place a rotation has just emptied. *)
Hole(w) == IF job[w].op = "rotate" THEN job[w].place + 1 ELSE MaxFiles

HolesAreEmpty == \A w \in Writers : Hole(w) \in Places => files[w][Hole(w)] = <<>>

Recent(r, w) == r.of = w /\ r.at > cutoff

(* The files of a replica that lost no step: whole blocks, the newest first
   place, and full behind every recent record. *)
Ordered(w) ==
  /\ \A p \in Places : \A n \in DOMAIN files[w][p] : files[w][p][n].id > 0
  /\ \A p, q \in Places : \A m \in DOMAIN files[w][p], n \in DOMAIN files[w][q] :
       p < q \/ (p = q /\ n < m) => files[w][q][n].id < files[w][p][m].id

Full(w) ==
  \A p, q \in Places : \A n \in DOMAIN files[w][p] :
    (Recent(files[w][p][n], w) /\ q < p /\ q # Hole(w) /\ (q >= 1 \/ job[w].op = "rotate"))
      => Len(files[w][q]) >= FileBlocks

Newer(r) == {s \in written : s.of = r.of /\ s.id > r.id}

OnDisk(r, w) == \E p \in Places : \E n \in DOMAIN files[w][p] : files[w][p][n] = r

Kept(w) ==
  \A r \in written : Recent(r, w) => OnDisk(r, w) \/ Cardinality(Newer(r)) >= (MaxFiles - 1) * FileBlocks

ReplicaSound(w) == Ordered(w) /\ (~crossed => Full(w) /\ Kept(w))

ReplicasSound == \A w \in Writers \ faults.at : ReplicaSound(w)

DiagInv ==
  /\ DiagTypes /\ RecordsSound /\ NothingLeaks /\ BlocksSound /\ ListsSound /\ ClearsSound
  /\ HolesAreEmpty /\ ReplicasSound

-----------------------------------------------------------------------------
LEMMA DiagPlaces ==
  /\ MaxFiles \in Nat \ {0} /\ FileBlocks \in Nat \ {0} /\ Cardinality(Writers) \in Nat
  /\ \A p \in Places : p \in Nat /\ p < MaxFiles
  /\ \A p \in Nat : p < MaxFiles => p \in Places
  /\ 0 \in Places /\ MaxFiles - 1 \in Places
  /\ \A w \in Writers : w \in Nat /\ 1 <= w /\ w <= Cardinality(Writers)
  /\ \A w \in Nat : 1 <= w /\ w <= Cardinality(Writers) => w \in Writers
<1>1. Cardinality(Writers) \in Nat
  BY DiagnosticsAssumption, FS_CardinalityType
<1>2. Writers = 1..Cardinality(Writers)
  BY DiagnosticsAssumption
<1> DEFINE n == Cardinality(Writers)
<1> HIDE DEF n
<1>3. \A w \in Writers : w \in Nat /\ 1 <= w /\ w <= n
  BY <1>1, <1>2 DEF n
<1>4. \A w \in Nat : 1 <= w /\ w <= n => w \in Writers
  BY <1>1, <1>2 DEF n
<1> QED BY <1>1, <1>3, <1>4, DiagnosticsAssumption DEF Places, n

(* Blocks, and the records among them. *)
LEMMA Blocks ==
  /\ \A b \in Block : b.id \in Int
  /\ \A b \in Block : b.id > 0 => b \in DiagRec
  /\ \A r \in DiagRec : /\ r.id \in Nat /\ r.id > 0 /\ r.at \in Nat /\ r.at > 0 /\ r.of \in Writers
                        /\ r.leaks \in BOOLEAN
  /\ TornBlock.id = 0 /\ NewLine.id = -1 /\ TornBlock \in Block /\ NewLine \in Block
  /\ DiagRec \subseteq Block
<1>1. TornBlock.id = 0 /\ NewLine.id = -1
  BY DEF TornBlock, NewLine
<1>2. \A r \in DiagRec : /\ r.id \in Nat /\ r.id > 0 /\ r.at \in Nat /\ r.at > 0 /\ r.of \in Writers
                         /\ r.leaks \in BOOLEAN
  BY DEF DiagRec
<1> QED BY <1>1, <1>2 DEF Block

(* The jobs of a replica. *)
LEMMA Jobs ==
  ASSUME job \in JobTable, NEW w \in Writers
  PROVE  /\ job[w].op \in {"rotate", "write"} => job[w] \in AppendJob
         /\ job[w].op \in {"list", "listed"} => job[w] \in ListJob
         /\ job[w].op \in {"mark", "remove"} => job[w] \in ClearJob
         /\ job[w] = NoJob => job[w].op = "idle"
         /\ job[w].op \in {"rotate", "write", "list", "listed", "mark", "remove", "idle"}
         /\ job[w].op = "idle" => job[w] = NoJob
<1>1. job[w] \in AppendJob \cup ListJob \cup ClearJob \cup {NoJob}
  BY DEF JobTable
<1>2. NoJob.op = "idle"
  BY DEF NoJob
<1> DEFINE j == job[w]
<1> HIDE DEF j
<1>3. /\ j \in AppendJob => j.op \in {"rotate", "write"}
      /\ j \in ListJob => j.op \in {"list", "listed"}
      /\ j \in ClearJob => j.op \in {"mark", "remove"}
  BY DEF AppendJob, ListJob, ClearJob
<1> QED BY <1>1, <1>2, <1>3 DEF j

(* A job replaces another. *)
LEMMA JobSet ==
  ASSUME job \in JobTable, NEW w \in Writers, NEW next, SetJob(w, next)
  PROVE  job'[w] = next /\ \A x \in Writers : x # w => job'[x] = job[x]
BY DEF SetJob, JobTable

LEMMA JobsTyped ==
  ASSUME job \in JobTable, NEW w \in Writers,
         NEW next \in AppendJob \cup ListJob \cup ClearJob \cup {NoJob}, SetJob(w, next)
  PROVE  job' \in JobTable
BY DEF SetJob, JobTable

(* A file of a replica changes. *)
LEMMA FileSet ==
  ASSUME files \in FileTable, NEW w \in Writers, NEW p \in Places, NEW f \in Seq(Block),
         files' = [files EXCEPT ![w][p] = f]
  PROVE  /\ files' \in FileTable /\ files'[w][p] = f
         /\ \A x \in Writers, q \in Places : x # w \/ q # p => files'[x][q] = files[x][q]
BY DEF FileTable

(* A block at the end of a file, and what is appended to a file. *)
Added(f, b, g) ==
  /\ g \in Seq(Block) /\ Len(g) = Len(f) + 1 /\ g[Len(f) + 1] = b
  /\ \A n \in 1..Len(f) : g[n] = f[n]
  /\ Len(f) \in Nat /\ DOMAIN f = 1..Len(f) /\ DOMAIN g = 1..(Len(f) + 1)

Appended(f, b, g) ==
  /\ g \in Seq(Block) /\ Len(g) \in Nat /\ Len(g) > Len(f) /\ g[Len(g)] = b
  /\ \A n \in DOMAIN f : n \in DOMAIN g /\ g[n] = f[n]
  /\ \A n \in DOMAIN g : n \in DOMAIN f \/ n = Len(g)
       \/ (g[n] = NewLine /\ n = Len(f) + 1 /\ f # <<>> /\ f[Len(f)].id = 0)
  /\ Len(g) > 1 => g[Len(g) - 1].id # 0
  /\ (f = <<>> \/ f[Len(f)].id # 0) => Len(g) = Len(f) + 1

LEMMA BlockAdded ==
  ASSUME NEW f \in Seq(Block), NEW b \in Block, NEW g, g = f \o <<b>>
  PROVE  Added(f, b, g)
BY DEF Added

LEMMA Appends ==
  ASSUME NEW f \in Seq(Block), NEW b \in Block, NEW g, g = f \o Prefix(f) \o <<b>>
  PROVE  Appended(f, b, g)
<1>1. CASE f # <<>> /\ f[Len(f)].id = 0
  <2>1. Prefix(f) = <<NewLine>>
    BY <1>1 DEF Prefix
  <2>2. NewLine \in Block /\ NewLine.id = -1
    BY Blocks
  <2> DEFINE h == f \o <<NewLine>>
  <2>3. g = h \o <<b>>
    BY <2>1
  <2>4. h = f \o <<NewLine>>
    OBVIOUS
  <2> HIDE DEF h
  <2>5. /\ h \in Seq(Block) /\ Len(h) = Len(f) + 1 /\ h[Len(f) + 1] = NewLine
        /\ \A n \in 1..Len(f) : h[n] = f[n]
        /\ Len(f) \in Nat /\ DOMAIN f = 1..Len(f)
    BY <2>2, <2>4, BlockAdded DEF Added
  <2>6. /\ g \in Seq(Block) /\ Len(g) = Len(h) + 1 /\ g[Len(h) + 1] = b
        /\ \A n \in 1..Len(h) : g[n] = h[n]
        /\ DOMAIN g = 1..(Len(h) + 1)
    <3>1. Added(h, b, g)
      BY <2>3, <2>5, BlockAdded
    <3> QED BY <3>1 DEF Added
  <2>7. DOMAIN g = 1..(Len(f) + 2) /\ Len(g) = Len(f) + 2
    BY <2>5, <2>6
  <2>8. /\ g[Len(f) + 2] = b /\ g[Len(f) + 1] = NewLine
        /\ \A n \in 1..Len(f) : g[n] = f[n]
    BY <2>5, <2>6
  <2>9. Len(g) - 1 = Len(f) + 1
    BY <2>5, <2>7
  <2>10. \A n \in DOMAIN g : n \in DOMAIN f \/ n = Len(g) \/ n = Len(f) + 1
    BY <2>5, <2>7
  <2>11. Len(g) > Len(f) /\ \A n \in DOMAIN f : n \in DOMAIN g
    BY <2>5, <2>7
  <2>12. Len(g) \in Nat /\ g[Len(g)] = b /\ g[Len(g) - 1].id # 0
    BY <2>2, <2>5, <2>7, <2>8, <2>9
  <2>13. ASSUME NEW n \in DOMAIN g
         PROVE  n \in DOMAIN f \/ n = Len(g) \/ (g[n] = NewLine /\ n = Len(f) + 1)
    BY <2>8, <2>10
  <2> QED BY <1>1, <2>5, <2>6, <2>8, <2>11, <2>12, <2>13 DEF Appended
<1>2. CASE ~(f # <<>> /\ f[Len(f)].id = 0)
  <2>1. Prefix(f) = <<>>
    BY <1>2 DEF Prefix
  <2>2. f \o <<>> = f
    OBVIOUS
  <2>3. g = f \o <<b>>
    BY <2>1, <2>2
  <2>5. /\ g \in Seq(Block) /\ Len(g) = Len(f) + 1 /\ g[Len(f) + 1] = b /\ \A n \in 1..Len(f) : g[n] = f[n]
        /\ Len(f) \in Nat /\ DOMAIN f = 1..Len(f) /\ DOMAIN g = 1..(Len(f) + 1)
    <3>1. Added(f, b, g)
      BY <2>3, BlockAdded
    <3> QED BY <3>1 DEF Added
  <2>6. f # <<>> => Len(f) \in 1..Len(f)
    BY <2>5
  <2>7. Len(g) > 1 => f # <<>> /\ Len(g) - 1 = Len(f) /\ g[Len(f)] = f[Len(f)]
    <3>1. f = <<>> => Len(f) = 0
      OBVIOUS
    <3> QED BY <2>5, <2>6, <3>1
  <2>8. \A n \in DOMAIN g : n \in DOMAIN f \/ n = Len(g)
    BY <2>5
  <2>9. Len(g) > Len(f) /\ \A n \in DOMAIN f : n \in DOMAIN g
    BY <2>5
  <2>10. Len(g) \in Nat /\ g[Len(g)] = b /\ \A n \in DOMAIN f : g[n] = f[n]
    BY <2>5
  <2> QED BY <1>2, <2>5, <2>7, <2>8, <2>9, <2>10 DEF Appended
<1> QED BY <1>1, <1>2

(* The records, and the secrets, when no record is added. *)
LEMMA RecordsStay ==
  ASSUME DiagTypes, DiagTypes', RecordsSound, NothingLeaks, UNCHANGED written, failures' >= failures, time' >= time,
         \A w \in Writers : Appending(w)' => Appending(w) /\ job'[w].rec = job[w].rec
  PROVE  RecordsSound' /\ NothingLeaks'
<1>1. /\ failures \in Nat /\ failures' \in Nat /\ time \in Nat /\ time' \in Nat
      /\ \A r \in DiagRec : r.id \in Nat /\ r.at \in Nat
      /\ written \subseteq DiagRec
  BY Blocks DEF DiagTypes
<1>2. \A w \in Writers : Appending(w) => job[w].rec \in DiagRec
  <2> TAKE w \in Writers
  <2>1. Appending(w) => job[w] \in AppendJob
    BY Jobs DEF DiagTypes, Appending
  <2> QED BY <2>1 DEF AppendJob
<1>3. \A r \in written' : r.id <= failures' /\ r.at <= time'
  BY <1>1 DEF RecordsSound
<1>4. \A w \in Writers : Appending(w)' => job'[w].rec.id <= failures' /\ job'[w].rec.at <= time'
  BY <1>1, <1>2 DEF RecordsSound
<1>5. \A r, s \in written' : /\ r.id = s.id => r = s
                             /\ r.of = s.of /\ r.id < s.id => r.at <= s.at
  BY DEF RecordsSound
<1>6. \A w \in Writers : Appending(w)' =>
       /\ job'[w].rec.of = w
       /\ \A s \in written' : s.id # job'[w].rec.id /\ (s.of = w => s.id < job'[w].rec.id /\ s.at <= job'[w].rec.at)
       /\ \A x \in Writers : Appending(x)' /\ x # w => job'[x].rec.id # job'[w].rec.id
  BY DEF RecordsSound
<1>7. RecordsSound'
  BY <1>3, <1>4, <1>5, <1>6 DEF RecordsSound
<1>8. NothingLeaks'
  BY DEF NothingLeaks
<1> QED BY <1>7, <1>8

(* With redaction a new record does not leak. *)
LEMMA NewRecord ==
  ASSUME DiagTypes, NEW w \in Writers, NEW bodies
  PROVE  /\ DiagRecord(w, bodies) \in DiagRec
         /\ DiagRecord(w, bodies).id = failures + 1 /\ DiagRecord(w, bodies).at = time
         /\ DiagRecord(w, bodies).of = w
         /\ Redact => ~DiagRecord(w, bodies).leaks
<1>1. \A b \in bodies : Redact => ~Leaks(b)
  BY DEF Leaks, BodyForm
<1> DEFINE l == \E b \in bodies : Leaks(b)
<1>2. l \in BOOLEAN /\ (Redact => ~l)
  BY <1>1
<1>3. DiagRecord(w, bodies) = [id |-> failures + 1, at |-> time, of |-> w, leaks |-> l]
  BY DEF DiagRecord
<1>4. failures + 1 \in Nat \ {0} /\ time \in Nat \ {0}
  BY DEF DiagTypes
<1> HIDE DEF l
<1>5. [id |-> failures + 1, at |-> time, of |-> w, leaks |-> l] \in DiagRec
  BY <1>2, <1>4 DEF DiagRec
<1> QED BY <1>2, <1>3, <1>5

LEMMA StartAppendRecords ==
  ASSUME DiagTypes, DiagTypes', RecordsSound, NothingLeaks, NEW w \in Writers, StartAppend(w)
  PROVE  RecordsSound' /\ NothingLeaks'
<1>1. PICK bodies : \E op \in {"rotate", "write"} :
        SetJob(w, [op |-> op, rec |-> DiagRecord(w, bodies), place |-> MaxFiles - 1])
  <2>1. PICK failure \in {"http", "fetch", "stream"}, request \in Bodies, response \in Bodies :
          SetJob(w, [op |-> IF Len(files[w][0]) >= FileBlocks THEN "rotate" ELSE "write",
                     rec |-> DiagRecord(w, BodiesOf(failure, request, response)),
                     place |-> MaxFiles - 1])
    BY DEF StartAppend
  <2> DEFINE bodies == BodiesOf(failure, request, response)
  <2> DEFINE op == IF Len(files[w][0]) >= FileBlocks THEN "rotate" ELSE "write"
  <2>2. SetJob(w, [op |-> op, rec |-> DiagRecord(w, bodies), place |-> MaxFiles - 1])
    BY <2>1
  <2>3. op \in {"rotate", "write"}
    OBVIOUS
  <2> HIDE DEF bodies, op
  <2> QED BY <2>2, <2>3
<1> DEFINE rec == DiagRecord(w, bodies)
<1>2. /\ rec \in DiagRec /\ rec.id = failures + 1 /\ rec.at = time /\ rec.of = w /\ (Redact => ~rec.leaks)
  BY NewRecord
<1>3. /\ job'[w].rec = rec /\ \A x \in Writers : x # w => job'[x] = job[x]
  BY <1>1, JobSet DEF DiagTypes
<1>4. /\ UNCHANGED <<written, time>> /\ failures' = failures + 1
  BY DEF StartAppend
<1> HIDE DEF rec
<1>5. /\ failures \in Nat /\ time \in Nat /\ written \subseteq DiagRec
      /\ \A r \in DiagRec : r.id \in Nat /\ r.at \in Nat
  BY Blocks DEF DiagTypes
<1>6. \A x \in Writers : Appending(x) => job[x].rec \in DiagRec
  <2> TAKE x \in Writers
  <2>1. Appending(x) => job[x] \in AppendJob
    BY Jobs DEF DiagTypes, Appending
  <2> QED BY <2>1 DEF AppendJob
<1>7. \A x \in Writers : x # w => (Appending(x)' <=> Appending(x))
  BY <1>3 DEF Appending
<1>8. \A r \in written' : r.id <= failures' /\ r.at <= time'
  BY <1>4, <1>5 DEF RecordsSound
<1>9. \A s \in written : s.id < rec.id /\ s.at <= rec.at
  BY <1>2, <1>5 DEF RecordsSound
<1>10. ASSUME NEW x \in Writers, Appending(x)'
       PROVE  /\ job'[x].rec.of = x /\ job'[x].rec.id <= failures' /\ job'[x].rec.at <= time'
              /\ \A s \in written' : s.id # job'[x].rec.id /\ (s.of = x => s.id < job'[x].rec.id /\ s.at <= job'[x].rec.at)
              /\ \A y \in Writers : Appending(y)' /\ y # x => job'[y].rec.id # job'[x].rec.id
  <2>1. ASSUME NEW y \in Writers, y # w, Appending(y)' PROVE job'[y].rec.id \in Nat /\ job'[y].rec.id < rec.id
    BY <1>2, <1>3, <1>5, <1>6, <1>7, <2>1 DEF RecordsSound
  <2>2. CASE x = w
    BY <1>2, <1>3, <1>4, <1>5, <1>9, <2>1, <2>2
  <2>3. CASE x # w
    BY <1>2, <1>3, <1>4, <1>5, <1>6, <1>7, <1>10, <2>1, <2>3 DEF RecordsSound
  <2> QED BY <2>2, <2>3
<1>11. RecordsSound'
  BY <1>4, <1>8, <1>10 DEF RecordsSound
<1>12. NothingLeaks'
  BY <1>2, <1>3, <1>4, <1>7 DEF NothingLeaks
<1> QED BY <1>11, <1>12

LEMMA WriteRecords ==
  ASSUME DiagTypes, DiagTypes', RecordsSound, NothingLeaks, NEW w \in Writers, Write(w)
  PROVE  RecordsSound' /\ NothingLeaks'
<1> DEFINE rec == job[w].rec
<1>1. /\ Appending(w) /\ written' = written \cup {rec} /\ UNCHANGED <<failures, time>>
      /\ job'[w].op = "idle" /\ \A x \in Writers : x # w => job'[x] = job[x]
  BY JobSet DEF Write, Appending, NoJob, DiagTypes
<1>2. \A x \in Writers : Appending(x)' <=> Appending(x) /\ x # w
  BY <1>1 DEF Appending
<1>3. /\ rec.of = w /\ rec.id <= failures /\ rec.at <= time
      /\ \A s \in written : s.id # rec.id /\ (s.of = w => s.id < rec.id /\ s.at <= rec.at)
      /\ \A x \in Writers : Appending(x) /\ x # w => job[x].rec.id # rec.id /\ job[x].rec.of # w
  BY <1>1 DEF RecordsSound
<1>4. rec \in DiagRec /\ written \subseteq DiagRec /\ \A r \in DiagRec : r.id \in Nat /\ r.at \in Nat
  <2>1. job[w] \in AppendJob
    BY <1>1, Jobs DEF DiagTypes, Appending
  <2> QED BY <2>1, Blocks DEF DiagTypes, AppendJob
<1> HIDE DEF rec
<1>5. \A r \in written' : r.id <= failures' /\ r.at <= time'
  BY <1>1, <1>3 DEF RecordsSound
<1>6. \A r, s \in written' : /\ r.id = s.id => r = s
                             /\ r.of = s.of /\ r.id < s.id => r.at <= s.at
  BY <1>1, <1>3, <1>4 DEF RecordsSound
<1>7. ASSUME NEW x \in Writers, Appending(x)'
      PROVE  /\ job'[x].rec.of = x /\ job'[x].rec.id <= failures' /\ job'[x].rec.at <= time'
             /\ \A s \in written' : s.id # job'[x].rec.id /\ (s.of = x => s.id < job'[x].rec.id /\ s.at <= job'[x].rec.at)
             /\ \A y \in Writers : Appending(y)' /\ y # x => job'[y].rec.id # job'[x].rec.id
  <2>1. Appending(x) /\ x # w /\ job'[x] = job[x]
    BY <1>1, <1>2, <1>7
  <2>2. /\ job[x].rec.of = x /\ job[x].rec.id <= failures /\ job[x].rec.at <= time
        /\ \A s \in written : s.id # job[x].rec.id /\ (s.of = x => s.id < job[x].rec.id /\ s.at <= job[x].rec.at)
        /\ \A y \in Writers : Appending(y) /\ y # x => job[y].rec.id # job[x].rec.id
    BY <2>1 DEF RecordsSound
  <2> QED BY <1>1, <1>2, <1>3, <2>1, <2>2
<1>8. RecordsSound'
  BY <1>5, <1>6, <1>7 DEF RecordsSound
<1>9. NothingLeaks'
  BY <1>1, <1>2 DEF NothingLeaks, rec
<1> QED BY <1>8, <1>9

-----------------------------------------------------------------------------
(* What each action does to the jobs and the files. *)
LEMMA StartAppendDoes ==
  ASSUME DiagTypes, NEW w \in Writers, StartAppend(w)
  PROVE  /\ job' \in JobTable /\ job[w].op = "idle" /\ (\A x \in Writers : x # w => job'[x] = job[x])
         /\ job'[w].op \in {"rotate", "write"} /\ job'[w].place = MaxFiles - 1
         /\ (job'[w].op = "rotate" => Len(files[w][0]) >= FileBlocks)
         /\ failures' = failures + 1
         /\ UNCHANGED <<files, cutoff, time, written, faults, cleared, crossed>>
<1>1. PICK failure \in {"http", "fetch", "stream"}, request \in Bodies, response \in Bodies :
        SetJob(w, [op |-> IF Len(files[w][0]) >= FileBlocks THEN "rotate" ELSE "write",
                   rec |-> DiagRecord(w, BodiesOf(failure, request, response)),
                   place |-> MaxFiles - 1])
  BY DEF StartAppend
<1> DEFINE op == IF Len(files[w][0]) >= FileBlocks THEN "rotate" ELSE "write"
           rec == DiagRecord(w, BodiesOf(failure, request, response))
<1>2. SetJob(w, [op |-> op, rec |-> rec, place |-> MaxFiles - 1])
  BY <1>1
<1>3. op \in {"rotate", "write"} /\ (op = "rotate" => Len(files[w][0]) >= FileBlocks)
  OBVIOUS
<1>4. rec \in DiagRec
  BY NewRecord
<1> HIDE DEF op, rec
<1>5. [op |-> op, rec |-> rec, place |-> MaxFiles - 1] \in AppendJob
  BY <1>3, <1>4, DiagPlaces DEF AppendJob
<1>6. job' \in JobTable
  BY <1>2, <1>5, JobsTyped DEF DiagTypes
<1>7. /\ job'[w] = [op |-> op, rec |-> rec, place |-> MaxFiles - 1]
      /\ \A x \in Writers : x # w => job'[x] = job[x]
  BY <1>2, JobSet DEF DiagTypes
<1> QED BY <1>3, <1>6, <1>7 DEF StartAppend

(* One move of a rotation. *)
LEMMA RotateDoes ==
  ASSUME DiagTypes, HolesAreEmpty, NEW w \in Writers, Rotate(w)
  PROVE  /\ job' \in JobTable /\ job[w].op = "rotate" /\ (\A x \in Writers : x # w => job'[x] = job[x])
         /\ job[w].place \in Places /\ job'[w].rec = job[w].rec
         /\ IF job[w].place = 0 THEN job'[w].op = "write"
            ELSE job'[w].op = "rotate" /\ job'[w].place = job[w].place - 1
         /\ files' \in FileTable /\ (\A x \in Writers : x # w => files'[x] = files[x])
         /\ files'[w][job[w].place] = <<>>
         /\ (job[w].place + 1 \in Places => files'[w][job[w].place + 1] = files[w][job[w].place])
         /\ (\A q \in Places : q # job[w].place /\ q # job[w].place + 1 => files'[w][q] = files[w][q])
         /\ UNCHANGED <<cutoff, time, failures, written, faults, cleared, crossed>>
<1>1. job[w].op = "rotate" /\ job[w] \in AppendJob
  BY Jobs DEF DiagTypes, Rotate
<1> DEFINE p == job[w].place
           old == files[w]
<1>2. p \in Places
  BY <1>1 DEF AppendJob
<1>3. old \in [Places -> Seq(Block)]
  BY DEF DiagTypes, FileTable
<1>4. p + 1 \in Places => old[p + 1] = <<>>
  BY <1>1 DEF HolesAreEmpty, Hole
<1>5. p \in Nat /\ (p + 1 \in Places <=> p # MaxFiles - 1) /\ <<>> \in Seq(Block)
  BY <1>2, DiagPlaces
<1>6. /\ files' = [files EXCEPT ![w] =
            IF job[w].place = MaxFiles - 1 THEN [@ EXCEPT ![job[w].place] = <<>>]
            ELSE IF files[w][job[w].place] = <<>> THEN @
            ELSE [@ EXCEPT ![job[w].place + 1] = files[w][job[w].place], ![job[w].place] = <<>>]]
      /\ files \in [Writers -> [Places -> Seq(Block)]]
  BY Zenon DEF Rotate, DiagTypes, FileTable
<1>7. /\ files' \in FileTable /\ \A x \in Writers : x # w => files'[x] = files[x]
      /\ files'[w][p] = <<>> /\ (p + 1 \in Places => files'[w][p + 1] = old[p])
      /\ \A q \in Places : q # p /\ q # p + 1 => files'[w][q] = old[q]
  <2>1. CASE p = MaxFiles - 1
    BY <1>2, <1>5, <1>6, <2>1 DEF FileTable
  <2>2. CASE p # MaxFiles - 1 /\ files[w][p] = <<>>
    <3>1. files' = [files EXCEPT ![w] = files[w]]
      BY <1>6, <2>2, Zenon
    <3>2. files' = files
      BY <1>6, <3>1
    <3> QED BY <1>2, <1>4, <1>5, <2>2, <3>2 DEF DiagTypes
  <2>3. CASE p # MaxFiles - 1 /\ files[w][p] # <<>>
    <3>1. files' = [files EXCEPT ![w] = [files[w] EXCEPT ![p + 1] = files[w][p], ![p] = <<>>]]
      BY <1>6, <2>3, Zenon
    <3>2. files[w][p] \in Seq(Block) /\ p + 1 \in Places /\ p + 1 # p
      BY <1>2, <1>5, <1>6, <2>3
    <3>3. files' = [files EXCEPT ![w] = files'[w]] /\ files'[w] = [files[w] EXCEPT ![p + 1] = files[w][p], ![p] = <<>>]
      BY <1>6, <3>1
    <3> HIDE DEF p
    <3>4. /\ files'[w] \in [Places -> Seq(Block)] /\ files'[w][p] = <<>> /\ files'[w][p + 1] = files[w][p]
          /\ \A q \in Places : q # p /\ q # p + 1 => files'[w][q] = files[w][q]
      <4> DEFINE f == files[w]
                 v == files[w][p]
                 g == files'[w]
                 n == p + 1
      <4>1. g = [f EXCEPT ![n] = v, ![p] = <<>>]
        BY <3>3
      <4>2. f \in [Places -> Seq(Block)] /\ p \in Places /\ n \in Places /\ n # p /\ v \in Seq(Block)
        BY <1>2, <1>6, <3>2
      <4> HIDE DEF f, v, g, n
      <4>3. /\ g \in [Places -> Seq(Block)] /\ g[p] = <<>> /\ g[n] = v
            /\ \A q \in Places : q # p /\ q # n => g[q] = f[q]
        BY <1>5, <4>1, <4>2
      <4> QED BY <4>3 DEF f, v, g, n
    <3> QED BY <1>5, <1>6, <3>3, <3>4 DEF FileTable
  <2> QED BY <2>1, <2>2, <2>3
<1> DEFINE next == IF p = 0 THEN [job[w] EXCEPT !.op = "write"] ELSE [job[w] EXCEPT !.place = @ - 1]
<1>8. SetJob(w, next)
  BY DEF Rotate
<1>9. /\ next \in AppendJob /\ next.rec = job[w].rec
      /\ IF p = 0 THEN next.op = "write" ELSE next.op = "rotate" /\ next.place = p - 1
  <2> DEFINE j == job[w]
  <2>1. j \in AppendJob /\ j.op = "rotate" /\ (p # 0 => j.place - 1 \in Places)
    BY <1>1, <1>2, DiagPlaces
  <2> HIDE DEF j
  <2>2. /\ [j EXCEPT !.op = "write"] \in AppendJob /\ [j EXCEPT !.op = "write"].op = "write"
        /\ [j EXCEPT !.op = "write"].rec = j.rec
    BY <2>1 DEF AppendJob
  <2>3. p # 0 => /\ [j EXCEPT !.place = @ - 1] \in AppendJob /\ [j EXCEPT !.place = @ - 1].op = "rotate"
                 /\ [j EXCEPT !.place = @ - 1].rec = j.rec /\ [j EXCEPT !.place = @ - 1].place = j.place - 1
    BY <2>1 DEF AppendJob
  <2> QED BY <2>2, <2>3 DEF j
<1> HIDE DEF next
<1>10. /\ job' \in JobTable /\ job'[w] = next /\ \A x \in Writers : x # w => job'[x] = job[x]
  BY <1>8, <1>9, JobSet, JobsTyped DEF DiagTypes
<1>11. UNCHANGED <<cutoff, time, failures, written, faults, cleared, crossed>>
  BY DEF Rotate
<1> QED BY <1>1, <1>2, <1>7, <1>9, <1>10, <1>11

LEMMA WriteDoes ==
  ASSUME DiagTypes, NEW w \in Writers, Write(w)
  PROVE  /\ job' \in JobTable /\ job[w].op = "write" /\ (\A x \in Writers : x # w => job'[x] = job[x])
         /\ job'[w].op = "idle" /\ job[w].rec \in DiagRec
         /\ files' \in FileTable /\ (\A x \in Writers, q \in Places : x # w \/ q # 0 => files'[x][q] = files[x][q])
         /\ files'[w][0] = files[w][0] \o Prefix(files[w][0]) \o <<job[w].rec>>
         /\ written' = written \cup {job[w].rec}
         /\ UNCHANGED <<cutoff, time, failures, faults, cleared, crossed>>
<1>1. job[w].op = "write" /\ job[w] \in AppendJob
  BY Jobs DEF DiagTypes, Write
<1>2. job[w].rec \in DiagRec
  BY <1>1 DEF AppendJob
<1> DEFINE b == job[w].rec
           g == files[w][0] \o Prefix(files[w][0]) \o <<b>>
<1>3. g \in Seq(Block)
  <2>1. files[w][0] \in Seq(Block) /\ b \in Block
    BY <1>2, Blocks, DiagPlaces DEF DiagTypes, FileTable
  <2> DEFINE f == files[w][0]
  <2>2. f \in Seq(Block) /\ g = f \o Prefix(f) \o <<b>>
    BY <2>1
  <2> HIDE DEF b, f, g
  <2>3. Appended(f, b, g)
    BY <2>1, <2>2, Appends
  <2> QED BY <2>3 DEF Appended
<1>4. files' = [files EXCEPT ![w][0] = g]
  BY DEF Write
<1> HIDE DEF g
<1>5. /\ files' \in FileTable /\ files'[w][0] = g
      /\ \A x \in Writers, q \in Places : x # w \/ q # 0 => files'[x][q] = files[x][q]
  <2>1. 0 \in Places /\ files \in FileTable
    BY DiagPlaces DEF DiagTypes
  <2> QED BY <1>3, <1>4, <2>1 DEF FileTable
<1>6. /\ job' \in JobTable /\ job'[w] = NoJob /\ \A x \in Writers : x # w => job'[x] = job[x]
  <2>1. SetJob(w, NoJob) /\ job \in JobTable
    BY DEF DiagTypes, Write
  <2> QED BY <2>1, JobSet, JobsTyped
<1>7. NoJob.op = "idle"
  BY DEF NoJob
<1>8. written' = written \cup {job[w].rec} /\ UNCHANGED <<cutoff, time, failures, faults, cleared, crossed>>
  BY DEF Write
<1> QED BY <1>1, <1>2, <1>5, <1>6, <1>7, <1>8 DEF g

LEMMA DiesDoes ==
  ASSUME DiagTypes, NEW w \in Writers, DiagDies(w)
  PROVE  /\ job' \in JobTable /\ job[w].op \in {"rotate", "write", "mark", "remove"}
         /\ (\A x \in Writers : x # w => job'[x] = job[x])
         /\ job'[w].op = "idle"
         /\ faults'.at = (IF job[w].op \in {"rotate", "write"} THEN faults.at \cup {w} ELSE faults.at)
         /\ \/ UNCHANGED files
            \/ /\ job[w].op = "write"
               /\ files' \in FileTable /\ (\A x \in Writers, q \in Places : x # w \/ q # 0 => files'[x][q] = files[x][q])
               /\ files'[w][0] = files[w][0] \o Prefix(files[w][0]) \o <<TornBlock>>
         /\ UNCHANGED <<cutoff, time, failures, written, cleared, crossed>>
<1> DEFINE g == files[w][0] \o Prefix(files[w][0]) \o <<TornBlock>>
<1>1. g \in Seq(Block)
  <2>1. files[w][0] \in Seq(Block) /\ TornBlock \in Block
    BY Blocks, DiagPlaces DEF DiagTypes, FileTable
  <2> DEFINE f == files[w][0]
  <2>2. f \in Seq(Block) /\ g = f \o Prefix(f) \o <<TornBlock>>
    BY <2>1
  <2> HIDE DEF f, g
  <2>3. Appended(f, TornBlock, g)
    BY <2>1, <2>2, Appends
  <2> QED BY <2>3 DEF Appended
<1>2. UNCHANGED files \/ (job[w].op = "write" /\ files' = [files EXCEPT ![w][0] = g])
  BY DEF DiagDies
<1> HIDE DEF g
<1>3. files' = [files EXCEPT ![w][0] = g] =>
      /\ files' \in FileTable /\ files'[w][0] = g
      /\ \A x \in Writers, q \in Places : x # w \/ q # 0 => files'[x][q] = files[x][q]
  <2>1. 0 \in Places /\ files \in FileTable
    BY DiagPlaces DEF DiagTypes
  <2> QED BY <1>1, <2>1 DEF FileTable
<1>4. /\ job' \in JobTable /\ job'[w] = NoJob /\ \A x \in Writers : x # w => job'[x] = job[x]
  <2>1. SetJob(w, NoJob) /\ job \in JobTable
    BY DEF DiagTypes, DiagDies
  <2> QED BY <2>1, JobSet, JobsTyped
<1>5. faults'.at = (IF job[w].op \in {"rotate", "write"} THEN faults.at \cup {w} ELSE faults.at)
  BY DEF DiagDies
<1>6. NoJob.op = "idle"
  BY DEF NoJob
<1>7. /\ job[w].op \in {"rotate", "write", "mark", "remove"}
      /\ UNCHANGED <<cutoff, time, failures, written, cleared, crossed>>
  BY DEF DiagDies
<1> QED BY <1>2, <1>3, <1>4, <1>5, <1>6, <1>7 DEF g

LEMMA KeptRecords ==
  ASSUME DiagTypes, BlocksSound
  PROVE  AllKept \subseteq written
<1>1. ASSUME NEW w \in Writers, NEW p \in Places, NEW r \in Parsed(files[w][p]) PROVE r \in written
  <2>1. PICK n \in DOMAIN files[w][p] : r = files[w][p][n] /\ files[w][p][n].id > 0
    BY DEF Parsed
  <2> QED BY <2>1 DEF BlocksSound
<1> QED BY <1>1 DEF AllKept, KeptFiles

LEMMA StartListDoes ==
  ASSUME DiagTypes, BlocksSound, NEW w \in Writers, StartList(w)
  PROVE  /\ job' \in JobTable /\ job[w].op = "idle" /\ (\A x \in Writers : x # w => job'[x] = job[x])
         /\ job'[w].op = "list" /\ job'[w].dir = 1 /\ job'[w].place = 0 /\ job'[w].cut = cutoff
         /\ job'[w].items = {} /\ job'[w].begun \subseteq written /\ job'[w].cleared = cleared
         /\ UNCHANGED <<files, cutoff, time, failures, written, faults, cleared, crossed>>
<1> DEFINE next == [op |-> "list", dir |-> 1, place |-> 0, cut |-> cutoff, items |-> {},
                    begun |-> AllKept, cleared |-> cleared]
<1>1. AllKept \subseteq written /\ written \subseteq DiagRec /\ cutoff \in Nat /\ cleared \in Nat
  BY KeptRecords DEF DiagTypes
<1>2. 0 \in Places /\ 1 \in Writers
  BY DiagPlaces
<1>3. next \in ListJob
  BY <1>1, <1>2 DEF ListJob
<1>4. SetJob(w, next) /\ job \in JobTable
  BY DEF StartList, DiagTypes
<1>5. /\ next.op = "list" /\ next.dir = 1 /\ next.place = 0 /\ next.cut = cutoff
      /\ next.items = {} /\ next.begun \subseteq written /\ next.cleared = cleared
  BY <1>1
<1> HIDE DEF next
<1>6. /\ job' \in JobTable /\ job'[w] = next /\ \A x \in Writers : x # w => job'[x] = job[x]
  BY <1>3, <1>4, JobSet, JobsTyped
<1> QED BY <1>5, <1>6 DEF StartList

LEMMA ListFileDoes ==
  ASSUME DiagTypes, NEW w \in Writers, ListFile(w)
  PROVE  /\ job' \in JobTable /\ job[w].op = "list" /\ (\A x \in Writers : x # w => job'[x] = job[x])
         /\ job[w] \in ListJob
         /\ job'[w].items = job[w].items
              \cup {r \in Parsed(files[job[w].dir][job[w].place]) : ~Hidden(r, job[w].cut)}
         /\ job'[w].begun = job[w].begun /\ job'[w].cut = job[w].cut /\ job'[w].cleared = job[w].cleared
         /\ IF job[w].place < MaxFiles - 1
            THEN job'[w].op = "list" /\ job'[w].dir = job[w].dir /\ job'[w].place = job[w].place + 1
            ELSE IF job[w].dir < Cardinality(Writers)
                 THEN job'[w].op = "list" /\ job'[w].dir = job[w].dir + 1 /\ job'[w].place = 0
                 ELSE job'[w].op = "listed"
         /\ UNCHANGED <<files, cutoff, time, failures, written, faults, cleared, crossed>>
<1> DEFINE j == job[w]
           seen == j.items \cup {r \in Parsed(files[j.dir][j.place]) : ~Hidden(r, j.cut)}
           next == IF j.place < MaxFiles - 1
                   THEN [j EXCEPT !.items = seen, !.place = @ + 1]
                   ELSE IF j.dir < Cardinality(Writers)
                        THEN [j EXCEPT !.items = seen, !.place = 0, !.dir = @ + 1]
                        ELSE [j EXCEPT !.items = seen, !.op = "listed"]
<1>1. j.op = "list" /\ j \in ListJob
  BY Jobs DEF DiagTypes, ListFile
<1>2. SetJob(w, next) /\ job \in JobTable
  BY DEF ListFile, PlaceAt, DiagTypes
<1>3. seen \subseteq DiagRec
  <2>1. j.dir \in Writers /\ j.place \in Places /\ j.items \subseteq DiagRec
    BY <1>1 DEF ListJob
  <2>2. files[j.dir][j.place] \in Seq(Block)
    BY <2>1 DEF DiagTypes, FileTable
  <2> DEFINE f == files[j.dir][j.place]
  <2> HIDE DEF f
  <2>3. ASSUME f \in Seq(Block), NEW r \in Parsed(f) PROVE r \in DiagRec
    <3>1. PICK n \in DOMAIN f : r = f[n] /\ f[n].id > 0
      BY DEF Parsed
    <3>2. f[n] \in Block
      BY <2>3
    <3> QED BY <3>1, <3>2, Blocks
  <2> QED BY <2>1, <2>2, <2>3 DEF f
<1>4. /\ next \in ListJob /\ next.items = seen /\ next.begun = j.begun /\ next.cut = j.cut /\ next.cleared = j.cleared
      /\ IF j.place < MaxFiles - 1
         THEN next.op = "list" /\ next.dir = j.dir /\ next.place = j.place + 1
         ELSE IF j.dir < Cardinality(Writers)
              THEN next.op = "list" /\ next.dir = j.dir + 1 /\ next.place = 0
              ELSE next.op = "listed"
  <2>1. j.dir \in Writers /\ j.place \in Places
    BY <1>1 DEF ListJob
  <2>2. /\ j.place < MaxFiles - 1 => j.place + 1 \in Places
        /\ j.dir < Cardinality(Writers) => j.dir + 1 \in Writers
        /\ 0 \in Places
    BY <2>1, DiagPlaces
  <2> HIDE DEF j, seen
  <2>3. CASE j.place < MaxFiles - 1
    <3>1. next = [j EXCEPT !.items = seen, !.place = j.place + 1]
      BY <2>3
    <3> HIDE DEF next
    <3> QED BY <1>1, <1>3, <2>2, <2>3, <3>1 DEF ListJob
  <2>4. CASE ~(j.place < MaxFiles - 1) /\ j.dir < Cardinality(Writers)
    <3>1. next = [j EXCEPT !.items = seen, !.place = 0, !.dir = j.dir + 1]
      BY <2>4
    <3> HIDE DEF next
    <3> QED BY <1>1, <1>3, <2>2, <2>4, <3>1 DEF ListJob
  <2>5. CASE ~(j.place < MaxFiles - 1) /\ ~(j.dir < Cardinality(Writers))
    <3>1. next = [j EXCEPT !.items = seen, !.op = "listed"]
      BY <2>5
    <3> HIDE DEF next
    <3> QED BY <1>1, <1>3, <2>2, <2>5, <3>1 DEF ListJob
  <2> QED BY <2>3, <2>4, <2>5
<1> HIDE DEF next
<1>5. /\ job' \in JobTable /\ job'[w] = next /\ \A x \in Writers : x # w => job'[x] = job[x]
  BY <1>2, <1>4, JobSet, JobsTyped
<1>6. UNCHANGED <<files, cutoff, time, failures, written, faults, cleared, crossed>>
  BY DEF ListFile
<1> QED BY <1>1, <1>4, <1>5, <1>6

LEMMA ListedDoes ==
  ASSUME DiagTypes, NEW w \in Writers, Listed(w)
  PROVE  /\ job' \in JobTable /\ job[w].op = "listed" /\ (\A x \in Writers : x # w => job'[x] = job[x])
         /\ job'[w].op = "idle"
         /\ UNCHANGED <<files, cutoff, time, failures, written, faults, cleared, crossed>>
<1>1. SetJob(w, NoJob) /\ job \in JobTable
  BY DEF Listed, DiagTypes
<1>2. /\ job' \in JobTable /\ job'[w] = NoJob /\ \A x \in Writers : x # w => job'[x] = job[x]
  BY <1>1, JobSet, JobsTyped
<1> QED BY <1>2 DEF Listed, NoJob

LEMMA StartClearDoes ==
  ASSUME DiagTypes, NEW w \in Writers, StartClear(w)
  PROVE  /\ job' \in JobTable /\ job[w].op = "idle" /\ (\A x \in Writers : x # w => job'[x] = job[x])
         /\ job'[w].op = "mark" /\ job'[w].cut = time /\ job'[w].place = 0
         /\ crossed' = (crossed \/ Clearing # {})
         /\ UNCHANGED <<files, cutoff, time, failures, written, faults, cleared>>
<1> DEFINE next == [op |-> "mark", cut |-> time, place |-> 0]
<1>1. next \in ClearJob
  BY DiagPlaces DEF ClearJob, DiagTypes
<1>2. SetJob(w, next) /\ job \in JobTable
  BY DEF StartClear, DiagTypes
<1>3. next.op = "mark" /\ next.cut = time /\ next.place = 0
  OBVIOUS
<1> HIDE DEF next
<1>4. /\ job' \in JobTable /\ job'[w] = next /\ \A x \in Writers : x # w => job'[x] = job[x]
  BY <1>1, <1>2, JobSet, JobsTyped
<1> QED BY <1>3, <1>4 DEF StartClear

LEMMA MarkClearedDoes ==
  ASSUME DiagTypes, NEW w \in Writers, MarkCleared(w)
  PROVE  /\ job' \in JobTable /\ job[w].op = "mark" /\ (\A x \in Writers : x # w => job'[x] = job[x])
         /\ job[w].cut \in Nat
         /\ job'[w].op = "remove" /\ job'[w].cut = job[w].cut
         /\ cutoff' = job[w].cut
         /\ UNCHANGED <<files, time, failures, written, faults, cleared, crossed>>
<1> DEFINE j == job[w]
           next == [j EXCEPT !.op = "remove"]
<1>1. j.op = "mark" /\ j \in ClearJob
  BY Jobs DEF MarkCleared, DiagTypes
<1>2. SetJob(w, next) /\ job \in JobTable
  BY DEF MarkCleared, DiagTypes
<1>3. next \in ClearJob /\ next.op = "remove" /\ next.cut = j.cut /\ j.cut \in Nat
  <2> HIDE DEF j
  <2> QED BY <1>1 DEF ClearJob
<1> HIDE DEF next
<1>4. /\ job' \in JobTable /\ job'[w] = next /\ \A x \in Writers : x # w => job'[x] = job[x]
  BY <1>2, <1>3, JobSet, JobsTyped
<1> QED BY <1>1, <1>3, <1>4 DEF MarkCleared

LEMMA LatestOf ==
  ASSUME NEW a \in Nat, NEW b \in Nat
  PROVE  Max({a, b}) \in {a, b} /\ Max({a, b}) >= a /\ Max({a, b}) >= b
BY DEF Max

LEMMA RemoveFileDoes ==
  ASSUME DiagTypes, NEW w \in Writers, RemoveFile(w)
  PROVE  /\ job' \in JobTable /\ job[w].op = "remove" /\ (\A x \in Writers : x # w => job'[x] = job[x])
         /\ job[w].cut \in Nat
         /\ \/ job'[w].op = "remove" /\ job'[w].cut = job[w].cut /\ UNCHANGED cleared
            \/ job'[w].op = "idle" /\ cleared' \in {cleared, job[w].cut}
         /\ files' \in FileTable /\ job[w].place \in Places /\ files'[w][job[w].place] = <<>>
         /\ (\A x \in Writers, q \in Places : x # w \/ q # job[w].place => files'[x][q] = files[x][q])
         /\ UNCHANGED <<cutoff, time, failures, written, faults, crossed>>
<1> DEFINE j == job[w]
<1>1. j.op = "remove" /\ j \in ClearJob
  BY Jobs DEF RemoveFile, DiagTypes
<1>2. j.cut \in Nat /\ j.place \in Places
  BY <1>1 DEF ClearJob
<1>3. /\ files' \in FileTable /\ files'[w][j.place] = <<>>
      /\ \A x \in Writers, q \in Places : x # w \/ q # j.place => files'[x][q] = files[x][q]
  <2>1. files' = [files EXCEPT ![w][j.place] = <<>>] /\ <<>> \in Seq(Block)
    BY DEF RemoveFile
  <2>2. files \in FileTable
    BY DEF DiagTypes
  <2> HIDE DEF j
  <2> QED BY <1>2, <2>1, <2>2 DEF FileTable
<1>4. CASE j.place < MaxFiles - 1
  <2> DEFINE next == [j EXCEPT !.place = @ + 1]
  <2>1. SetJob(w, next) /\ job \in JobTable /\ UNCHANGED cleared
    BY <1>4 DEF RemoveFile, DiagTypes
  <2>2. next \in ClearJob /\ next.op = "remove" /\ next.cut = j.cut
    <3>1. j.place + 1 \in Places
      BY <1>2, <1>4, DiagPlaces
    <3> HIDE DEF j
    <3> QED BY <1>1, <3>1 DEF ClearJob
  <2> HIDE DEF next
  <2>3. /\ job' \in JobTable /\ job'[w] = next /\ \A x \in Writers : x # w => job'[x] = job[x]
    BY <2>1, <2>2, JobSet, JobsTyped
  <2> QED BY <1>1, <1>2, <1>3, <2>1, <2>2, <2>3 DEF RemoveFile
<1>5. CASE ~(j.place < MaxFiles - 1)
  <2>1. SetJob(w, NoJob) /\ job \in JobTable /\ cleared' = Max({cleared, j.cut}) /\ cleared \in Nat
    BY <1>5 DEF RemoveFile, DiagTypes
  <2>2. cleared' \in {cleared, j.cut}
    BY <1>2, <2>1, LatestOf
  <2>3. /\ job' \in JobTable /\ job'[w] = NoJob /\ \A x \in Writers : x # w => job'[x] = job[x]
    BY <2>1, JobSet, JobsTyped
  <2>4. NoJob.op = "idle"
    BY DEF NoJob
  <2> QED BY <1>1, <1>2, <1>3, <2>2, <2>3, <2>4 DEF RemoveFile
<1> QED BY <1>4, <1>5

-----------------------------------------------------------------------------
LEMMA DiagTypesStep ==
  ASSUME DiagInv, [DiagNext]_diagVars
  PROVE  DiagTypes'
<1> USE DEF DiagInv
<1>1. CASE UNCHANGED diagVars
  BY <1>1 DEF DiagTypes, diagVars
<1>2. CASE DiagTick
  <2>1. time' \in Nat \ {0}
    BY <1>2 DEF DiagTick, DiagTypes
  <2> QED BY <1>2, <2>1 DEF DiagTick, DiagTypes
<1>3. ASSUME NEW w \in Writers, StartAppend(w) PROVE DiagTypes'
  <2>1. failures' \in Nat
    BY <1>3, StartAppendDoes DEF DiagTypes
  <2> QED BY <1>3, <2>1, StartAppendDoes DEF DiagTypes
<1>4. ASSUME NEW w \in Writers, Rotate(w) PROVE DiagTypes'
  BY <1>4, RotateDoes DEF DiagTypes
<1>5. ASSUME NEW w \in Writers, Write(w) PROVE DiagTypes'
  <2>1. written' = written \cup {job[w].rec} /\ job[w].rec \in DiagRec
    BY <1>5, WriteDoes
  <2>2. IsFiniteSet(written') /\ written' \subseteq DiagRec
    BY <2>1, FS_AddElement DEF DiagTypes
  <2> QED BY <1>5, <2>2, WriteDoes DEF DiagTypes
<1>6. ASSUME NEW w \in Writers, DiagDies(w) PROVE DiagTypes'
  BY <1>6, DiesDoes DEF DiagTypes
<1>7. ASSUME NEW w \in Writers, StartList(w) PROVE DiagTypes'
  BY <1>7, StartListDoes DEF DiagTypes
<1>8. ASSUME NEW w \in Writers, ListFile(w) PROVE DiagTypes'
  BY <1>8, ListFileDoes DEF DiagTypes
<1>9. ASSUME NEW w \in Writers, Listed(w) PROVE DiagTypes'
  BY <1>9, ListedDoes DEF DiagTypes
<1>10. ASSUME NEW w \in Writers, StartClear(w) PROVE DiagTypes'
  BY <1>10, StartClearDoes DEF DiagTypes
<1>11. ASSUME NEW w \in Writers, MarkCleared(w) PROVE DiagTypes'
  BY <1>11, MarkClearedDoes DEF DiagTypes
<1>12. ASSUME NEW w \in Writers, RemoveFile(w) PROVE DiagTypes'
  BY <1>12, RemoveFileDoes DEF DiagTypes
<1> QED BY <1>1, <1>2, <1>3, <1>4, <1>5, <1>6, <1>7, <1>8, <1>9, <1>10, <1>11, <1>12 DEF DiagNext

LEMMA DiagRecordsStep ==
  ASSUME DiagInv, [DiagNext]_diagVars, DiagTypes'
  PROVE  RecordsSound' /\ NothingLeaks'
<1> SUFFICES ASSUME DiagTypes, RecordsSound, NothingLeaks, HolesAreEmpty, BlocksSound
             PROVE  RecordsSound' /\ NothingLeaks'
  BY DEF DiagInv
<1>1. failures \in Nat /\ time \in Nat /\ failures >= failures /\ time >= time
  BY DEF DiagTypes
<1>2. CASE UNCHANGED diagVars
  BY <1>1, <1>2, RecordsStay DEF diagVars, Appending
<1>3. CASE DiagTick
  <2>1. UNCHANGED <<written, failures, job>> /\ time' >= time /\ failures' >= failures
    BY <1>1, <1>3 DEF DiagTick
  <2> QED BY <2>1, RecordsStay DEF Appending
<1>4. ASSUME NEW w \in Writers, StartAppend(w) PROVE RecordsSound' /\ NothingLeaks'
  BY <1>4, StartAppendRecords
<1>5. ASSUME NEW w \in Writers, Write(w) PROVE RecordsSound' /\ NothingLeaks'
  BY <1>5, WriteRecords
<1>6. ASSUME NEW w \in Writers, Rotate(w) PROVE RecordsSound' /\ NothingLeaks'
  <2>1. UNCHANGED <<written, failures, time>> /\ time' >= time /\ failures' >= failures
    BY <1>1, <1>6, RotateDoes
  <2>2. \A x \in Writers : Appending(x)' => Appending(x) /\ job'[x].rec = job[x].rec
    BY <1>6, RotateDoes DEF Appending
  <2> QED BY <2>1, <2>2, RecordsStay
<1>7. ASSUME NEW w \in Writers, UNCHANGED <<written, failures, time>>, job'[w].op \notin {"rotate", "write"},
             \A x \in Writers : x # w => job'[x] = job[x]
      PROVE  RecordsSound' /\ NothingLeaks'
  <2>1. time' >= time /\ failures' >= failures
    BY <1>1, <1>7
  <2>2. \A x \in Writers : Appending(x)' => Appending(x) /\ job'[x].rec = job[x].rec
    BY <1>7 DEF Appending
  <2> QED BY <1>7, <2>1, <2>2, RecordsStay
<1>8. ASSUME NEW w \in Writers, DiagDies(w) PROVE RecordsSound' /\ NothingLeaks'
  BY <1>7, <1>8, DiesDoes
<1>9. ASSUME NEW w \in Writers, StartList(w) PROVE RecordsSound' /\ NothingLeaks'
  BY <1>7, <1>9, StartListDoes
<1>10. ASSUME NEW w \in Writers, ListFile(w) PROVE RecordsSound' /\ NothingLeaks'
  BY <1>7, <1>10, ListFileDoes
<1>11. ASSUME NEW w \in Writers, Listed(w) PROVE RecordsSound' /\ NothingLeaks'
  BY <1>7, <1>11, ListedDoes
<1>12. ASSUME NEW w \in Writers, StartClear(w) PROVE RecordsSound' /\ NothingLeaks'
  BY <1>7, <1>12, StartClearDoes
<1>13. ASSUME NEW w \in Writers, MarkCleared(w) PROVE RecordsSound' /\ NothingLeaks'
  BY <1>7, <1>13, MarkClearedDoes
<1>14. ASSUME NEW w \in Writers, RemoveFile(w) PROVE RecordsSound' /\ NothingLeaks'
  BY <1>7, <1>14, RemoveFileDoes
<1> QED
  BY <1>2, <1>3, <1>4, <1>5, <1>6, <1>8, <1>9, <1>10, <1>11, <1>12, <1>13, <1>14 DEF DiagNext

-----------------------------------------------------------------------------
LEMMA BlocksMove ==
  ASSUME DiagTypes, BlocksSound, written \subseteq written',
         \A x \in Writers, q \in Places :
           files'[x][q] = <<>> \/ \E p \in Places : files'[x][q] = files[x][p]
  PROVE  BlocksSound'
<1> SUFFICES ASSUME NEW x \in Writers, NEW q \in Places, NEW n \in DOMAIN files'[x][q], files'[x][q][n].id > 0
             PROVE  /\ files'[x][q][n] \in written' /\ files'[x][q][n].of = x
                    /\ n > 1 => files'[x][q][n - 1].id # 0
  BY DEF BlocksSound
<1>1. DOMAIN <<>> = {}
  OBVIOUS
<1>2. PICK p \in Places : files'[x][q] = files[x][p]
  BY <1>1
<1> QED BY <1>2 DEF BlocksSound

(* A block at the end of a replica's active file. *)
LEMMA BlocksGrow ==
  ASSUME DiagTypes, BlocksSound, written \subseteq written', NEW w \in Writers, NEW b \in Block,
         b.id > 0 => b \in written' /\ b.of = w,
         \A x \in Writers, q \in Places : x # w \/ q # 0 => files'[x][q] = files[x][q],
         files'[w][0] = files[w][0] \o Prefix(files[w][0]) \o <<b>>
  PROVE  BlocksSound'
<1> SUFFICES ASSUME NEW x \in Writers, NEW q \in Places, NEW n \in DOMAIN files'[x][q], files'[x][q][n].id > 0
             PROVE  /\ files'[x][q][n] \in written' /\ files'[x][q][n].of = x
                    /\ n > 1 => files'[x][q][n - 1].id # 0
  BY DEF BlocksSound
<1>1. CASE x # w \/ q # 0
  BY <1>1 DEF BlocksSound
<1>2. CASE x = w /\ q = 0
  <2> DEFINE f == files[w][0]
             g == files'[w][0]
  <2>1. f \in Seq(Block) /\ g = f \o Prefix(f) \o <<b>>
    BY DiagPlaces DEF DiagTypes, FileTable
  <2>2. /\ g \in Seq(Block) /\ Len(g) \in Nat /\ Len(g) > Len(f) /\ g[Len(g)] = b
        /\ \A m \in DOMAIN f : m \in DOMAIN g /\ g[m] = f[m]
        /\ \A m \in DOMAIN g : m \in DOMAIN f \/ m = Len(g) \/ g[m] = NewLine
        /\ Len(g) > 1 => g[Len(g) - 1].id # 0
    <3> HIDE DEF f, g
    <3>1. Appended(f, b, g)
      BY <2>1, Appends
    <3> QED BY <3>1 DEF Appended
  <2>3. n \in DOMAIN g /\ g[n].id > 0
    BY <1>2
  <2>4. \A m \in DOMAIN f : f[m].id > 0 => f[m] \in written' /\ f[m].of = w /\ (m > 1 => f[m - 1].id # 0)
    BY DiagPlaces DEF BlocksSound
  <2> HIDE DEF f, g
  <2>5. DOMAIN f = 1..Len(f) /\ DOMAIN g = 1..Len(g) /\ Len(f) \in Nat
    BY <2>1, <2>2
  <2>6. g[n] # NewLine
    BY <2>3, Blocks
  <2>7. CASE n \in DOMAIN f
    <3>1. n > 1 => n - 1 \in DOMAIN f
      BY <2>5, <2>7
    <3> QED BY <1>2, <2>2, <2>3, <2>4, <2>7, <3>1 DEF g
  <2>8. CASE n = Len(g)
    BY <1>2, <2>2, <2>3, <2>8 DEF g
  <2> QED BY <2>2, <2>3, <2>6, <2>7, <2>8
<1> QED BY <1>1, <1>2

LEMMA DiagBlocksStep ==
  ASSUME DiagInv, [DiagNext]_diagVars, DiagTypes'
  PROVE  BlocksSound'
<1> SUFFICES ASSUME DiagTypes, BlocksSound, HolesAreEmpty, RecordsSound PROVE BlocksSound'
  BY DEF DiagInv
<1>1. ASSUME UNCHANGED <<files, written>> PROVE BlocksSound'
  BY <1>1, BlocksMove
<1>2. CASE UNCHANGED diagVars
  BY <1>1, <1>2 DEF diagVars
<1>3. CASE DiagTick
  BY <1>1, <1>3 DEF DiagTick
<1>4. ASSUME NEW w \in Writers, StartAppend(w) PROVE BlocksSound'
  BY <1>1, <1>4, StartAppendDoes
<1>5. ASSUME NEW w \in Writers, Rotate(w) PROVE BlocksSound'
  <2> SUFFICES ASSUME NEW x \in Writers, NEW q \in Places
               PROVE  files'[x][q] = <<>> \/ \E p \in Places : files'[x][q] = files[x][p]
    BY <1>5, RotateDoes, BlocksMove
  <2> DEFINE p == job[w].place
  <2>1. /\ p \in Places /\ (x # w => files'[x] = files[x]) /\ files'[w][p] = <<>>
        /\ (p + 1 \in Places => files'[w][p + 1] = files[w][p])
        /\ (q # p /\ q # p + 1 => files'[w][q] = files[w][q])
    BY <1>5, RotateDoes
  <2> HIDE DEF p
  <2> QED BY <2>1
<1>6. ASSUME NEW w \in Writers, Write(w) PROVE BlocksSound'
  <2> DEFINE b == job[w].rec
  <2>1. /\ b \in DiagRec /\ job[w].op = "write" /\ written' = written \cup {b}
        /\ files'[w][0] = files[w][0] \o Prefix(files[w][0]) \o <<b>>
        /\ \A x \in Writers, q \in Places : x # w \/ q # 0 => files'[x][q] = files[x][q]
    BY <1>6, WriteDoes
  <2>2. b.of = w /\ b \in Block
    BY <2>1, Blocks DEF RecordsSound, Appending
  <2> HIDE DEF b
  <2> QED BY <2>1, <2>2, BlocksGrow
<1>7. ASSUME NEW w \in Writers, DiagDies(w) PROVE BlocksSound'
  <2>1. CASE UNCHANGED files
    BY <1>1, <1>7, <2>1, DiesDoes
  <2>2. CASE ~UNCHANGED files
    <3>1. /\ UNCHANGED written
          /\ files'[w][0] = files[w][0] \o Prefix(files[w][0]) \o <<TornBlock>>
          /\ \A x \in Writers, q \in Places : x # w \/ q # 0 => files'[x][q] = files[x][q]
      BY <1>7, <2>2, DiesDoes
    <3>2. TornBlock \in Block /\ ~(TornBlock.id > 0) /\ written \subseteq written'
      BY <3>1, Blocks
    <3> QED BY <3>1, <3>2, BlocksGrow
  <2> QED BY <2>1, <2>2
<1>8. ASSUME NEW w \in Writers, StartList(w) PROVE BlocksSound'
  BY <1>1, <1>8, StartListDoes
<1>9. ASSUME NEW w \in Writers, ListFile(w) PROVE BlocksSound'
  BY <1>1, <1>9, ListFileDoes
<1>10. ASSUME NEW w \in Writers, Listed(w) PROVE BlocksSound'
  BY <1>1, <1>10, ListedDoes
<1>11. ASSUME NEW w \in Writers, StartClear(w) PROVE BlocksSound'
  BY <1>1, <1>11, StartClearDoes
<1>12. ASSUME NEW w \in Writers, MarkCleared(w) PROVE BlocksSound'
  BY <1>1, <1>12, MarkClearedDoes
<1>13. ASSUME NEW w \in Writers, RemoveFile(w) PROVE BlocksSound'
  <2>1. \A x \in Writers, q \in Places : files'[x][q] = <<>> \/ files'[x][q] = files[x][q]
    BY <1>13, RemoveFileDoes
  <2>2. UNCHANGED written
    BY <1>13, RemoveFileDoes
  <2> QED BY <2>1, <2>2, BlocksMove
<1> QED
  BY <1>2, <1>3, <1>4, <1>5, <1>6, <1>7, <1>8, <1>9, <1>10, <1>11, <1>12, <1>13 DEF DiagNext

-----------------------------------------------------------------------------
(* A step moves records towards the older files only. *)
BlocksForward ==
  \A d \in Writers, p \in Places : \A n \in DOMAIN files'[d][p] : files'[d][p][n] \in written =>
    \E q \in Places : q <= p /\ \E m \in DOMAIN files[d][q] : files[d][q][m] = files'[d][p][n]

LEMMA FilesForward ==
  ASSUME DiagTypes,
         \A x \in Writers, p \in Places : files'[x][p] = <<>> \/ \E q \in Places : q <= p /\ files'[x][p] = files[x][q]
  PROVE  BlocksForward
<1> SUFFICES ASSUME NEW d \in Writers, NEW p \in Places, NEW n \in DOMAIN files'[d][p]
             PROVE  \E q \in Places : q <= p /\ \E m \in DOMAIN files[d][q] : files[d][q][m] = files'[d][p][n]
  BY DEF BlocksForward
<1>1. DOMAIN <<>> = {}
  OBVIOUS
<1>2. PICK q \in Places : q <= p /\ files'[d][p] = files[d][q]
  BY <1>1
<1> QED BY <1>2

LEMMA BlockForward ==
  ASSUME DiagTypes, NEW w \in Writers, NEW b \in Block, b \notin written,
         \A x \in Writers, q \in Places : x # w \/ q # 0 => files'[x][q] = files[x][q],
         files'[w][0] = files[w][0] \o Prefix(files[w][0]) \o <<b>>
  PROVE  BlocksForward
<1> SUFFICES ASSUME NEW d \in Writers, NEW p \in Places, NEW n \in DOMAIN files'[d][p], files'[d][p][n] \in written
             PROVE  \E m \in DOMAIN files[d][p] : files[d][p][m] = files'[d][p][n]
  <2>1. \A p \in Places : p <= p
    BY DiagPlaces
  <2> QED BY <2>1 DEF BlocksForward
<1>1. CASE d # w \/ p # 0
  BY <1>1
<1>2. CASE d = w /\ p = 0
  <2> DEFINE f == files[w][0]
             g == files'[w][0]
  <2>1. f \in Seq(Block) /\ g = f \o Prefix(f) \o <<b>>
    BY DiagPlaces DEF DiagTypes, FileTable
  <2>2. n \in DOMAIN g /\ g[n] \in written
    BY <1>2
  <2>3. NewLine \notin written
    BY Blocks DEF DiagTypes
  <2> HIDE DEF f, g
  <2>4. Appended(f, b, g)
    BY <2>1, Appends
  <2>5. n \in DOMAIN f /\ g[n] = f[n]
    BY <2>2, <2>3, <2>4 DEF Appended
  <2> QED BY <1>2, <2>5 DEF f, g
<1> QED BY <1>1, <1>2

LEMMA ListStays ==
  ASSUME DiagTypes, BlocksForward, NEW x \in Writers, job'[x] = job[x], Listing(x), ListSound(x),
         written \subseteq written', ~crossed' => ~crossed
  PROVE  ListSound(x)'
<1>1. job[x] \in ListJob
  BY Jobs DEF DiagTypes, Listing
<1>2. job[x].dir \in Nat /\ job[x].place \in Nat
  BY <1>1, DiagPlaces DEF ListJob
<1>3. ASSUME NEW d \in Writers, NEW p \in Places, NEW n \in DOMAIN files'[d][p],
             files'[d][p][n] \in job[x].begun, ~Hidden(files'[d][p][n], job[x].cut)
      PROVE  files'[d][p][n] \in job[x].items \/ Ahead(x, d, p)
  <2>1. files'[d][p][n] \in written
    BY <1>3 DEF ListSound
  <2>2. PICK q \in Places : q <= p /\ \E m \in DOMAIN files[d][q] : files[d][q][m] = files'[d][p][n]
    BY <2>1 DEF BlocksForward
  <2>3. files'[d][p][n] \in job[x].items \/ Ahead(x, d, q)
    BY <1>3, <2>2 DEF ListSound
  <2>4. Ahead(x, d, q) => Ahead(x, d, p)
    <3>1. p \in Nat /\ q \in Nat /\ d \in Nat
      BY DiagPlaces
    <3> QED BY <1>2, <2>2, <3>1 DEF Ahead
  <2> QED BY <2>3, <2>4
<1>4. \A d \in Writers, p \in Places : Ahead(x, d, p)' <=> Ahead(x, d, p)
  BY DEF Ahead
<1>5. /\ job'[x].begun \subseteq written'
      /\ \A r \in job'[x].items : ~Hidden(r, job'[x].cut)
      /\ ~crossed' => job'[x].cleared <= job'[x].cut
  BY DEF ListSound
<1>6. \A d \in Writers, p \in Places : \A n \in DOMAIN files'[d][p] :
        files'[d][p][n] \in job'[x].begun /\ ~Hidden(files'[d][p][n], job'[x].cut) =>
          files'[d][p][n] \in job'[x].items \/ Ahead(x, d, p)'
  BY <1>3, <1>4
<1> QED BY <1>5, <1>6 DEF ListSound

LEMMA ListBegins ==
  ASSUME DiagTypes, BlocksSound, ClearsSound, NEW w \in Writers, StartList(w)
  PROVE  ListSound(w)'
<1>1. /\ job'[w].op = "list" /\ job'[w].dir = 1 /\ job'[w].place = 0 /\ job'[w].cut = cutoff
      /\ job'[w].items = {} /\ job'[w].begun \subseteq written /\ job'[w].cleared = cleared
      /\ UNCHANGED <<files, written, crossed>>
  BY StartListDoes
<1>2. ~crossed => cleared <= cutoff
  BY DEF ClearsSound
<1>3. \A d \in Writers, p \in Places : Ahead(w, d, p)'
  <2> TAKE d \in Writers, p \in Places
  <2>1. d \in Nat /\ 1 <= d /\ p \in Nat
    BY DiagPlaces
  <2> QED BY <1>1, <2>1 DEF Ahead
<1> QED BY <1>1, <1>2, <1>3 DEF ListSound

(* A list reads the whole blocks of a file: all its records. *)
LEMMA ListReads ==
  ASSUME DiagTypes, BlocksSound, NEW w \in Writers, Listing(w), ListSound(w), ListFile(w)
  PROVE  ListSound(w)'
<1> DEFINE j == job[w]
           read == {r \in Parsed(files[j.dir][j.place]) : ~Hidden(r, j.cut)}
<1>1. /\ j.op = "list" /\ j \in ListJob /\ job'[w].items = j.items \cup read
      /\ job'[w].begun = j.begun /\ job'[w].cut = j.cut /\ job'[w].cleared = j.cleared
      /\ UNCHANGED <<files, written, crossed>>
  BY ListFileDoes
<1>2. IF j.place < MaxFiles - 1
      THEN job'[w].op = "list" /\ job'[w].dir = j.dir /\ job'[w].place = j.place + 1
      ELSE IF j.dir < Cardinality(Writers)
           THEN job'[w].op = "list" /\ job'[w].dir = j.dir + 1 /\ job'[w].place = 0
           ELSE job'[w].op = "listed"
  BY ListFileDoes
<1>3. j.dir \in Writers /\ j.place \in Places
  BY <1>1 DEF ListJob
<1>4. ASSUME NEW d \in Writers, NEW p \in Places, Ahead(w, d, p), ~Ahead(w, d, p)'
      PROVE  d = j.dir /\ p = j.place
  <2>1. /\ d \in Nat /\ p \in Nat /\ j.dir \in Nat /\ j.place \in Nat /\ MaxFiles \in Nat /\ Cardinality(Writers) \in Nat
        /\ p < MaxFiles /\ j.place < MaxFiles /\ d <= Cardinality(Writers) /\ j.dir <= Cardinality(Writers)
    BY <1>3, DiagPlaces
  <2>2. d > j.dir \/ (d = j.dir /\ p >= j.place)
    BY <1>4 DEF Ahead
  <2> HIDE DEF j
  <2>3. CASE j.place < MaxFiles - 1
    <3>1. job'[w].op = "list" /\ job'[w].dir = j.dir /\ job'[w].place = j.place + 1
      BY <1>2, <2>3
    <3>2. ~(d > j.dir \/ (d = j.dir /\ p >= j.place + 1))
      BY <1>4, <3>1 DEF Ahead
    <3> QED BY <2>1, <2>2, <3>2
  <2>4. CASE ~(j.place < MaxFiles - 1) /\ j.dir < Cardinality(Writers)
    <3>1. job'[w].op = "list" /\ job'[w].dir = j.dir + 1 /\ job'[w].place = 0
      BY <1>2, <2>4
    <3>2. ~(d > j.dir + 1 \/ (d = j.dir + 1 /\ p >= 0))
      BY <1>4, <3>1 DEF Ahead
    <3> QED BY <2>1, <2>2, <2>4, <3>2
  <2>5. CASE ~(j.place < MaxFiles - 1) /\ ~(j.dir < Cardinality(Writers))
    BY <2>1, <2>2, <2>5
  <2> QED BY <2>3, <2>4, <2>5
<1>5. ASSUME NEW d \in Writers, NEW p \in Places, NEW n \in DOMAIN files[d][p],
             files[d][p][n] \in j.begun, ~Hidden(files[d][p][n], j.cut)
      PROVE  files[d][p][n] \in j.items \cup read \/ Ahead(w, d, p)'
  <2>1. files[d][p][n] \in j.items \/ Ahead(w, d, p)
    BY <1>5 DEF ListSound
  <2>2. CASE d = j.dir /\ p = j.place
    <3>1. files[d][p][n].id > 0
      <4>1. files[d][p][n] \in DiagRec
        BY <1>5 DEF ListSound, DiagTypes
      <4> QED BY <4>1, Blocks
    <3>2. n > 1 => files[d][p][n - 1].id # 0
      BY <3>1 DEF BlocksSound
    <3>3. files[d][p][n] \in Parsed(files[d][p])
      BY <3>1, <3>2 DEF Parsed
    <3> QED BY <1>5, <2>2, <3>3
  <2>3. CASE ~(d = j.dir /\ p = j.place)
    BY <1>4, <2>1, <2>3
  <2> QED BY <2>2, <2>3
<1>6. \A r \in job'[w].items : ~Hidden(r, job'[w].cut)
  BY <1>1 DEF ListSound
<1>7. job'[w].begun \subseteq written' /\ (~crossed' => job'[w].cleared <= job'[w].cut)
  BY <1>1 DEF ListSound
<1>8. \A d \in Writers, p \in Places : \A n \in DOMAIN files'[d][p] :
        files'[d][p][n] \in job'[w].begun /\ ~Hidden(files'[d][p][n], job'[w].cut) =>
          files'[d][p][n] \in job'[w].items \/ Ahead(w, d, p)'
  BY <1>1, <1>5
<1> QED BY <1>6, <1>7, <1>8 DEF ListSound

(* The lists at a step of a replica that does not list. *)
LEMMA OtherLists ==
  ASSUME DiagTypes, ListsSound, BlocksForward, NEW w \in Writers,
         \A x \in Writers : x # w => job'[x] = job[x],
         Listing(w)' => ListSound(w)',
         written \subseteq written', ~crossed' => ~crossed
  PROVE  ListsSound'
<1> SUFFICES ASSUME NEW x \in Writers, Listing(x)', x # w PROVE ListSound(x)'
  BY DEF ListsSound
<1>1. Listing(x) /\ ListSound(x) /\ job'[x] = job[x]
  BY DEF Listing, ListsSound
<1> QED BY <1>1, ListStays

LEMMA DiagListsStep ==
  ASSUME DiagInv, [DiagNext]_diagVars, DiagTypes'
  PROVE  ListsSound'
<1> SUFFICES ASSUME DiagTypes, BlocksSound, HolesAreEmpty, RecordsSound, ListsSound, ClearsSound PROVE ListsSound'
  BY DEF DiagInv
<1>1. \A p \in Places : p <= p /\ p <= p + 1
  BY DiagPlaces
<1>2. UNCHANGED files => BlocksForward
  BY <1>1, FilesForward
<1>3. ASSUME UNCHANGED <<files, job, written, crossed>> PROVE ListsSound'
  <2> SUFFICES ASSUME NEW x \in Writers, Listing(x)' PROVE ListSound(x)'
    BY DEF ListsSound
  <2>1. Listing(x) /\ ListSound(x) /\ job'[x] = job[x]
    BY <1>3 DEF Listing, ListsSound
  <2> QED BY <1>2, <1>3, <2>1, ListStays
<1>4. CASE UNCHANGED diagVars
  BY <1>3, <1>4 DEF diagVars
<1>5. CASE DiagTick
  BY <1>3, <1>5 DEF DiagTick
<1>6. ASSUME NEW w \in Writers, UNCHANGED <<files, written>>, ~crossed' => ~crossed,
             \A x \in Writers : x # w => job'[x] = job[x], job'[w].op \notin {"list", "listed"}
      PROVE  ListsSound'
  <2>1. ~Listing(w)'
    BY <1>6 DEF Listing
  <2> QED BY <1>2, <1>6, <2>1, OtherLists
<1>7. ASSUME NEW w \in Writers, StartAppend(w) PROVE ListsSound'
  BY <1>6, <1>7, StartAppendDoes
<1>8. ASSUME NEW w \in Writers, Rotate(w) PROVE ListsSound'
  <2>1. BlocksForward
    <3> DEFINE p == job[w].place
    <3>1. /\ p \in Places /\ (\A x \in Writers : x # w => files'[x] = files[x]) /\ files'[w][p] = <<>>
          /\ (p + 1 \in Places => files'[w][p + 1] = files[w][p])
          /\ (\A q \in Places : q # p /\ q # p + 1 => files'[w][q] = files[w][q])
      BY <1>8, RotateDoes
    <3> HIDE DEF p
    <3>2. ASSUME NEW x \in Writers, NEW n \in Places
          PROVE  files'[x][n] = <<>> \/ \E q \in Places : q <= n /\ files'[x][n] = files[x][q]
      BY <1>1, <3>1
    <3> QED BY <3>2, FilesForward
  <2>2. ~Listing(w)' /\ (\A x \in Writers : x # w => job'[x] = job[x]) /\ UNCHANGED <<written, crossed>>
    BY <1>8, RotateDoes DEF Listing
  <2> QED BY <2>1, <2>2, OtherLists
<1>9. ASSUME NEW w \in Writers, Write(w) PROVE ListsSound'
  <2> DEFINE b == job[w].rec
  <2>1. /\ b \in DiagRec /\ job[w].op = "write" /\ written' = written \cup {b}
        /\ files'[w][0] = files[w][0] \o Prefix(files[w][0]) \o <<b>>
        /\ \A x \in Writers, q \in Places : x # w \/ q # 0 => files'[x][q] = files[x][q]
        /\ job'[w].op = "idle" /\ (\A x \in Writers : x # w => job'[x] = job[x]) /\ UNCHANGED crossed
    BY <1>9, WriteDoes
  <2>2. b \in Block /\ b \notin written
    BY <2>1, Blocks DEF RecordsSound, Appending
  <2> HIDE DEF b
  <2>3. BlocksForward
    BY <2>1, <2>2, BlockForward
  <2>4. ~Listing(w)' /\ written \subseteq written'
    BY <2>1 DEF Listing
  <2> QED BY <2>1, <2>3, <2>4, OtherLists
<1>10. ASSUME NEW w \in Writers, DiagDies(w) PROVE ListsSound'
  <2>1. /\ job'[w].op = "idle" /\ (\A x \in Writers : x # w => job'[x] = job[x]) /\ UNCHANGED <<written, crossed>>
    BY <1>10, DiesDoes
  <2>2. CASE UNCHANGED files
    BY <1>6, <2>1, <2>2
  <2>3. CASE ~UNCHANGED files
    <3>1. /\ files'[w][0] = files[w][0] \o Prefix(files[w][0]) \o <<TornBlock>>
          /\ \A x \in Writers, q \in Places : x # w \/ q # 0 => files'[x][q] = files[x][q]
      BY <1>10, <2>3, DiesDoes
    <3>2. TornBlock \in Block /\ TornBlock \notin written
      BY Blocks DEF DiagTypes
    <3>3. BlocksForward
      BY <3>1, <3>2, BlockForward
    <3>4. ~Listing(w)'
      BY <2>1 DEF Listing
    <3> QED BY <2>1, <3>3, <3>4, OtherLists
  <2> QED BY <2>2, <2>3
<1>11. ASSUME NEW w \in Writers, StartList(w) PROVE ListsSound'
  <2>1. ListSound(w)'
    BY <1>11, ListBegins
  <2>2. (\A x \in Writers : x # w => job'[x] = job[x]) /\ UNCHANGED <<files, written, crossed>>
    BY <1>11, StartListDoes
  <2> QED BY <1>2, <2>1, <2>2, OtherLists
<1>12. ASSUME NEW w \in Writers, ListFile(w) PROVE ListsSound'
  <2>1. (\A x \in Writers : x # w => job'[x] = job[x]) /\ UNCHANGED <<files, written, crossed>> /\ job[w].op = "list"
    BY <1>12, ListFileDoes
  <2>2. Listing(w) /\ ListSound(w)
    BY <2>1 DEF Listing, ListsSound
  <2>3. ListSound(w)'
    BY <1>12, <2>2, ListReads
  <2> QED BY <1>2, <2>1, <2>3, OtherLists
<1>13. ASSUME NEW w \in Writers, Listed(w) PROVE ListsSound'
  BY <1>6, <1>13, ListedDoes
<1>14. ASSUME NEW w \in Writers, StartClear(w) PROVE ListsSound'
  BY <1>6, <1>14, StartClearDoes
<1>15. ASSUME NEW w \in Writers, MarkCleared(w) PROVE ListsSound'
  BY <1>6, <1>15, MarkClearedDoes
<1>16. ASSUME NEW w \in Writers, RemoveFile(w) PROVE ListsSound'
  <2>1. \A x \in Writers, q \in Places : files'[x][q] = <<>> \/ files'[x][q] = files[x][q]
    BY <1>16, RemoveFileDoes
  <2>2. BlocksForward
    BY <1>1, <2>1, FilesForward
  <2>3. ~Listing(w)' /\ (\A x \in Writers : x # w => job'[x] = job[x]) /\ UNCHANGED <<written, crossed>>
    BY <1>16, RemoveFileDoes DEF Listing
  <2> QED BY <2>2, <2>3, OtherLists
<1> QED
  BY <1>4, <1>5, <1>7, <1>8, <1>9, <1>10, <1>11, <1>12, <1>13, <1>14, <1>15, <1>16 DEF DiagNext

-----------------------------------------------------------------------------
(* The clears at a step that begins and ends none and writes nothing. *)
LEMMA ClearsStay ==
  ASSUME DiagTypes, ClearsSound, time' \in Nat, time' >= time, UNCHANGED <<cutoff, cleared, crossed, written>>,
         \A x \in Clearing' : x \in Clearing /\ job'[x].cut = job[x].cut /\ job'[x].op = job[x].op
  PROVE  ClearsSound'
<1>1. cutoff' <= time' /\ (\A x \in Clearing' : job'[x].cut <= time')
  <2>1. \A x \in Clearing : job[x].cut \in Nat
    <3> TAKE x \in Clearing
    <3>1. x \in Writers /\ job[x] \in ClearJob
      BY Jobs DEF DiagTypes, Clearing
    <3> QED BY <3>1 DEF ClearJob
  <2> QED BY <2>1 DEF DiagTypes, ClearsSound
<1>2. ~crossed' => cleared' <= cutoff' /\ \A x, y \in Clearing' : x = y
  BY DEF ClearsSound
<1>3. \A w \in Clearing' :
        /\ ~crossed' => cutoff' <= job'[w].cut /\ (job'[w].op = "remove" => cutoff' = job'[w].cut)
        /\ \A r \in written' : r.of = w => r.at <= job'[w].cut
  BY DEF ClearsSound
<1> QED BY <1>1, <1>2, <1>3 DEF ClearsSound

LEMMA ClearingSet ==
  Clearing' = {w \in Writers : job'[w].op \in {"mark", "remove"}}
BY DEF Clearing

LEMMA DiagClearsStep ==
  ASSUME DiagInv, [DiagNext]_diagVars, DiagTypes'
  PROVE  ClearsSound'
<1> SUFFICES ASSUME DiagTypes, BlocksSound, HolesAreEmpty, RecordsSound, ClearsSound PROVE ClearsSound'
  BY DEF DiagInv
<1>1. /\ time \in Nat /\ time' \in Nat /\ cutoff \in Nat /\ cleared \in Nat
      /\ \A x \in Clearing : x \in Writers /\ job[x].op \in {"mark", "remove"} /\ job[x].cut \in Nat
      /\ written \subseteq DiagRec /\ \A r \in DiagRec : r.at \in Nat
  <2>1. ASSUME NEW x \in Clearing PROVE x \in Writers /\ job[x].op \in {"mark", "remove"} /\ job[x].cut \in Nat
    <3>1. x \in Writers /\ job[x].op \in {"mark", "remove"} /\ job[x] \in ClearJob
      BY Jobs DEF DiagTypes, Clearing
    <3> QED BY <3>1 DEF ClearJob
  <2> QED BY <2>1, Blocks DEF DiagTypes
<1>2. ASSUME UNCHANGED <<cutoff, cleared, crossed, written, job>>, time' >= time PROVE ClearsSound'
  BY <1>1, <1>2, ClearsStay, ClearingSet DEF Clearing
<1>3. CASE UNCHANGED diagVars
  BY <1>1, <1>2, <1>3 DEF diagVars
<1>4. CASE DiagTick
  BY <1>1, <1>2, <1>4 DEF DiagTick
<1>5. ASSUME NEW w \in Writers, UNCHANGED <<cutoff, cleared, crossed, written, time>>,
             \A x \in Writers : x # w => job'[x] = job[x], job'[w].op \notin {"mark", "remove"}
      PROVE  ClearsSound'
  <2>1. \A x \in Clearing' : x \in Clearing /\ job'[x] = job[x]
    BY <1>5, ClearingSet DEF Clearing
  <2> QED BY <1>1, <1>5, <2>1, ClearsStay
<1>6. ASSUME NEW w \in Writers, StartAppend(w) PROVE ClearsSound'
  BY <1>5, <1>6, StartAppendDoes
<1>7. ASSUME NEW w \in Writers, Rotate(w) PROVE ClearsSound'
  <2>1. job'[w].op \notin {"mark", "remove"}
    BY <1>7, RotateDoes
  <2> QED BY <1>5, <1>7, <2>1, RotateDoes
<1>8. ASSUME NEW w \in Writers, Write(w) PROVE ClearsSound'
  <2> DEFINE b == job[w].rec
  <2>1. /\ job[w].op = "write" /\ written' = written \cup {b} /\ job'[w].op = "idle"
        /\ \A x \in Writers : x # w => job'[x] = job[x]
        /\ UNCHANGED <<cutoff, time, cleared, crossed>>
    BY <1>8, WriteDoes
  <2>2. b.of = w
    BY <2>1 DEF RecordsSound, Appending
  <2> HIDE DEF b
  <2>3. \A x \in Clearing' : x \in Clearing /\ job'[x] = job[x] /\ x # w
    BY <2>1, ClearingSet DEF Clearing
  <2>4. \A x \in Clearing' : \A r \in written' : r.of = x => r.at <= job'[x].cut
    BY <2>1, <2>2, <2>3 DEF ClearsSound
  <2>5. \A x \in Clearing' :
          /\ job'[x].cut <= time'
          /\ ~crossed' => cutoff' <= job'[x].cut /\ (job'[x].op = "remove" => cutoff' = job'[x].cut)
    BY <2>1, <2>3 DEF ClearsSound
  <2>6. cutoff' <= time' /\ (~crossed' => cleared' <= cutoff' /\ \A x, y \in Clearing' : x = y)
    BY <2>1, <2>3 DEF ClearsSound
  <2> QED BY <2>4, <2>5, <2>6 DEF ClearsSound
<1>9. ASSUME NEW w \in Writers, DiagDies(w) PROVE ClearsSound'
  BY <1>5, <1>9, DiesDoes
<1>10. ASSUME NEW w \in Writers, StartList(w) PROVE ClearsSound'
  BY <1>5, <1>10, StartListDoes
<1>11. ASSUME NEW w \in Writers, ListFile(w) PROVE ClearsSound'
  <2>1. job'[w].op \notin {"mark", "remove"}
    BY <1>11, ListFileDoes
  <2> QED BY <1>5, <1>11, <2>1, ListFileDoes
<1>12. ASSUME NEW w \in Writers, Listed(w) PROVE ClearsSound'
  BY <1>5, <1>12, ListedDoes
<1>13. ASSUME NEW w \in Writers, StartClear(w) PROVE ClearsSound'
  <2>1. /\ job[w].op = "idle" /\ (\A x \in Writers : x # w => job'[x] = job[x])
        /\ job'[w].op = "mark" /\ job'[w].cut = time
        /\ crossed' = (crossed \/ Clearing # {})
        /\ UNCHANGED <<cutoff, time, written, cleared>>
    BY <1>13, StartClearDoes
  <2>2. \A x \in Clearing' : x = w \/ (x \in Clearing /\ job'[x] = job[x])
    BY <2>1, ClearingSet DEF Clearing
  <2>3. ~crossed' => ~crossed /\ Clearing = {}
    BY <2>1
  <2>4. \A r \in written : r.at <= time
    BY DEF RecordsSound
  <2>5. \A x \in Clearing' :
          /\ job'[x].cut <= time'
          /\ ~crossed' => cutoff' <= job'[x].cut /\ (job'[x].op = "remove" => cutoff' = job'[x].cut)
          /\ \A r \in written' : r.of = x => r.at <= job'[x].cut
    <3> SUFFICES ASSUME NEW x \in Clearing'
                 PROVE /\ job'[x].cut <= time'
                       /\ ~crossed' => cutoff' <= job'[x].cut /\ (job'[x].op = "remove" => cutoff' = job'[x].cut)
                       /\ \A r \in written' : r.of = x => r.at <= job'[x].cut
      OBVIOUS
    <3>1. CASE x = w
      BY <1>1, <2>1, <2>4, <3>1 DEF ClearsSound
    <3>2. CASE x # w
      BY <2>1, <2>2, <2>3, <3>2 DEF ClearsSound
    <3> QED BY <3>1, <3>2
  <2>6. cutoff' <= time' /\ (~crossed' => cleared' <= cutoff' /\ \A x, y \in Clearing' : x = y)
    BY <2>1, <2>2, <2>3 DEF ClearsSound
  <2> QED BY <2>5, <2>6 DEF ClearsSound
<1>14. ASSUME NEW w \in Writers, MarkCleared(w) PROVE ClearsSound'
  <2>1. /\ job[w].op = "mark" /\ (\A x \in Writers : x # w => job'[x] = job[x]) /\ job[w].cut \in Nat
        /\ job'[w].op = "remove" /\ job'[w].cut = job[w].cut /\ cutoff' = job[w].cut
        /\ UNCHANGED <<time, written, cleared, crossed>>
    BY <1>14, MarkClearedDoes
  <2>2. w \in Clearing /\ Clearing' = Clearing
    BY <2>1, ClearingSet DEF Clearing
  <2>3. \A x \in Clearing : job'[x].cut = job[x].cut /\ (~crossed => x = w)
    BY <1>1, <2>1, <2>2 DEF ClearsSound
  <2>4. \A x \in Clearing' :
          /\ job'[x].cut <= time'
          /\ ~crossed' => cutoff' <= job'[x].cut /\ (job'[x].op = "remove" => cutoff' = job'[x].cut)
          /\ \A r \in written' : r.of = x => r.at <= job'[x].cut
    <3> SUFFICES ASSUME NEW x \in Clearing'
                 PROVE /\ job'[x].cut <= time'
                       /\ ~crossed' => cutoff' <= job'[x].cut /\ (job'[x].op = "remove" => cutoff' = job'[x].cut)
                       /\ \A r \in written' : r.of = x => r.at <= job'[x].cut
      OBVIOUS
    <3>1. x \in Clearing /\ job'[x].cut = job[x].cut /\ (~crossed => x = w)
      BY <2>2, <2>3
    <3>2. job'[x].cut <= time' /\ \A r \in written' : r.of = x => r.at <= job'[x].cut
      BY <2>1, <3>1 DEF ClearsSound
    <3>3. ~crossed' => cutoff' <= job'[x].cut /\ (job'[x].op = "remove" => cutoff' = job'[x].cut)
      BY <2>1, <3>1
    <3> QED BY <3>2, <3>3
  <2>5. cutoff' <= time'
    BY <2>1, <2>2 DEF ClearsSound
  <2>6. ~crossed' => cleared' <= cutoff' /\ \A x, y \in Clearing' : x = y
    <3>1. ~crossed => cleared <= cutoff /\ cutoff <= job[w].cut
      BY <2>2 DEF ClearsSound
    <3>2. ~crossed => cleared <= job[w].cut
      BY <1>1, <2>1, <3>1
    <3> QED BY <2>1, <2>2, <3>2 DEF ClearsSound
  <2> QED BY <2>4, <2>5, <2>6 DEF ClearsSound
<1>15. ASSUME NEW w \in Writers, RemoveFile(w) PROVE ClearsSound'
  <2>1. /\ job[w].op = "remove" /\ (\A x \in Writers : x # w => job'[x] = job[x]) /\ job[w].cut \in Nat
        /\ \/ job'[w].op = "remove" /\ job'[w].cut = job[w].cut /\ UNCHANGED cleared
           \/ job'[w].op = "idle" /\ cleared' \in {cleared, job[w].cut}
        /\ UNCHANGED <<cutoff, time, written, crossed>>
    BY <1>15, RemoveFileDoes
  <2>2. w \in Clearing
    BY <2>1 DEF Clearing
  <2>3. \A x \in Clearing' : x \in Clearing /\ job'[x].cut = job[x].cut /\ job'[x].op = job[x].op
    BY <2>1, ClearingSet DEF Clearing
  <2>4. CASE UNCHANGED cleared
    BY <1>1, <2>1, <2>3, <2>4, ClearsStay
  <2>5. CASE cleared' = job[w].cut
    <3>1. ~crossed => cutoff = job[w].cut
      BY <2>1, <2>2 DEF ClearsSound
    <3>2. cutoff' <= time' /\ (~crossed' => cleared' <= cutoff' /\ \A x, y \in Clearing' : x = y)
      BY <1>1, <2>1, <2>3, <2>5, <3>1 DEF ClearsSound
    <3>3. \A x \in Clearing' :
          /\ job'[x].cut <= time'
          /\ ~crossed' => cutoff' <= job'[x].cut /\ (job'[x].op = "remove" => cutoff' = job'[x].cut)
          /\ \A r \in written' : r.of = x => r.at <= job'[x].cut
      BY <2>1, <2>3 DEF ClearsSound
    <3> QED BY <3>2, <3>3 DEF ClearsSound
  <2> QED BY <2>1, <2>4, <2>5
<1> QED
  BY <1>3, <1>4, <1>6, <1>7, <1>8, <1>9, <1>10, <1>11, <1>12, <1>13, <1>14, <1>15 DEF DiagNext

LEMMA DiagHolesStep ==
  ASSUME DiagInv, [DiagNext]_diagVars, DiagTypes'
  PROVE  HolesAreEmpty'
<1> SUFFICES ASSUME DiagTypes, BlocksSound, HolesAreEmpty PROVE HolesAreEmpty'
  BY DEF DiagInv
<1>1. MaxFiles \notin Places /\ \A p \in Places : p - 1 + 1 = p
  BY DiagPlaces
<1>2. ASSUME UNCHANGED <<files, job>> PROVE HolesAreEmpty'
  BY <1>2 DEF HolesAreEmpty, Hole
<1>3. ASSUME NEW w \in Writers, \A x \in Writers : x # w => job'[x] = job[x] /\ files'[x] = files[x],
             Hole(w)' \in Places => files'[w][Hole(w)'] = <<>>
      PROVE  HolesAreEmpty'
  <2> SUFFICES ASSUME NEW x \in Writers, x # w, Hole(x)' \in Places PROVE files'[x][Hole(x)'] = <<>>
    BY <1>3 DEF HolesAreEmpty
  <2>1. Hole(x)' = Hole(x) /\ files'[x] = files[x]
    BY <1>3 DEF Hole
  <2> QED BY <2>1 DEF HolesAreEmpty
<1>4. ASSUME NEW w \in Writers, \A x \in Writers : x # w => job'[x] = job[x] /\ files'[x] = files[x],
             job'[w].op # "rotate"
      PROVE  HolesAreEmpty'
  <2>1. Hole(w)' = MaxFiles
    BY <1>4 DEF Hole
  <2> QED BY <1>1, <1>3, <1>4, <2>1
<1>5. CASE UNCHANGED diagVars
  BY <1>2, <1>5 DEF diagVars
<1>6. CASE DiagTick
  BY <1>2, <1>6 DEF DiagTick
<1>7. ASSUME NEW w \in Writers, StartAppend(w) PROVE HolesAreEmpty'
  <2>1. /\ job'[w].place = MaxFiles - 1 /\ (\A x \in Writers : x # w => job'[x] = job[x]) /\ UNCHANGED files
    BY <1>7, StartAppendDoes
  <2>2. Hole(w)' = MaxFiles
    BY <2>1, DiagPlaces DEF Hole
  <2> QED BY <1>1, <1>3, <2>1, <2>2
<1>8. ASSUME NEW w \in Writers, Rotate(w) PROVE HolesAreEmpty'
  <2> DEFINE p == job[w].place
  <2>1. /\ p \in Places /\ (\A x \in Writers : x # w => job'[x] = job[x] /\ files'[x] = files[x])
        /\ files'[w][p] = <<>>
        /\ IF p = 0 THEN job'[w].op = "write" ELSE job'[w].op = "rotate" /\ job'[w].place = p - 1
    BY <1>8, RotateDoes
  <2>2. CASE p = 0
    BY <1>4, <2>1, <2>2
  <2>3. CASE p # 0
    <3>1. Hole(w)' = p
      <4>1. Hole(w)' = p - 1 + 1
        BY <2>1, <2>3 DEF Hole
      <4> QED BY <1>1, <2>1, <4>1
    <3> QED BY <1>3, <2>1, <3>1
  <2> QED BY <2>2, <2>3
<1>9. ASSUME NEW w \in Writers, NEW s \in Places, \A x \in Writers : x # w => job'[x] = job[x], files' \in FileTable,
             \A x \in Writers, q \in Places : x # w \/ q # s => files'[x][q] = files[x][q],
             job'[w].op # "rotate"
      PROVE  HolesAreEmpty'
  <2>1. ASSUME NEW x \in Writers, x # w PROVE files'[x] = files[x]
    <3>1. files[x] \in [Places -> Seq(Block)] /\ files'[x] \in [Places -> Seq(Block)]
      BY <1>9 DEF DiagTypes, FileTable
    <3>2. \A q \in Places : files'[x][q] = files[x][q]
      BY <1>9, <2>1
    <3> QED BY <3>1, <3>2
  <2> QED BY <1>4, <1>9, <2>1
<1>10. ASSUME NEW w \in Writers, Write(w) PROVE HolesAreEmpty'
  <2>1. /\ 0 \in Places /\ (\A x \in Writers : x # w => job'[x] = job[x]) /\ files' \in FileTable
        /\ (\A x \in Writers, q \in Places : x # w \/ q # 0 => files'[x][q] = files[x][q]) /\ job'[w].op # "rotate"
    BY <1>10, WriteDoes, DiagPlaces
  <2> QED BY <1>9, <2>1
<1>11. ASSUME NEW w \in Writers, DiagDies(w) PROVE HolesAreEmpty'
  <2>1. /\ 0 \in Places /\ (\A x \in Writers : x # w => job'[x] = job[x]) /\ files' \in FileTable
        /\ (\A x \in Writers, q \in Places : x # w \/ q # 0 => files'[x][q] = files[x][q]) /\ job'[w].op # "rotate"
    BY <1>11, DiesDoes, DiagPlaces DEF DiagTypes
  <2> QED BY <1>9, <2>1
<1>12. ASSUME NEW w \in Writers, StartList(w) PROVE HolesAreEmpty'
  BY <1>4, <1>12, StartListDoes
<1>13. ASSUME NEW w \in Writers, ListFile(w) PROVE HolesAreEmpty'
  <2>1. job'[w].op # "rotate"
    BY <1>13, ListFileDoes
  <2> QED BY <1>4, <1>13, <2>1, ListFileDoes
<1>14. ASSUME NEW w \in Writers, Listed(w) PROVE HolesAreEmpty'
  BY <1>4, <1>14, ListedDoes
<1>15. ASSUME NEW w \in Writers, StartClear(w) PROVE HolesAreEmpty'
  BY <1>4, <1>15, StartClearDoes
<1>16. ASSUME NEW w \in Writers, MarkCleared(w) PROVE HolesAreEmpty'
  BY <1>4, <1>16, MarkClearedDoes
<1>17. ASSUME NEW w \in Writers, RemoveFile(w) PROVE HolesAreEmpty'
  <2>1. /\ job[w].place \in Places /\ (\A x \in Writers : x # w => job'[x] = job[x]) /\ files' \in FileTable
        /\ (\A x \in Writers, q \in Places : x # w \/ q # job[w].place => files'[x][q] = files[x][q])
        /\ job'[w].op # "rotate"
    BY <1>17, RemoveFileDoes
  <2> QED BY <1>9, <2>1
<1> QED
  BY <1>5, <1>6, <1>7, <1>8, <1>10, <1>11, <1>12, <1>13, <1>14, <1>15, <1>16, <1>17 DEF DiagNext

-----------------------------------------------------------------------------
(* Full files before the oldest one hold that many newer records. *)
LEMMA FullBehind ==
  ASSUME DiagTypes, BlocksSound, NEW w \in Writers, Ordered(w), NEW r \in written, NEW n \in DOMAIN files[w][MaxFiles - 1],
         files[w][MaxFiles - 1][n] = r,
         \A q \in Places : q < MaxFiles - 1 => Len(files[w][q]) >= FileBlocks
  PROVE  Cardinality(Newer(r)) >= (MaxFiles - 1) * FileBlocks
<1> DEFINE A == 0..(MaxFiles - 2)
           B == 1..FileBlocks
           C == A \X B
           N == Newer(r)
           f == [c \in C |-> files[w][c[1]][c[2]]]
<1>1. MaxFiles \in Nat \ {0} /\ FileBlocks \in Nat \ {0} /\ MaxFiles - 1 \in Places
  BY DiagPlaces
<1>2. r.of = w /\ r.id > 0
  <2>1. files[w][MaxFiles - 1][n].id > 0
    BY <1>1 DEF Ordered
  <2> QED BY <1>1, <2>1 DEF BlocksSound
<1>3. ASSUME NEW q \in A, NEW m \in B
      PROVE  q \in Places /\ q < MaxFiles - 1 /\ m \in DOMAIN files[w][q]
  <2>1. q \in Nat /\ q < MaxFiles - 1 /\ q < MaxFiles
    BY <1>1
  <2>2. q \in Places
    BY <2>1, DiagPlaces
  <2>3. files[w][q] \in Seq(Block) /\ Len(files[w][q]) >= FileBlocks
    BY <2>1, <2>2 DEF DiagTypes, FileTable
  <2>4. m \in 1..Len(files[w][q])
    BY <1>1, <2>3
  <2> QED BY <2>1, <2>2, <2>3, <2>4
<1>4. ASSUME NEW q \in A, NEW m \in B PROVE files[w][q][m] \in N
  <2>1. q \in Places /\ q < MaxFiles - 1 /\ m \in DOMAIN files[w][q]
    BY <1>3
  <2>2. files[w][q][m].id > 0
    BY <2>1 DEF Ordered
  <2>3. files[w][q][m] \in written /\ files[w][q][m].of = w
    BY <2>1, <2>2 DEF BlocksSound
  <2>4. r.id < files[w][q][m].id
    BY <1>1, <2>1 DEF Ordered
  <2>5. r.id \in Nat /\ files[w][q][m].id \in Nat
    BY <2>3, Blocks DEF DiagTypes
  <2> QED BY <1>2, <2>3, <2>4, <2>5 DEF Newer
<1>5. ASSUME NEW p \in A, NEW k \in B, NEW q \in A, NEW m \in B, files[w][p][k] = files[w][q][m]
      PROVE  p = q /\ k = m
  <2>1. p \in Places /\ k \in DOMAIN files[w][p] /\ q \in Places /\ m \in DOMAIN files[w][q]
    BY <1>3
  <2>2. files[w][p][k].id \in Nat
    <3>1. files[w][p][k] \in written
      BY <1>4 DEF Newer
    <3> QED BY <3>1, Blocks DEF DiagTypes
  <2>3. p \in Nat /\ q \in Nat /\ k \in Nat /\ m \in Nat
    BY <1>1
  <2>4. \A x, y \in Places : \A i \in DOMAIN files[w][x], j \in DOMAIN files[w][y] :
          x < y \/ (x = y /\ j < i) => files[w][y][j].id < files[w][x][i].id
    BY DEF Ordered
  <2> HIDE DEF A, B
  <2>5. p < q \/ (p = q /\ m < k) => files[w][q][m].id < files[w][p][k].id
    BY <2>1, <2>4
  <2>6. q < p \/ (q = p /\ k < m) => files[w][p][k].id < files[w][q][m].id
    BY <2>1, <2>4
  <2> QED BY <1>5, <2>2, <2>3, <2>5, <2>6
<1>6. IsFiniteSet(N)
  <2>1. N \subseteq written /\ IsFiniteSet(written)
    BY DEF Newer, DiagTypes
  <2> QED BY <2>1, FS_Subset
<1>7. f \in Injection(C, N)
  <2>1. f \in [C -> N]
    BY <1>4
  <2>2. ASSUME NEW c \in C, NEW d \in C, f[c] = f[d] PROVE c = d
    <3>1. c[1] \in A /\ c[2] \in B /\ d[1] \in A /\ d[2] \in B
      OBVIOUS
    <3>2. c[1] = d[1] /\ c[2] = d[2]
      <4>1. files[w][c[1]][c[2]] = files[w][d[1]][d[2]]
        BY <2>2
      <4> QED BY <1>5, <3>1, <4>1
    <3>3. c = <<c[1], c[2]>> /\ d = <<d[1], d[2]>>
      OBVIOUS
    <3> QED BY <3>2, <3>3
  <2> HIDE DEF f, C, N
  <2> QED BY <2>1, <2>2 DEF Injection, IsInjective
<1>8. IsFiniteSet(A) /\ Cardinality(A) = MaxFiles - 1 /\ IsFiniteSet(B) /\ Cardinality(B) = FileBlocks
  <2>1. 0 \in Int /\ MaxFiles - 2 \in Int /\ 1 \in Int /\ FileBlocks \in Int
    BY <1>1
  <2>2. /\ IsFiniteSet(A) /\ Cardinality(A) = (IF 0 > MaxFiles - 2 THEN 0 ELSE MaxFiles - 2 - 0 + 1)
        /\ IsFiniteSet(B) /\ Cardinality(B) = (IF 1 > FileBlocks THEN 0 ELSE FileBlocks - 1 + 1)
    BY <2>1, FS_Interval
  <2> HIDE DEF A, B
  <2> QED BY <1>1, <2>2
<1> HIDE DEF A, B, N, f
<1>9. IsFiniteSet(C) /\ Cardinality(C) = (MaxFiles - 1) * FileBlocks
  BY <1>8, FS_Product
<1>10. Cardinality(C) <= Cardinality(N)
  BY <1>6, <1>7, FS_Injection
<1>11. Cardinality(N) \in Nat
  BY <1>6, FS_CardinalityType
<1>12. (MaxFiles - 1) * FileBlocks \in Nat
  BY <1>8, <1>9, FS_CardinalityType
<1> QED BY <1>9, <1>10, <1>11, <1>12 DEF N

(* A step that leaves a replica's files and records alone. *)
ReplicaCalm(w) ==
  /\ files'[w] = files[w] /\ Hole(w)' = Hole(w) /\ (job'[w].op = "rotate" => job[w].op = "rotate")
  /\ written \subseteq written' /\ \A s \in written' : s.of = w => s \in written
  /\ ~crossed' => ~crossed /\ cutoff' >= cutoff

LEMMA RecentBefore ==
  ASSUME DiagTypes, DiagTypes', cutoff' >= cutoff, NEW r \in DiagRec, NEW w \in Writers, Recent(r, w)'
  PROVE  Recent(r, w)
BY Blocks DEF DiagTypes, Recent

LEMMA ReplicaStays ==
  ASSUME DiagTypes, DiagTypes', BlocksSound, NEW w \in Writers, ReplicaSound(w), ReplicaCalm(w)
  PROVE  ReplicaSound(w)'
<1>1. Ordered(w)'
  <2>1. Ordered(w) /\ files'[w] = files[w]
    BY DEF ReplicaSound, ReplicaCalm
  <2> QED BY <2>1 DEF Ordered
<1>2. ASSUME ~crossed' PROVE Full(w)'
  <2>1. Full(w) /\ cutoff' >= cutoff
    BY <1>2 DEF ReplicaSound, ReplicaCalm
  <2> SUFFICES ASSUME NEW p \in Places, NEW q \in Places, NEW n \in DOMAIN files'[w][p],
                      Recent(files[w][p][n], w)', q < p, q # Hole(w)', q >= 1 \/ job'[w].op = "rotate"
               PROVE  Len(files'[w][q]) >= FileBlocks
    BY DEF Full
  <2>2. files'[w] = files[w] /\ q # Hole(w) /\ (q >= 1 \/ job[w].op = "rotate")
    BY DEF ReplicaCalm
  <2>3. files[w][p][n].id > 0
    BY <1>1, <2>2 DEF Ordered
  <2>4. files[w][p][n] \in DiagRec
    BY <2>2, <2>3 DEF BlocksSound, DiagTypes
  <2>5. Recent(files[w][p][n], w)
    BY <2>1, <2>2, <2>4, RecentBefore
  <2> QED BY <2>1, <2>2, <2>5 DEF Full
<1>3. ASSUME ~crossed' PROVE Kept(w)'
  <2>1. Kept(w) /\ cutoff' >= cutoff
    BY <1>3 DEF ReplicaSound, ReplicaCalm
  <2> SUFFICES ASSUME NEW r \in written', Recent(r, w)'
               PROVE  OnDisk(r, w)' \/ Cardinality(Newer(r)') >= (MaxFiles - 1) * FileBlocks
    BY DEF Kept
  <2>2. r.of = w /\ r \in written /\ r \in DiagRec
    BY DEF ReplicaCalm, Recent, DiagTypes
  <2>3. Recent(r, w)
    BY <2>1, <2>2, RecentBefore
  <2>4. OnDisk(r, w) \/ Cardinality(Newer(r)) >= (MaxFiles - 1) * FileBlocks
    BY <2>1, <2>2, <2>3 DEF Kept
  <2>5. Newer(r)' = Newer(r)
    BY <2>2 DEF Newer, ReplicaCalm
  <2>6. OnDisk(r, w)' <=> OnDisk(r, w)
    BY DEF OnDisk, ReplicaCalm
  <2> QED BY <2>4, <2>5, <2>6
<1> QED BY <1>1, <1>2, <1>3 DEF ReplicaSound

LEMMA ReplicaFills ==
  ASSUME DiagTypes, DiagTypes', BlocksSound, NEW w \in Writers, ReplicaSound(w), StartAppend(w)
  PROVE  ReplicaSound(w)'
<1>1. /\ job[w].op = "idle" /\ job'[w].op \in {"rotate", "write"} /\ job'[w].place = MaxFiles - 1
      /\ (job'[w].op = "rotate" => Len(files[w][0]) >= FileBlocks)
      /\ UNCHANGED <<files, cutoff, written, crossed>>
  BY StartAppendDoes
<1>2. Hole(w)' = MaxFiles /\ Hole(w) = MaxFiles
  BY <1>1, DiagPlaces DEF Hole
<1>3. Ordered(w)'
  BY <1>1 DEF Ordered, ReplicaSound
<1>4. Kept(w)' <=> Kept(w)
  BY <1>1 DEF Kept, Recent, OnDisk, Newer
<1>5. Full(w) => Full(w)'
  <2> SUFFICES ASSUME Full(w), NEW p \in Places, NEW q \in Places, NEW n \in DOMAIN files'[w][p],
                      Recent(files[w][p][n], w)', q < p, q # Hole(w)', q >= 1 \/ job'[w].op = "rotate"
               PROVE  Len(files'[w][q]) >= FileBlocks
    BY DEF Full
  <2>1. Recent(files[w][p][n], w)
    BY <1>1 DEF Recent
  <2>2. CASE q >= 1
    BY <1>1, <1>2, <2>1, <2>2 DEF Full
  <2>3. CASE ~(q >= 1)
    <3>1. q = 0
      BY <2>3, DiagPlaces
    <3> QED BY <1>1, <2>3, <3>1
  <2> QED BY <2>2, <2>3
<1> QED BY <1>1, <1>3, <1>4, <1>5 DEF ReplicaSound

LEMMA ReplicaRotates ==
  ASSUME DiagTypes, DiagTypes', BlocksSound, HolesAreEmpty, NEW w \in Writers, ReplicaSound(w), Rotate(w)
  PROVE  ReplicaSound(w)'
<1> DEFINE h == job[w].place
<1>1. /\ h \in Places /\ job[w].op = "rotate" /\ files'[w][h] = <<>>
      /\ (h + 1 \in Places => files'[w][h + 1] = files[w][h])
      /\ (\A q \in Places : q # h /\ q # h + 1 => files'[w][q] = files[w][q])
      /\ UNCHANGED <<cutoff, written, crossed>>
      /\ IF h = 0 THEN job'[w].op = "write" ELSE job'[w].op = "rotate" /\ job'[w].place = h - 1
  BY RotateDoes
<1>2. Hole(w) = h + 1 /\ (h # 0 => Hole(w)' = h) /\ (h = 0 => Hole(w)' = MaxFiles)
  <2>1. Hole(w) = h + 1 /\ (h # 0 => Hole(w)' = h - 1 + 1) /\ (h = 0 => Hole(w)' = MaxFiles)
    BY <1>1 DEF Hole
  <2>2. h \in Nat
    BY <1>1, DiagPlaces
  <2> HIDE DEF h
  <2> QED BY <2>1, <2>2
<1>3. /\ h \in Nat /\ h < MaxFiles /\ MaxFiles \in Nat /\ (h + 1 \in Places <=> h # MaxFiles - 1)
      /\ \A q \in Places : q \in Nat /\ q < MaxFiles
  BY <1>1, DiagPlaces
<1> HIDE DEF h
(* Where a file was before. *)
<1> DEFINE was(q) == IF q = h + 1 THEN h ELSE q
<1>4. ASSUME NEW q \in Places, q # h
      PROVE  was(q) \in Places /\ files'[w][q] = files[w][was(q)]
  BY <1>1, <1>4
<1>5. \A n \in DOMAIN files'[w][h] : FALSE
  BY <1>1
<1>6. ASSUME NEW q \in Places PROVE (was(q) = h /\ q = h + 1) \/ (was(q) = q /\ q # h + 1)
  OBVIOUS
<1> HIDE DEF was
<1>7. ASSUME NEW p \in Places, NEW q \in Places, p # h, q # h, p < q
      PROVE  was(p) < was(q)
  <2>1. (was(p) = h /\ p = h + 1) \/ (was(p) = p /\ p # h + 1)
    BY <1>6
  <2>2. (was(q) = h /\ q = h + 1) \/ (was(q) = q /\ q # h + 1)
    BY <1>6
  <2>3. p \in Nat /\ q \in Nat /\ h \in Nat
    BY <1>3
  <2> QED BY <1>7, <2>1, <2>2, <2>3
<1>8. Ordered(w)'
  <2>1. Ordered(w)
    BY DEF ReplicaSound
  <2>2. ASSUME NEW p \in Places, NEW n \in DOMAIN files'[w][p] PROVE files'[w][p][n].id > 0
    <3>1. p # h
      BY <1>5
    <3> DEFINE q == was(p)
    <3>2. q \in Places /\ files'[w][p] = files[w][q]
      BY <1>4, <3>1
    <3> HIDE DEF q
    <3> QED BY <2>1, <3>2 DEF Ordered
  <2>3. ASSUME NEW p \in Places, NEW q \in Places, NEW m \in DOMAIN files'[w][p], NEW n \in DOMAIN files'[w][q],
               p < q \/ (p = q /\ n < m)
        PROVE  files'[w][q][n].id < files'[w][p][m].id
    <3>1. p # h /\ q # h
      BY <1>5
    <3> DEFINE x == was(p)
               y == was(q)
    <3>2. x \in Places /\ y \in Places /\ files'[w][p] = files[w][x] /\ files'[w][q] = files[w][y]
      BY <1>4, <3>1
    <3>3. (p < q => x < y) /\ (p = q => x = y)
      BY <1>7, <3>1
    <3> HIDE DEF x, y
    <3>4. x < y \/ (x = y /\ n < m)
      BY <2>3, <3>3
    <3>5. \A i, j \in Places : \A k \in DOMAIN files[w][i], l \in DOMAIN files[w][j] :
            i < j \/ (i = j /\ l < k) => files[w][j][l].id < files[w][i][k].id
      BY <2>1 DEF Ordered
    <3>6. m \in DOMAIN files[w][x] /\ n \in DOMAIN files[w][y]
      BY <3>2
    <3>7. files[w][y][n].id < files[w][x][m].id
      BY <3>2, <3>4, <3>5, <3>6
    <3> QED BY <3>2, <3>7
  <2> QED BY <2>2, <2>3 DEF Ordered
<1>9. ASSUME Full(w) PROVE Full(w)'
  <2> SUFFICES ASSUME NEW p \in Places, NEW q \in Places, NEW n \in DOMAIN files'[w][p],
                      Recent(files[w][p][n], w)', q < p, q # Hole(w)', q >= 1 \/ job'[w].op = "rotate"
               PROVE  Len(files'[w][q]) >= FileBlocks
    BY DEF Full
  <2>1. p # h
    BY <1>5
  <2>2. q # h
    <3>1. CASE h = 0
      BY <1>1, <1>3, <3>1
    <3>2. CASE h # 0
      BY <1>2, <3>2
    <3> QED BY <3>1, <3>2
  <2> DEFINE x == was(p)
             y == was(q)
  <2>3. x \in Places /\ y \in Places /\ files'[w][p] = files[w][x] /\ files'[w][q] = files[w][y]
    BY <1>4, <2>1, <2>2
  <2>4. y < x
    BY <1>7, <2>1, <2>2
  <2>5. y # Hole(w)
    <3>1. ((y = h /\ q = h + 1) \/ (y = q /\ q # h + 1)) /\ h \in Nat
      BY <1>3, <1>6
    <3> QED BY <1>2, <3>1
  <2> HIDE DEF x, y
  <2>6. Recent(files[w][x][n], w)
    BY <1>1, <2>3 DEF Recent
  <2>7. n \in DOMAIN files[w][x]
    BY <2>3
  <2> QED BY <1>1, <1>9, <2>3, <2>4, <2>5, <2>6, <2>7 DEF Full
<1>10. ASSUME Full(w), Kept(w) PROVE Kept(w)'
  <2> SUFFICES ASSUME NEW r \in written', Recent(r, w)'
               PROVE  OnDisk(r, w)' \/ Cardinality(Newer(r)') >= (MaxFiles - 1) * FileBlocks
    BY DEF Kept
  <2>1. r \in written /\ Recent(r, w) /\ Newer(r)' = Newer(r)
    BY <1>1 DEF Recent, Newer
  <2>2. OnDisk(r, w) \/ Cardinality(Newer(r)) >= (MaxFiles - 1) * FileBlocks
    BY <1>10, <2>1 DEF Kept
  <2>3. ASSUME NEW p \in Places, NEW n \in DOMAIN files[w][p], files[w][p][n] = r, p # h, p # h + 1
        PROVE  OnDisk(r, w)'
    BY <1>1, <2>3 DEF OnDisk
  <2>4. ASSUME NEW n \in DOMAIN files[w][h], files[w][h][n] = r, h # MaxFiles - 1
        PROVE  OnDisk(r, w)'
    BY <1>1, <1>3, <2>4 DEF OnDisk
  <2>5. ASSUME NEW n \in DOMAIN files[w][h], files[w][h][n] = r, h = MaxFiles - 1
        PROVE  Cardinality(Newer(r)) >= (MaxFiles - 1) * FileBlocks
    <3>1. \A q \in Places : q < MaxFiles - 1 => Len(files[w][q]) >= FileBlocks
      <4> SUFFICES ASSUME NEW q \in Places, q < MaxFiles - 1 PROVE Len(files[w][q]) >= FileBlocks
        OBVIOUS
      <4>1. q < h /\ q # Hole(w) /\ Recent(files[w][h][n], w)
        BY <1>2, <1>3, <2>1, <2>5
      <4> QED BY <1>1, <1>10, <4>1 DEF Full
    <3>2. Ordered(w) /\ n \in DOMAIN files[w][MaxFiles - 1] /\ files[w][MaxFiles - 1][n] = r
      BY <2>5 DEF ReplicaSound
    <3> QED BY <2>1, <3>1, <3>2, FullBehind
  <2>6. ASSUME NEW n \in DOMAIN files[w][h + 1], h + 1 \in Places PROVE FALSE
    <3>1. files[w][h + 1] = <<>>
      BY <1>2, <2>6 DEF HolesAreEmpty
    <3> QED BY <2>6, <3>1
  <2>7. CASE OnDisk(r, w)
    <3>1. PICK p \in Places : \E n \in DOMAIN files[w][p] : files[w][p][n] = r
      BY <2>7 DEF OnDisk
    <3>2. PICK n \in DOMAIN files[w][p] : files[w][p][n] = r
      BY <3>1
    <3>3. p # h + 1
      BY <2>6, <3>1, <3>2
    <3> QED BY <2>1, <2>3, <2>4, <2>5, <3>1, <3>2, <3>3
  <2> QED BY <2>1, <2>2, <2>7
<1> QED BY <1>1, <1>8, <1>9, <1>10 DEF ReplicaSound

LEMMA ReplicaWrites ==
  ASSUME DiagTypes, DiagTypes', RecordsSound, BlocksSound, NEW w \in Writers, ReplicaSound(w), Write(w)
  PROVE  ReplicaSound(w)'
<1> DEFINE b == job[w].rec
           f == files[w][0]
           g == files'[w][0]
<1>1. /\ b \in DiagRec /\ job[w].op = "write" /\ written' = written \cup {b} /\ job'[w].op = "idle"
      /\ g = f \o Prefix(f) \o <<b>>
      /\ (\A q \in Places : q # 0 => files'[w][q] = files[w][q])
      /\ UNCHANGED <<cutoff, crossed>>
  BY WriteDoes
<1>2. f \in Seq(Block) /\ 0 \in Places
  BY DiagPlaces DEF DiagTypes, FileTable
<1>3. b.of = w /\ b.id \in Nat /\ b.id > 0 /\ b \in Block /\ \A s \in written : s.of = w => s.id < b.id
  BY <1>1, Blocks DEF RecordsSound, Appending
<1>4. Ordered(w)
  BY DEF ReplicaSound
<1>5. \A n \in DOMAIN f : f[n].id > 0
  BY <1>2, <1>4 DEF Ordered
<1> HIDE DEF b, f, g
<1>6. /\ Appended(f, b, g) /\ Len(f) \in Nat /\ DOMAIN f = 1..Len(f) /\ DOMAIN g = 1..Len(g)
  <2>1. Appended(f, b, g)
    BY <1>1, <1>2, <1>3, Appends
  <2>2. f \in Seq(Block) /\ g \in Seq(Block)
    BY <1>2, <2>1 DEF Appended
  <2> QED BY <2>1, <2>2
<1>7. f # <<>> => f[Len(f)].id # 0
  <2>1. f # <<>> => Len(f) \in DOMAIN f
    BY <1>2, <1>6
  <2> QED BY <1>5, <2>1
<1>8. /\ Len(g) = Len(f) + 1 /\ g[Len(g)] = b /\ Len(g) \in DOMAIN g
      /\ \A n \in DOMAIN f : n \in DOMAIN g /\ g[n] = f[n]
      /\ \A n \in DOMAIN g : n \in DOMAIN f \/ n = Len(g)
  <2>1. Len(g) = Len(f) + 1 /\ g[Len(g)] = b
    BY <1>6, <1>7 DEF Appended
  <2>2. \A n \in DOMAIN f : n \in DOMAIN g /\ g[n] = f[n]
    BY <1>6 DEF Appended
  <2>3. \A n \in DOMAIN g : n \in DOMAIN f \/ n = Len(g)
    BY <1>6, <1>7 DEF Appended
  <2>4. Len(g) \in DOMAIN g
    BY <1>6, <2>1
  <2> QED BY <2>1, <2>2, <2>3, <2>4
<1>9. ASSUME NEW q \in Places, NEW n \in DOMAIN files'[w][q]
      PROVE  (q = 0 /\ n = Len(g)) \/ (n \in DOMAIN files[w][q] /\ files'[w][q][n] = files[w][q][n])
  BY <1>1, <1>8 DEF f, g
<1>10. ASSUME NEW q \in Places, NEW n \in DOMAIN files[w][q]
       PROVE  n \in DOMAIN files'[w][q] /\ files'[w][q][n] = files[w][q][n] /\ (q = 0 => n < Len(g))
  <2>1. CASE q = 0
    <3>1. n \in DOMAIN f
      BY <2>1 DEF f
    <3>2. n \in DOMAIN g /\ g[n] = f[n] /\ n < Len(g)
      BY <1>6, <1>8, <3>1
    <3> QED BY <2>1, <3>2 DEF f, g
  <2>2. CASE q # 0
    BY <1>1, <2>2
  <2> QED BY <2>1, <2>2
<1>11. ASSUME NEW q \in Places, NEW n \in DOMAIN files[w][q] PROVE files[w][q][n].id < b.id /\ files[w][q][n].id > 0
  <2>1. files[w][q][n].id > 0
    BY <1>4 DEF Ordered
  <2> QED BY <1>3, <2>1 DEF BlocksSound
<1>12. Ordered(w)'
  <2>1. ASSUME NEW p \in Places, NEW n \in DOMAIN files'[w][p] PROVE files'[w][p][n].id > 0
    <3>1. CASE p = 0 /\ n = Len(g)
      BY <1>3, <1>8, <3>1 DEF g
    <3>2. CASE n \in DOMAIN files[w][p] /\ files'[w][p][n] = files[w][p][n]
      BY <1>11, <3>2
    <3> QED BY <1>9, <3>1, <3>2
  <2>2. ASSUME NEW p \in Places, NEW q \in Places, NEW m \in DOMAIN files'[w][p], NEW n \in DOMAIN files'[w][q],
               p < q \/ (p = q /\ n < m)
        PROVE  files'[w][q][n].id < files'[w][p][m].id
    <3>1. p \in Nat /\ q \in Nat
      BY DiagPlaces
    <3>2. CASE q = 0 /\ n = Len(g)
      <4>1. p = 0 /\ Len(g) < m
        BY <2>2, <3>1, <3>2
      <4>2. m \in DOMAIN g
        BY <4>1 DEF g
      <4>3. m \in 1..Len(g)
        BY <1>6, <4>2
      <4> QED BY <1>6, <1>8, <4>1, <4>3
    <3>3. CASE n \in DOMAIN files[w][q] /\ files'[w][q][n] = files[w][q][n]
      <4>1. CASE p = 0 /\ m = Len(g)
        <5>1. files'[w][p][m] = b
          BY <1>8, <4>1 DEF g
        <5> QED BY <1>11, <3>3, <5>1
      <4>2. CASE m \in DOMAIN files[w][p] /\ files'[w][p][m] = files[w][p][m]
        <5>1. \A i, j \in Places : \A k \in DOMAIN files[w][i], l \in DOMAIN files[w][j] :
                i < j \/ (i = j /\ l < k) => files[w][j][l].id < files[w][i][k].id
          BY <1>4 DEF Ordered
        <5> QED BY <2>2, <3>3, <4>2, <5>1
      <4> QED BY <1>9, <4>1, <4>2
    <3> QED BY <1>9, <3>2, <3>3
  <2> QED BY <2>1, <2>2 DEF Ordered
<1>13. Hole(w)' = MaxFiles /\ Hole(w) = MaxFiles
  BY <1>1 DEF Hole
<1>14. ASSUME Full(w) PROVE Full(w)'
  <2> SUFFICES ASSUME NEW p \in Places, NEW q \in Places, NEW n \in DOMAIN files'[w][p],
                      Recent(files[w][p][n], w)', q < p, q # Hole(w)', q >= 1 \/ job'[w].op = "rotate"
               PROVE  Len(files'[w][q]) >= FileBlocks
    BY DEF Full
  <2>1. q >= 1 /\ q # 0 /\ p # 0
    BY <1>1, DiagPlaces
  <2>2. files'[w][p] = files[w][p] /\ files'[w][q] = files[w][q]
    BY <1>1, <2>1
  <2>3. Recent(files[w][p][n], w)
    BY <1>1, <2>2 DEF Recent
  <2> QED BY <1>13, <1>14, <2>1, <2>2, <2>3 DEF Full
<1>15. ASSUME Kept(w) PROVE Kept(w)'
  <2> SUFFICES ASSUME NEW r \in written', Recent(r, w)'
               PROVE  OnDisk(r, w)' \/ Cardinality(Newer(r)') >= (MaxFiles - 1) * FileBlocks
    BY DEF Kept
  <2>1. CASE r = b
    <3>1. files'[w][0][Len(g)] = r /\ Len(g) \in DOMAIN files'[w][0]
      BY <1>8, <2>1 DEF g
    <3> QED BY <1>2, <3>1 DEF OnDisk
  <2>2. CASE r # b
    <3>1. r \in written /\ Recent(r, w)
      BY <1>1, <2>2 DEF Recent
    <3>2. CASE OnDisk(r, w)
      <4>1. PICK p \in Places : \E n \in DOMAIN files[w][p] : files[w][p][n] = r
        BY <3>2 DEF OnDisk
      <4>2. PICK n \in DOMAIN files[w][p] : files[w][p][n] = r
        BY <4>1
      <4>3. n \in DOMAIN files'[w][p] /\ files'[w][p][n] = r
        BY <1>10, <4>1, <4>2
      <4> QED BY <4>1, <4>3 DEF OnDisk
    <3>3. CASE Cardinality(Newer(r)) >= (MaxFiles - 1) * FileBlocks
      <4>1. IsFiniteSet(Newer(r)') /\ Newer(r) \subseteq Newer(r)'
        <5>1. Newer(r)' \subseteq written' /\ IsFiniteSet(written')
          BY DEF Newer, DiagTypes
        <5>2. Newer(r) \subseteq Newer(r)'
          BY <1>1 DEF Newer
        <5> QED BY <5>1, <5>2, FS_Subset
      <4>2. /\ Cardinality(Newer(r)) <= Cardinality(Newer(r)') /\ Cardinality(Newer(r)) \in Nat
            /\ Cardinality(Newer(r)') \in Nat
        BY <4>1, FS_Subset, FS_CardinalityType
      <4>3. (MaxFiles - 1) * FileBlocks \in Int
        BY DiagPlaces
      <4> QED BY <3>3, <4>2, <4>3
    <3> QED BY <1>15, <3>1, <3>2, <3>3 DEF Kept
  <2> QED BY <2>1, <2>2
<1> QED BY <1>1, <1>12, <1>14, <1>15 DEF ReplicaSound

LEMMA ReplicaCleared ==
  ASSUME DiagTypes, DiagTypes', BlocksSound, BlocksSound', ClearsSound, NEW w \in Writers, ReplicaSound(w), RemoveFile(w)
  PROVE  ReplicaSound(w)'
<1>1. /\ job[w].op = "remove" /\ UNCHANGED <<cutoff, written, crossed>>
      /\ \A q \in Places : files'[w][q] = <<>> \/ files'[w][q] = files[w][q]
  BY RemoveFileDoes
<1>2. DOMAIN <<>> = {}
  OBVIOUS
<1>3. \A q \in Places : \A n \in DOMAIN files'[w][q] : files'[w][q] = files[w][q]
  BY <1>1, <1>2
<1>4. Ordered(w)'
  <2>1. Ordered(w)
    BY DEF ReplicaSound
  <2>2. \A i, j \in Places : \A k \in DOMAIN files[w][i], l \in DOMAIN files[w][j] :
          i < j \/ (i = j /\ l < k) => files[w][j][l].id < files[w][i][k].id
    BY <2>1 DEF Ordered
  <2>3. \A i \in Places : \A k \in DOMAIN files[w][i] : files[w][i][k].id > 0
    BY <2>1 DEF Ordered
  <2>4. \A i \in Places : \A k \in DOMAIN files'[w][i] : files'[w][i][k].id > 0
    BY <1>3, <2>3
  <2>5. ASSUME NEW i \in Places, NEW j \in Places, NEW k \in DOMAIN files'[w][i], NEW l \in DOMAIN files'[w][j],
               i < j \/ (i = j /\ l < k)
        PROVE  files'[w][j][l].id < files'[w][i][k].id
    <3>1. files'[w][i] = files[w][i] /\ files'[w][j] = files[w][j]
      BY <1>3
    <3> QED BY <2>2, <2>5, <3>1
  <2> QED BY <2>4, <2>5 DEF Ordered
<1>5. ASSUME ~crossed, NEW r \in written PROVE ~Recent(r, w)
  <2>1. w \in Clearing
    BY <1>1 DEF Clearing
  <2>2. cutoff = job[w].cut /\ (r.of = w => r.at <= job[w].cut)
    BY <1>1, <1>5, <2>1 DEF ClearsSound
  <2>3. cutoff \in Nat /\ r.at \in Nat
    BY Blocks DEF DiagTypes
  <2> QED BY <2>2, <2>3 DEF Recent
<1>6. ASSUME ~crossed', NEW p \in Places, NEW n \in DOMAIN files'[w][p] PROVE ~Recent(files[w][p][n], w)'
  <2>1. files'[w][p][n].id > 0
    BY <1>4 DEF Ordered
  <2>2. files'[w][p][n] \in written /\ ~crossed
    BY <1>1, <1>6, <2>1 DEF BlocksSound
  <2>3. ~Recent(files[w][p][n], w)
    BY <1>3, <1>5, <2>2
  <2> QED BY <1>1, <1>3, <2>3 DEF Recent
<1>7. ~crossed' => Full(w)'
  BY <1>6 DEF Full
<1>8. ~crossed' => Kept(w)'
  <2>1. ASSUME ~crossed', NEW r \in written' PROVE ~Recent(r, w)'
    BY <1>1, <1>5, <2>1 DEF Recent
  <2> QED BY <2>1 DEF Kept
<1> QED BY <1>4, <1>7, <1>8 DEF ReplicaSound

(* Every step but those of a replica on its own files leaves it alone. *)
LEMMA CalmReplica ==
  ASSUME DiagTypes, DiagTypes', NEW x \in Writers, files'[x] = files[x],
         job'[x] = job[x] \/ (job'[x].op # "rotate" /\ job[x].op # "rotate"),
         written \subseteq written' /\ \A s \in written' : s.of = x => s \in written,
         ~crossed' => ~crossed /\ cutoff' >= cutoff
  PROVE  ReplicaCalm(x)
BY DEF ReplicaCalm, Hole

LEMMA OtherReplicas ==
  ASSUME DiagTypes, DiagTypes', BlocksSound, ReplicasSound, NEW w \in Writers,
         \A x \in Writers : x # w => job'[x] = job[x] /\ files'[x] = files[x],
         written \subseteq written' /\ \A x \in Writers : x # w => \A s \in written' : s.of = x => s \in written,
         ~crossed' => ~crossed /\ cutoff' >= cutoff, faults.at \subseteq faults'.at,
         w \notin faults'.at => ReplicaSound(w)'
  PROVE  ReplicasSound'
<1> SUFFICES ASSUME NEW x \in Writers, x \notin faults'.at, x # w PROVE ReplicaSound(x)'
  BY DEF ReplicasSound
<1>1. ReplicaSound(x)
  BY DEF ReplicasSound
<1>2. ReplicaCalm(x)
  BY CalmReplica
<1> QED BY <1>1, <1>2, ReplicaStays

LEMMA DiagReplicasStep ==
  ASSUME DiagInv, [DiagNext]_diagVars, DiagTypes', BlocksSound'
  PROVE  ReplicasSound'
<1> SUFFICES ASSUME DiagTypes, BlocksSound, HolesAreEmpty, RecordsSound, ClearsSound, ReplicasSound
             PROVE  ReplicasSound'
  BY DEF DiagInv
<1>1. cutoff \in Nat /\ cutoff >= cutoff
  BY DEF DiagTypes
<1>2. ASSUME UNCHANGED <<files, job, written, cutoff, crossed, faults>> PROVE ReplicasSound'
  <2> SUFFICES ASSUME NEW x \in Writers, x \notin faults'.at PROVE ReplicaSound(x)'
    BY DEF ReplicasSound
  <2>1. ReplicaSound(x)
    BY <1>2 DEF ReplicasSound
  <2>2. ReplicaCalm(x)
    BY <1>1, <1>2, CalmReplica
  <2> QED BY <2>1, <2>2, ReplicaStays
<1>3. ASSUME NEW w \in Writers, UNCHANGED <<files, written, faults>>, ~crossed' => ~crossed /\ cutoff' >= cutoff,
             \A x \in Writers : x # w => job'[x] = job[x], job[w].op # "rotate", job'[w].op # "rotate"
      PROVE  ReplicasSound'
  <2>1. ASSUME w \notin faults'.at PROVE ReplicaSound(w)'
    <3>1. ReplicaSound(w)
      BY <1>3, <2>1 DEF ReplicasSound
    <3>2. ReplicaCalm(w)
      BY <1>3, CalmReplica
    <3> QED BY <3>1, <3>2, ReplicaStays
  <2> QED BY <1>3, <2>1, OtherReplicas
<1>4. CASE UNCHANGED diagVars
  BY <1>2, <1>4 DEF diagVars
<1>5. CASE DiagTick
  BY <1>2, <1>5 DEF DiagTick
<1>6. ASSUME NEW w \in Writers, StartAppend(w) PROVE ReplicasSound'
  <2>1. /\ (\A x \in Writers : x # w => job'[x] = job[x]) /\ UNCHANGED <<files, cutoff, written, faults, crossed>>
    BY <1>6, StartAppendDoes
  <2>2. w \notin faults'.at => ReplicaSound(w)'
    BY <1>6, <2>1, ReplicaFills DEF ReplicasSound
  <2> QED BY <1>1, <2>1, <2>2, OtherReplicas
<1>7. ASSUME NEW w \in Writers, Rotate(w) PROVE ReplicasSound'
  <2>1. /\ (\A x \in Writers : x # w => job'[x] = job[x] /\ files'[x] = files[x])
        /\ UNCHANGED <<cutoff, written, faults, crossed>>
    BY <1>7, RotateDoes
  <2>2. w \notin faults'.at => ReplicaSound(w)'
    BY <1>7, <2>1, ReplicaRotates DEF ReplicasSound
  <2> QED BY <1>1, <2>1, <2>2, OtherReplicas
<1>8. ASSUME NEW w \in Writers, NEW s \in Places, files' \in FileTable,
             \A x \in Writers, q \in Places : x # w \/ q # s => files'[x][q] = files[x][q]
      PROVE  \A x \in Writers : x # w => files'[x] = files[x]
  <2> SUFFICES ASSUME NEW x \in Writers, x # w PROVE files'[x] = files[x]
    OBVIOUS
  <2>1. files[x] \in [Places -> Seq(Block)] /\ files'[x] \in [Places -> Seq(Block)]
    BY <1>8 DEF DiagTypes, FileTable
  <2>2. \A q \in Places : files'[x][q] = files[x][q]
    BY <1>8
  <2> QED BY <2>1, <2>2
<1>9. ASSUME NEW w \in Writers, Write(w) PROVE ReplicasSound'
  <2> DEFINE b == job[w].rec
  <2>1. /\ (\A x \in Writers : x # w => job'[x] = job[x]) /\ files' \in FileTable /\ job[w].op = "write"
        /\ (\A x \in Writers, q \in Places : x # w \/ q # 0 => files'[x][q] = files[x][q])
        /\ written' = written \cup {b} /\ UNCHANGED <<cutoff, faults, crossed>>
    BY <1>9, WriteDoes
  <2>2. b.of = w
    BY <2>1 DEF RecordsSound, Appending
  <2> HIDE DEF b
  <2>3. w \notin faults'.at => ReplicaSound(w)'
    BY <1>9, <2>1, ReplicaWrites DEF ReplicasSound
  <2>4. 0 \in Places
    BY DiagPlaces
  <2>5. \A x \in Writers : x # w => files'[x] = files[x]
    BY <1>8, <2>1, <2>4
  <2>6. written \subseteq written' /\ \A x \in Writers : x # w => \A s \in written' : s.of = x => s \in written
    BY <2>1, <2>2
  <2> QED BY <1>1, <2>1, <2>3, <2>5, <2>6, OtherReplicas
<1>10. ASSUME NEW w \in Writers, DiagDies(w) PROVE ReplicasSound'
  <2>1. /\ job[w].op \in {"rotate", "write", "mark", "remove"}
        /\ (\A x \in Writers : x # w => job'[x] = job[x]) /\ job'[w].op = "idle"
        /\ faults'.at = (IF job[w].op \in {"rotate", "write"} THEN faults.at \cup {w} ELSE faults.at)
        /\ UNCHANGED <<cutoff, written, crossed>>
    BY <1>10, DiesDoes
  <2>2. CASE job[w].op \in {"rotate", "write"}
    <3>1. \A x \in Writers : x # w => files'[x] = files[x]
      <4>1. 0 \in Places
        BY DiagPlaces
      <4>2. CASE UNCHANGED files
        BY <4>2
      <4>3. CASE ~UNCHANGED files
        <5>1. /\ files' \in FileTable
              /\ (\A x \in Writers, q \in Places : x # w \/ q # 0 => files'[x][q] = files[x][q])
          BY <1>10, <4>3, DiesDoes
        <5> QED BY <1>8, <4>1, <5>1
      <4> QED BY <4>2, <4>3
    <3>2. w \in faults'.at /\ faults.at \subseteq faults'.at
      BY <2>1, <2>2
    <3> QED BY <1>1, <2>1, <3>1, <3>2, OtherReplicas
  <2>3. CASE job[w].op \notin {"rotate", "write"}
    <3>1. UNCHANGED files /\ faults'.at = faults.at
      BY <1>10, <2>1, <2>3, DiesDoes
    <3>2. ASSUME w \notin faults'.at PROVE ReplicaSound(w)'
      <4>1. ReplicaSound(w)
        BY <3>1, <3>2 DEF ReplicasSound
      <4>2. ReplicaCalm(w)
        BY <1>1, <2>1, <2>3, <3>1, CalmReplica
      <4> QED BY <4>1, <4>2, ReplicaStays
    <3> QED BY <1>1, <2>1, <3>1, <3>2, OtherReplicas
  <2> QED BY <2>2, <2>3
<1>11. ASSUME NEW w \in Writers, StartList(w) PROVE ReplicasSound'
  BY <1>1, <1>3, <1>11, StartListDoes
<1>12. ASSUME NEW w \in Writers, ListFile(w) PROVE ReplicasSound'
  <2>1. job[w].op # "rotate" /\ job'[w].op # "rotate"
    BY <1>12, ListFileDoes
  <2> QED BY <1>1, <1>3, <1>12, <2>1, ListFileDoes
<1>13. ASSUME NEW w \in Writers, Listed(w) PROVE ReplicasSound'
  BY <1>1, <1>3, <1>13, ListedDoes
<1>14. ASSUME NEW w \in Writers, StartClear(w) PROVE ReplicasSound'
  BY <1>1, <1>3, <1>14, StartClearDoes
<1>15. ASSUME NEW w \in Writers, MarkCleared(w) PROVE ReplicasSound'
  <2>1. /\ job[w].op = "mark" /\ (\A x \in Writers : x # w => job'[x] = job[x]) /\ job'[w].op = "remove"
        /\ cutoff' = job[w].cut /\ UNCHANGED <<files, written, faults, crossed>>
    BY <1>15, MarkClearedDoes
  <2>2. ~crossed => cutoff <= job[w].cut
    BY <2>1 DEF ClearsSound, Clearing
  <2>3. job[w].cut \in Nat
    BY <1>15, MarkClearedDoes
  <2>4. ~crossed' => ~crossed /\ cutoff' >= cutoff
    BY <1>1, <2>1, <2>2, <2>3
  <2> QED BY <1>3, <2>1, <2>4
<1>16. ASSUME NEW w \in Writers, RemoveFile(w) PROVE ReplicasSound'
  <2>1. /\ (\A x \in Writers : x # w => job'[x] = job[x]) /\ files' \in FileTable /\ job[w].place \in Places
        /\ (\A x \in Writers, q \in Places : x # w \/ q # job[w].place => files'[x][q] = files[x][q])
        /\ UNCHANGED <<cutoff, written, faults, crossed>>
    BY <1>16, RemoveFileDoes
  <2>2. \A x \in Writers : x # w => files'[x] = files[x]
    BY <1>8, <2>1
  <2>3. w \notin faults'.at => ReplicaSound(w)'
    BY <1>16, <2>1, ReplicaCleared DEF ReplicasSound
  <2> QED BY <1>1, <2>1, <2>2, <2>3, OtherReplicas
<1> QED
  BY <1>4, <1>5, <1>6, <1>7, <1>9, <1>10, <1>11, <1>12, <1>13, <1>14, <1>15, <1>16 DEF DiagNext

LEMMA DiagInvInit ==
  ASSUME DiagInit
  PROVE  DiagInv
<1>1. /\ \A w \in Writers : job[w] = NoJob /\ NoJob.op = "idle"
      /\ \A w \in Writers, p \in Places : files[w][p] = <<>>
      /\ cutoff = 0 /\ time = 1 /\ failures = 0 /\ written = {} /\ cleared = 0
  BY DEF DiagInit, NoJob
<1>2. DOMAIN <<>> = {} /\ <<>> \in Seq(Block)
  OBVIOUS
<1>3. Clearing = {}
  BY <1>1 DEF Clearing
<1>4. DiagTypes
  <2>1. IsFiniteSet({})
    BY FS_EmptySet
  <2>2. files \in FileTable
    BY <1>2 DEF DiagInit, FileTable
  <2>3. job \in JobTable
    BY DEF DiagInit, JobTable
  <2> QED BY <1>1, <2>1, <2>2, <2>3 DEF DiagTypes
<1>5. RecordsSound /\ NothingLeaks
  BY <1>1 DEF RecordsSound, NothingLeaks, Appending
<1>6. BlocksSound
  BY <1>1, <1>2 DEF BlocksSound
<1>7. ListsSound
  BY <1>1 DEF ListsSound, Listing
<1>8. ClearsSound
  BY <1>1, <1>3 DEF ClearsSound
<1>9. HolesAreEmpty
  BY <1>1 DEF HolesAreEmpty
<1>10. ReplicasSound
  <2>1. ASSUME NEW w \in Writers PROVE Ordered(w) /\ Full(w) /\ Kept(w)
    BY <1>1, <1>2 DEF Ordered, Full, Kept
  <2> QED BY <2>1 DEF ReplicasSound, ReplicaSound
<1> QED BY <1>4, <1>5, <1>6, <1>7, <1>8, <1>9, <1>10 DEF DiagInv

LEMMA DiagInvStep ==
  ASSUME DiagInv, [DiagNext]_diagVars
  PROVE  DiagInv'
<1>1. DiagTypes'
  BY DiagTypesStep
<1>2. RecordsSound' /\ NothingLeaks'
  BY <1>1, DiagRecordsStep
<1>3. BlocksSound'
  BY <1>1, DiagBlocksStep
<1>4. ListsSound'
  BY <1>1, DiagListsStep
<1>5. ClearsSound'
  BY <1>1, DiagClearsStep
<1>6. HolesAreEmpty'
  BY <1>1, DiagHolesStep
<1>7. ReplicasSound'
  BY <1>1, <1>3, DiagReplicasStep
<1> QED BY <1>1, <1>2, <1>3, <1>4, <1>5, <1>6, <1>7 DEF DiagInv

(* What the invariant says of the five promises. *)
LEMMA BlocksAreParsed ==
  ASSUME DiagTypes, BlocksSound, NEW w \in Writers, NEW p \in Places, NEW n \in DOMAIN files[w][p],
         files[w][p][n] \in written
  PROVE  files[w][p][n] \in Parsed(files[w][p])
<1>1. files[w][p][n].id > 0
  BY Blocks DEF DiagTypes
<1>2. n > 1 => files[w][p][n - 1].id # 0
  BY <1>1 DEF BlocksSound
<1> QED BY <1>1, <1>2 DEF Parsed

LEMMA KeptAreListed ==
  ASSUME DiagInv
  PROVE  NewestAreKept
<1> SUFFICES ASSUME NEW w \in Writers \ faults.at, ~crossed, NEW r \in written, r.of = w, r.at > cutoff,
                    Cardinality({s \in {x \in written : x.of = w /\ x.at > cutoff} : s.id > r.id})
                      < (MaxFiles - 1) * FileBlocks
             PROVE  r \in KeptFiles(w)
  BY DEF NewestAreKept
<1>1. DiagTypes /\ RecordsSound /\ BlocksSound /\ Kept(w)
  BY DEF DiagInv, ReplicasSound, ReplicaSound
<1>2. {s \in {x \in written : x.of = w /\ x.at > cutoff} : s.id > r.id} = Newer(r)
  <2>1. ASSUME NEW s \in written, s.of = w, s.id > r.id PROVE s.at > cutoff
    <3>1. r.at \in Nat /\ s.at \in Nat /\ r.id \in Nat /\ s.id \in Nat /\ cutoff \in Nat
      BY <1>1, Blocks DEF DiagTypes
    <3>2. r.id < s.id
      BY <2>1, <3>1
    <3>3. r.at <= s.at
      BY <1>1, <2>1, <3>2 DEF RecordsSound
    <3> QED BY <3>1, <3>3
  <2> QED BY <2>1 DEF Newer
<1>3. Cardinality(Newer(r)) \in Nat /\ (MaxFiles - 1) * FileBlocks \in Int
  <2>1. Newer(r) \subseteq written /\ IsFiniteSet(written)
    BY <1>1 DEF Newer, DiagTypes
  <2>2. IsFiniteSet(Newer(r))
    BY <2>1, FS_Subset
  <2> QED BY <2>2, FS_CardinalityType, DiagPlaces
<1>4. OnDisk(r, w)
  <2>1. OnDisk(r, w) \/ Cardinality(Newer(r)) >= (MaxFiles - 1) * FileBlocks
    BY <1>1 DEF Kept, Recent
  <2>2. Cardinality(Newer(r)) < (MaxFiles - 1) * FileBlocks
    BY <1>2
  <2> DEFINE c == Cardinality(Newer(r))
             k == (MaxFiles - 1) * FileBlocks
  <2>3. c \in Nat /\ k \in Int /\ c < k
    BY <1>3, <2>2
  <2>4. OnDisk(r, w) \/ c >= k
    BY <2>1
  <2> HIDE DEF c, k
  <2> QED BY <2>3, <2>4
<1>5. PICK p \in Places : \E n \in DOMAIN files[w][p] : files[w][p][n] = r
  BY <1>4 DEF OnDisk
<1>6. r \in Parsed(files[w][p])
  BY <1>1, <1>5, BlocksAreParsed
<1> QED BY <1>5, <1>6 DEF KeptFiles

LEMMA DiagnosticsFollow ==
  ASSUME DiagInv
  PROVE  DiagnosticsAreSafe
<1> USE DEF DiagInv
<1>1. NewestAreKept
  BY KeptAreListed
<1>2. WrittenAreReadable
  BY BlocksAreParsed DEF WrittenAreReadable
<1>3. ListsAreComplete
  <2> SUFFICES ASSUME NEW w \in Writers, job[w].op = "listed", NEW r \in job[w].begun \cap AllKept, ~Hidden(r, job[w].cut)
               PROVE  r \in job[w].items
    BY DEF ListsAreComplete
  <2>1. PICK d \in Writers, p \in Places : r \in Parsed(files[d][p])
    BY DEF AllKept, KeptFiles
  <2>2. PICK n \in DOMAIN files[d][p] : files[d][p][n] = r
    BY <2>1 DEF Parsed
  <2>3. ListSound(w) /\ ~Ahead(w, d, p)
    BY DEF ListsSound, Listing, Ahead
  <2> QED BY <2>1, <2>2, <2>3 DEF ListSound
<1>4. ClearedStayCleared
  <2> SUFFICES ASSUME NEW w \in Writers, job[w].op = "listed", ~crossed, NEW r \in job[w].items
               PROVE  r.at > job[w].cleared
    BY DEF ClearedStayCleared
  <2>1. ListSound(w)
    BY DEF ListsSound, Listing
  <2>2. job[w] \in ListJob
    BY Jobs DEF DiagTypes
  <2>3. r \in DiagRec /\ job[w].cut \in Nat /\ job[w].cleared \in Nat
    BY <2>2 DEF ListJob
  <2>4. r.at \in Nat /\ r.at > 0
    BY <2>3, Blocks
  <2>5. job[w].cleared <= job[w].cut /\ ~Hidden(r, job[w].cut)
    BY <2>1 DEF ListSound
  <2> QED BY <2>3, <2>4, <2>5 DEF Hidden
<1>5. SecretsAreRedacted
  BY DEF NothingLeaks, SecretsAreRedacted
<1> QED BY <1>1, <1>2, <1>3, <1>4, <1>5 DEF DiagnosticsAreSafe

(* Replicas that write, rotate, list and clear one volume lose none of the
   newest records and show none a finished clear removed, whatever the number
   of replicas, files and blocks and the moment one of them dies. *)
THEOREM DiagnosticsStaySafe == DiagSpec => []DiagnosticsAreSafe
<1>1. DiagInit => DiagInv
  BY DiagInvInit
<1>2. DiagInv /\ [DiagNext]_diagVars => DiagInv'
  BY DiagInvStep
<1>3. DiagInv => DiagnosticsAreSafe
  BY DiagnosticsFollow
<1> QED BY <1>1, <1>2, <1>3, PTL DEF DiagSpec
=============================================================================

------------------------- MODULE ConsoleOperations -------------------------
(***************************************************************************)
(* The batch actions of one list of the console (useOperations): what the  *)
(* browser remembers of the batches it submitted, while answers are lost   *)
(* or late, the operator leaves the page and returns, the session ends and *)
(* the service forgets operations.  `Operations` is the service's side;    *)
(* here a batch is a status and the records that are done.                 *)
(***************************************************************************)
EXTENDS Integers, Sequences, SequencesExt, FiniteSets

CONSTANTS
  Records,      \* the records an operator may select
  MaxBatches,   \* bound: previews the service grants
  MaxSequence,  \* bound: requests of one mounted list
  MaxSessions   \* bound: sessions that end

ASSUME ConsoleAssumption ==
  /\ MaxBatches \in Nat \ {0} /\ MaxSequence \in Nat \ {0} /\ MaxSessions \in Nat

Batches == 1..MaxBatches

VARIABLES
  batch,        \* external: the operations of the service
  session,      \* sessionGeneration of the page
  saved,        \* savedOperations of the list's path
  mounted,      \* the list is on screen (active)
  generation,   \* the session the list was mounted in
  current,      \* id of currentOperation, 0: none
  snapshots,    \* the results the list shows, in the order of submission
  unconfirmed,  \* submissionUnconfirmed
  following,    \* operations whose progress is read automatically
  visible,      \* the confirmation dialog is open
  sequence,     \* operationSequence
  request,      \* operationRequest: the request the list waits for, 0: none
  mutation,     \* mutationPending
  calls,        \* requests on the network
  selected      \* the selected records

consoleVars == <<batch, session, saved, mounted, generation, current, snapshots,
                 unconfirmed, following, visible, sequence, request, mutation,
                 calls, selected>>

NothingSaved == [results |-> <<>>, latest |-> 0, unconfirmed |-> 0]
NoBatch == [status |-> "none", items |-> {}, done |-> {}, session |-> 0,
            danger |-> FALSE, overtaken |-> FALSE]
Waits == [kind |-> "waiting"]

(* What a read of the operation returns. *)
Snapshot(b) == [id |-> b, status |-> batch[b].status,
                items |-> batch[b].items, done |-> batch[b].done]
FoundRow(results, b) == \E i \in DOMAIN results : results[i].id = b
ConsoleAt(results, b) == CHOOSE i \in DOMAIN results : results[i].id = b

ConsoleInit ==
  /\ batch = [b \in Batches |-> NoBatch]
  /\ session = 0 /\ saved = NothingSaved
  /\ mounted = FALSE /\ generation = 0
  /\ current = 0 /\ snapshots = <<>> /\ unconfirmed = FALSE /\ following = {}
  /\ visible = FALSE /\ sequence = 0 /\ request = 0 /\ mutation = FALSE
  /\ calls = {} /\ selected = {}

serverVars == <<batch>>
hookVars == <<saved, current, snapshots, unconfirmed, following, visible,
              sequence, request, mutation, selected>>
pageVars == <<session, mounted, generation>>

-----------------------------------------------------------------------------
(* persist(): only while the session that mounted the list lasts; a reset has
   emptied the map. *)
Persisted(results, latest, open, now) ==
  IF generation = now
  THEN [results |-> results, latest |-> latest, unconfirmed |-> IF open THEN latest ELSE 0]
  ELSE IF now # session THEN NothingSaved ELSE saved

(* remember(): a Map keeps the place of a known key. *)
Remember(results, next) ==
  IF FoundRow(results, next.id) THEN [results EXCEPT ![ConsoleAt(results, next.id)] = next]
  ELSE Append(results, next)

(* snapshots.delete(). *)
Dropped(results, b) ==
  IF FoundRow(results, b) THEN RemoveAt(results, ConsoleAt(results, b)) ELSE results

(* reportRefreshed(): the records no newer operation names.  The callback of
   the list then takes what is done out of the selection. *)
NewerIds(results, b) ==
  UNION {results[i].items : i \in (ConsoleAt(results, b) + 1)..Len(results)}
Unselected(results, next) == next.done \ NewerIds(results, next.id)

Remaining(next) == next.items \ next.done

-----------------------------------------------------------------------------
(* The service.  external: TLC checks `Operations` for what happens there. *)
ItemDone(b, r) ==
  /\ batch[b].status = "running" /\ r \in batch[b].items \ batch[b].done
  /\ batch' = [batch EXCEPT ![b].done = @ \cup {r}]
  /\ UNCHANGED <<pageVars, hookVars, calls>>

(* Whatever is not done failed. *)
BatchEnds(b) ==
  /\ batch[b].status = "running"
  /\ batch' = [batch EXCEPT ![b].status = "finished"]
  /\ UNCHANGED <<pageVars, hookVars, calls>>

(* sweep() drops previews and old results; a restart drops everything. *)
Forgotten(b) ==
  /\ batch[b].status \in {"preview", "running", "finished"}
  /\ batch' = [batch EXCEPT ![b].status = "gone"]
  /\ UNCHANGED <<pageVars, hookVars, calls>>

(* isCurrent(): the list still waits for this answer; any other one is dropped. *)
IsCurrent(c) == mounted /\ sequence = c.seq
AnsweredCall(c, answer) ==
  calls' = (calls \ {c}) \cup IF IsCurrent(c) THEN {[c EXCEPT !.got = answer]} ELSE {}
Reply(c, kind) == [kind |-> kind, snap |-> Snapshot(c.batch)]

(* POST /preview freezes the targets; all may be skipped at once. *)
GrantPreview(c) ==
  /\ c.kind = "preview" /\ c.got.kind = "waiting"
  /\ \E b \in Batches, skipped \in {{}, c.items}, danger \in BOOLEAN :
       /\ batch[b].status = "none" /\ \A o \in 1..(b - 1) : batch[o].status # "none"
       /\ batch' = [batch EXCEPT ![b] =
            [NoBatch EXCEPT !.status = "preview", !.items = c.items, !.done = skipped,
                            !.session = c.session, !.danger = danger]]
       /\ calls' = (calls \ {c}) \cup
            {[c EXCEPT !.batch = b,
                       !.got = [kind |-> "ok",
                                snap |-> [id |-> b, status |-> "preview",
                                          items |-> c.items, done |-> skipped]]]}
  /\ UNCHANGED <<pageVars, hookVars>>

(* POST /:id/execute: the first one starts the batch, every later one gets its
   state. *)
AcceptExecute(c) ==
  /\ c.kind = "execute" /\ c.got.kind = "waiting"
  /\ batch[c.batch].status # "gone"
  /\ batch' = [batch EXCEPT ![c.batch].status = IF @ = "preview" THEN "running" ELSE @]
  /\ AnsweredCall(c, [kind |-> "ok", snap |-> [Snapshot(c.batch) EXCEPT !.status = batch'[c.batch].status]])
  /\ UNCHANGED <<pageVars, hookVars>>

(* GET /:id.  A read that arrives before an execute still on its way
   overtakes it. *)
AnswerRead(c) ==
  /\ c.kind \in {"refreshed", "followed"} /\ c.got.kind = "waiting"
  /\ batch[c.batch].status # "gone"
  /\ AnsweredCall(c, Reply(c, "ok"))
  /\ batch' = [batch EXCEPT ![c.batch].overtaken =
       \/ @ \/ \E e \in calls : e.kind = "execute" /\ e.batch = c.batch /\ e.got.kind = "waiting"]
  /\ UNCHANGED <<pageVars, hookVars>>

(* 404, 400, 401 and an answer that never comes.  The 400 of an execution
   looks at what is submitted only: the retry of a good one is not refused. *)
Refused(c) ==
  /\ c.got.kind = "waiting"
  /\ \E kind \in {"missing", "rejected", "unauthorized"} :
       /\ kind = "missing" => c.kind # "preview" /\ batch[c.batch].status = "gone"
       /\ kind = "rejected" /\ c.kind = "execute" =>
            /\ batch[c.batch].status = "preview"
            /\ \A e \in calls \ {c} : e.batch # c.batch
       /\ kind = "unauthorized" => session < MaxSessions
       /\ AnsweredCall(c, [kind |-> kind, snap |-> [id |-> c.batch]])
  /\ UNCHANGED <<pageVars, hookVars, serverVars>>

Lost(c) ==
  /\ c.got.kind \in {"waiting", "ok"}
  /\ AnsweredCall(c, [kind |-> "lost", snap |-> [id |-> c.batch]])
  /\ UNCHANGED <<pageVars, hookVars, serverVars>>

-----------------------------------------------------------------------------
(* The page.  AdminApp shows another page, or comes back to this one. *)
Mount ==
  /\ ~mounted
  /\ mounted' = TRUE /\ generation' = session
  /\ snapshots' = saved.results
  /\ LET previous == IF saved.unconfirmed # 0 THEN saved.unconfirmed ELSE saved.latest IN
       /\ current' = IF FoundRow(saved.results, previous) THEN previous ELSE 0
       /\ unconfirmed' = (saved.unconfirmed # 0 /\ FoundRow(saved.results, previous))
  /\ UNCHANGED <<batch, session, saved, following, visible, sequence, request,
                 mutation, calls, selected>>

(* cancelOperation(): the request is aborted; an execution may reach the
   service all the same. *)
CancelOperation ==
  /\ sequence' = IF request = 0 THEN sequence ELSE sequence + 1
  /\ request' = 0 /\ mutation' = FALSE
  /\ calls' = {c \in calls : c.kind = "execute" /\ c.got.kind = "waiting"}

(* The cleanup of the effect; the hook's own state goes with the list. *)
Unmount ==
  /\ mounted /\ mounted' = FALSE /\ CancelOperation
  /\ following' = {} /\ visible' = FALSE
  /\ current' = 0 /\ snapshots' = <<>> /\ unconfirmed' = FALSE
  /\ selected' = IF generation = session THEN selected ELSE {}
  /\ UNCHANGED <<batch, session, saved, generation>>

(* resetManagedListState on logout or on the expiry event of another request;
   the list is taken off the screen a little later. *)
EndSession ==
  /\ session < MaxSessions
  /\ session' = session + 1 /\ saved' = NothingSaved
  /\ UNCHANGED <<batch, mounted, generation, current, snapshots, unconfirmed,
                 following, visible, sequence, request, mutation, calls, selected>>

(* The operator acts while the list shows their own session. *)
AttendedList == mounted /\ generation = session /\ sequence < MaxSequence

NewCall(kind, b, items, s) ==
  [kind |-> kind, batch |-> b, items |-> items, seq |-> s,
   session |-> generation, got |-> Waits]

(* preview(), after the operator chose the records. *)
Preview(items) ==
  /\ AttendedList /\ request = 0 /\ ~unconfirmed
  /\ selected' = items
  /\ sequence' = sequence + 1 /\ request' = sequence + 1 /\ mutation' = TRUE
  /\ calls' = calls \cup {NewCall("preview", 0, items, sequence + 1)}
  /\ UNCHANGED <<pageVars, serverVars, saved, current, snapshots, unconfirmed,
                 following, visible>>

(* execute(): the submission is unconfirmed before it is sent. *)
Submit(snap, others) ==
  /\ sequence' = sequence + 1 /\ request' = sequence + 1 /\ mutation' = TRUE
  /\ unconfirmed' = TRUE
  /\ snapshots' = Remember(snapshots, snap)
  /\ saved' = Persisted(snapshots', snap.id, TRUE, session)
  /\ calls' = others \cup {NewCall("execute", snap.id, {}, sequence + 1)}

(* The confirmation dialog, or retrySubmission of the same batch: one that
   needs a confirmation asks for it again. *)
CurrentSnapshot ==
  IF FoundRow(snapshots, current) THEN snapshots[ConsoleAt(snapshots, current)]
  ELSE [id |-> current, status |-> "preview",
        items |-> batch[current].items, done |-> batch[current].done]

Confirm ==
  /\ AttendedList /\ request = 0 /\ current # 0 /\ visible
  /\ Submit(CurrentSnapshot, calls)
  /\ UNCHANGED <<pageVars, serverVars, current, following, visible, selected>>

RetrySubmission ==
  /\ AttendedList /\ request = 0 /\ current # 0 /\ unconfirmed
  /\ \/ /\ batch[current].danger /\ ~visible /\ visible' = TRUE
        /\ UNCHANGED <<sequence, request, mutation, unconfirmed, snapshots, saved, calls>>
     \/ /\ ~batch[current].danger /\ UNCHANGED visible
        /\ Submit(CurrentSnapshot, calls)
  /\ UNCHANGED <<pageVars, serverVars, current, following, selected>>

(* close(): an unconfirmed submission stays. *)
CloseList ==
  /\ AttendedList /\ visible /\ ~mutation
  /\ CancelOperation
  /\ current' = IF unconfirmed THEN current ELSE 0
  /\ saved' = Persisted(snapshots, current', unconfirmed, session)
  /\ visible' = FALSE
  /\ UNCHANGED <<pageVars, serverVars, snapshots, unconfirmed, following, selected>>

-----------------------------------------------------------------------------
(* api(): a 401 ends the session before the caller learns of it. *)
SessionAfter(c) ==
  IF c.got.kind = "unauthorized" /\ session < MaxSessions THEN session + 1 ELSE session
SavedAfter(c) == IF SessionAfter(c) # session THEN NothingSaved ELSE saved

Freed == request' = 0 /\ mutation' = FALSE

(* The answer of the preview.  A batch that needs no confirmation is executed
   at once, one without a target is only shown. *)
PreviewAnswered(c) ==
  /\ c.kind = "preview" /\ c.got.kind # "waiting" /\ IsCurrent(c)
  /\ session' = SessionAfter(c)
  /\ IF c.got.kind # "ok"
     THEN /\ Freed /\ saved' = SavedAfter(c) /\ calls' = calls \ {c}
          /\ UNCHANGED <<current, snapshots, unconfirmed, sequence, visible>>
     ELSE LET next == c.got.snap IN
          /\ current' = next.id
          /\ \/ /\ Remaining(next) = {} /\ Freed /\ visible' = FALSE
                /\ snapshots' = Remember(snapshots, next)
                /\ saved' = Persisted(snapshots', next.id, unconfirmed, session)
                /\ calls' = calls \ {c} /\ UNCHANGED <<unconfirmed, sequence>>
             \/ /\ Remaining(next) # {} /\ batch[next.id].danger
                /\ Freed /\ visible' = TRUE
                /\ calls' = calls \ {c}
                /\ UNCHANGED <<saved, snapshots, unconfirmed, sequence>>
             \/ /\ Remaining(next) # {} /\ ~batch[next.id].danger
                /\ visible' = FALSE /\ Submit(next, calls \ {c})
  /\ UNCHANGED <<serverVars, mounted, generation, following, selected>>

(* The answer of the execution.  On a 404 the operation is dropped and with it
   isCurrent(), which the finally block asks again: the request is not
   released and nothing is saved. *)
Rejected == {"rejected", "unauthorized"}

ExecuteAnswered(c) ==
  /\ c.kind = "execute" /\ c.got.kind # "waiting" /\ IsCurrent(c) /\ current = c.batch
  /\ session' = SessionAfter(c)
  /\ calls' = calls \ {c}
  /\ CASE c.got.kind = "ok" ->
            /\ Freed /\ unconfirmed' = FALSE /\ visible' = FALSE
            /\ snapshots' = Remember(snapshots, c.got.snap)
            /\ saved' = Persisted(snapshots', current, FALSE, session)
            /\ following' = IF c.got.snap.status = "running"
                            THEN following \cup {current} ELSE following
            /\ selected' = Remaining(c.got.snap)
            /\ UNCHANGED current
       [] c.got.kind = "missing" ->
            /\ current' = 0 /\ unconfirmed' = FALSE /\ visible' = FALSE
            /\ snapshots' = Dropped(snapshots, c.batch)
            /\ UNCHANGED <<request, mutation, saved, following, selected>>
       [] OTHER ->
            /\ Freed /\ unconfirmed' = (c.got.kind \notin Rejected)
            /\ saved' = Persisted(snapshots, current, unconfirmed', session')
            /\ UNCHANGED <<current, snapshots, visible, following, selected>>
  /\ UNCHANGED <<serverVars, mounted, generation, sequence>>

-----------------------------------------------------------------------------
(* refresh(): every running operation and the unconfirmed one; automatic
   reads only the ones that are followed. *)
ConsoleTargets(source) ==
  {b \in {snapshots[i].id : i \in DOMAIN snapshots} :
     /\ \/ snapshots[ConsoleAt(snapshots, b)].status = "running"
        \/ unconfirmed /\ b = current
     /\ source = "followed" => b \in following}

Refresh(source) ==
  /\ AttendedList /\ request = 0
  /\ source = "followed" => ~visible /\ ~unconfirmed
  /\ ConsoleTargets(source) # {}
  /\ sequence' = sequence + 1 /\ request' = sequence + 1
  /\ calls' = calls \cup {NewCall(source, b, {}, sequence + 1) : b \in ConsoleTargets(source)}
  /\ UNCHANGED <<pageVars, serverVars, saved, current, snapshots, unconfirmed,
                 following, visible, mutation, selected>>

Reads == {c \in calls : c.kind \in {"refreshed", "followed"} /\ IsCurrent(c)}
ReadOperation(kind) == {c \in Reads : c.got.kind = kind}

(* The new snapshot of a read operation: a 404 keeps it as interrupted. *)
AfterRead(snap) ==
  LET mine == {c \in Reads : c.batch = snap.id} IN
  IF \E c \in mine : c.got.kind = "ok" THEN (CHOOSE c \in mine : TRUE).got.snap
  ELSE IF \E c \in mine : c.got.kind = "missing" THEN [snap EXCEPT !.status = "interrupted"]
  ELSE snap

(* Promise.allSettled: all answers are there.  A 401 among them ends the
   session, and the rest is not looked at. *)
RefreshAnswered ==
  /\ Reads # {} /\ \A c \in Reads : c.got.kind # "waiting"
  /\ ReadOperation("unauthorized") = {} /\ generation = session
  /\ LET recovered == unconfirmed /\ \E c \in ReadOperation("ok") : c.batch = current
         forgotten == \E c \in ReadOperation("missing") : c.batch = current
         next == [i \in DOMAIN snapshots |-> AfterRead(snapshots[i])]
         moved == {i \in DOMAIN snapshots : /\ next[i] # snapshots[i]
                                            /\ \E c \in ReadOperation("ok") : c.batch = next[i].id}
         started == recovered /\ next[ConsoleAt(next, current)].status # "preview"
         ended == {c.batch : c \in Reads \ ReadOperation("ok")}
                  \cup {next[i].id : i \in {j \in DOMAIN next : next[j].status # "running"}}
     IN
       /\ snapshots' = next
       /\ unconfirmed' = (unconfirmed /\ ~recovered /\ ~forgotten)
       /\ current' = IF forgotten THEN 0 ELSE current
       /\ visible' = (visible /\ ~forgotten /\ ~started)
       /\ following' = (following \ ended)
            \cup (IF started /\ next[ConsoleAt(next, current)].status = "running" THEN {current} ELSE {})
       /\ selected' = IF started THEN Remaining(next[ConsoleAt(next, current)])
                      ELSE selected \ UNION {Unselected(next, next[i]) : i \in moved}
       /\ saved' = Persisted(next, current', unconfirmed', session)
  /\ request' = 0 /\ calls' = calls \ Reads
  /\ UNCHANGED <<pageVars, serverVars, sequence, mutation>>

RefreshUnauthorized ==
  /\ Reads # {} /\ \A c \in Reads : c.got.kind # "waiting"
  /\ ReadOperation("unauthorized") # {} \/ generation # session
  /\ calls' = calls \ Reads
  /\ IF ReadOperation("unauthorized") # {} /\ session < MaxSessions
     THEN session' = session + 1 /\ saved' = NothingSaved
     ELSE UNCHANGED <<session, saved>>
  /\ UNCHANGED <<serverVars, mounted, generation, current, snapshots, unconfirmed,
                 following, visible, sequence, request, mutation, selected>>

(* An automatic read that takes too long, or the end of the two minutes. *)
FollowEnds ==
  /\ mounted /\ generation = session /\ following # {}
  /\ \/ /\ \E c \in Reads : c.kind = "followed" /\ c.got.kind = "waiting"
        /\ following' = following \ {c.batch : c \in Reads}
        /\ request' = 0 /\ calls' = calls \ Reads
        /\ saved' = Persisted(snapshots, current, unconfirmed, session)
     \/ /\ Reads = {} /\ \E b \in following : following' = following \ {b}
        /\ UNCHANGED <<request, calls, saved>>
  /\ UNCHANGED <<serverVars, pageVars, current, snapshots, unconfirmed, visible,
                 sequence, mutation, selected>>

ConsoleNext ==
  \/ Mount \/ Unmount \/ EndSession
  \/ \E items \in SUBSET Records \ {{}} : Preview(items)
  \/ Confirm \/ RetrySubmission \/ CloseList
  \/ \E source \in {"refreshed", "followed"} : Refresh(source)
  \/ RefreshAnswered \/ RefreshUnauthorized \/ FollowEnds
  \/ \E c \in calls :
       \/ GrantPreview(c) \/ AcceptExecute(c) \/ AnswerRead(c) \/ Refused(c) \/ Lost(c)
       \/ PreviewAnswered(c) \/ ExecuteAnswered(c)
  \/ \E b \in Batches : BatchEnds(b) \/ Forgotten(b) \/ (\E r \in Records : ItemDone(b, r))

ConsoleSpec == ConsoleInit /\ [][ConsoleNext]_consoleVars

-----------------------------------------------------------------------------
(* What the list knows, on screen or in the map it is mounted from. *)
Known == IF mounted /\ generation = session THEN snapshots ELSE saved.results
Open == IF mounted /\ generation = session
        THEN IF unconfirmed THEN current ELSE 0
        ELSE saved.unconfirmed

(* No batch the service has accepted in this session is forgotten: the list
   shows it as started, or as the one submission that is unconfirmed.  Apart
   from a batch whose submission was overtaken on the network by the read that
   asked for it (Operations.tsx, execute and refresh). *)
SubmissionsAreKept ==
  \A b \in Batches :
    batch[b].status \in {"running", "finished"} /\ batch[b].session = session
      /\ ~batch[b].overtaken =>
      /\ FoundRow(Known, b)
      /\ Open = b \/ Known[ConsoleAt(Known, b)].status # "preview"

(* What is kept for the next mount belongs to the session that will see it,
   also when an answer arrives between the reset and the unmount. *)
SessionsAreSeparate ==
  \A i \in DOMAIN saved.results : batch[saved.results[i].id].session = session

BatchesAreKept == SubmissionsAreKept /\ SessionsAreSeparate

(* Reading the progress of batches unselects a record only when the newest
   batch that names it is done with it: what failed stays selected for the
   operator to repeat (reportRefreshed and the list's callback). *)
FailedStaySelected ==
  [][\A r \in selected \ selected' :
       RefreshAnswered /\ ~unconfirmed =>
         LET last == Max({i \in DOMAIN snapshots' : r \in snapshots'[i].items}) IN
         r \in snapshots'[last].done]_consoleVars

(* A service that no longer has the preview answers "preview the operation
   again" (operationRoutes.ts:70), and the list lets the operator do so: it
   refuses other requests only while one of its own is on the network. *)
PreviewAgainIsPossible ==
  mounted /\ generation = session /\ request # 0 => \E c \in calls : c.seq = request
=============================================================================

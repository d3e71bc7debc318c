----------------------------- MODULE LoginTasks -----------------------------
(***************************************************************************)
(* The authorization of a Copilot account: the Proxy switches the account  *)
(* to a new attempt and submits it to Login; Login queues a task, drives a *)
(* browser, and writes the token back or reports the failure.  The account *)
(* row of the Proxy is the only fence between attempts.                    *)
(*                                                                         *)
(* Login's queue, runner, retry and cancellation are cut where they await. *)
(* Its rows are in SQLite; queue, runs, retries and cancellations are lost *)
(* by a crash.  HTTP calls time out at their client while the server may   *)
(* still execute them.                                                     *)
(***************************************************************************)
EXTENDS Integers, Sequences, FiniteSets, SequencesExt

CONSTANTS
  Accounts,       \* identities
  Tasks,          \* ids of login_tasks
  Attempts,       \* OAuth attempt ids (UUIDs)
  AccountOf,      \* the account each attempt id is drawn for
  Retriers,       \* concurrent retry calls at Login
  Concurrency,    \* loginRuntimeSettings.concurrency
  MaxCrashes,     \* bound: crashes of Login
  MaxLosses,      \* bound: calls whose answer, or which themselves, are lost
  NoTask, GoneTask, NoRow, NoRun, NoFinisher, NoRetry, NoSubmission, NoAttempt

ASSUME LoginAssumption ==
  /\ AccountOf \in [Attempts -> Accounts]
  /\ Concurrency \in Nat \ {0} /\ MaxCrashes \in Nat /\ MaxLosses \in Nat
  /\ NoAttempt \notin Attempts

VARIABLES
  oauth,        \* proxy_accounts: status, attempt and the attempt that stored the token
  task,         \* login_tasks
  attemptRow,   \* login_task_attempts
  pending,      \* LoginQueue.pending
  run,          \* active, controllers and completions: the runner of each task
  finisher,     \* cancelling and cancelled: finishCancellation of each task
  retry,        \* retryTask calls
  submission,   \* createLoginTask calls of the Proxy
  saveCall,     \* PUT copilot-oauth-token of each attempt, at the Proxy
  prepares,     \* POST prepare calls at the Proxy
  reports,      \* POST mark-copilot-oauth-failed calls on their way
  up, accepting, crashes, losses,
  stored,       \* history: attempts whose token the Proxy stored
  released      \* history: attempts the Proxy marked failed

loginVars == <<task, attemptRow, pending, run, finisher, retry>>
callVars == <<submission, saveCall, prepares, reports>>
envVars == <<up, accepting, crashes, losses>>
vars == <<oauth, loginVars, callVars, envVars, stored, released>>

Active == {"pending", "running", "cancelling"}
Finished == {"success", "failed", "cancelled"}

OauthRow == [status: {"missing", "refreshing", "valid", "failed", "expired"},
             attempt: Attempts \cup {NoAttempt}, token: Attempts \cup {NoAttempt}]
TaskRow == [account: Accounts, status: Active \cup Finished, attempt: Attempts,
            stage: {"queued", "preparing", "run", "done", "deleting"}]
AttemptRow == [task: Tasks, status: Active \cup Finished]
Entry == [task: Tasks, attempt: Attempts]
Run == [attempt: Attempts, step: {"flow", "saving", "reporting"}, aborted: BOOLEAN]
Finisher == [attempt: Attempts, step: {"waiting", "reporting"}]
RetryCall == [task: Tasks, previous: Attempts, attempt: Attempts \cup {NoAttempt},
              step: {"asked", "prepare", "prepared", "refused", "release"}]
Prepare == [attempt: Attempts, previous: Attempts, checked: BOOLEAN]
Submission == [net: {"sent", "accepted", "rejected", "dead"},
               client: {"waiting", "lookup", "rollback", "done"}]

ASSUME AbsenceAssumption ==
  /\ NoTask \notin TaskRow /\ GoneTask \notin TaskRow /\ GoneTask # NoTask /\ NoRow \notin AttemptRow
  /\ NoRun \notin Run /\ NoFinisher \notin Finisher
  /\ NoRetry \notin RetryCall /\ NoSubmission \notin Submission

(* Types of the rows of both services and of the calls between them. *)
TypeOK ==
  /\ oauth \in [Accounts -> OauthRow]
  /\ task \in [Tasks -> TaskRow \cup {NoTask, GoneTask}]
  /\ attemptRow \in [Attempts -> AttemptRow \cup {NoRow}]
  /\ pending \in Seq(Entry)
  /\ run \in [Tasks -> Run \cup {NoRun}]
  /\ finisher \in [Tasks -> Finisher \cup {NoFinisher}]
  /\ retry \in [Retriers -> RetryCall \cup {NoRetry}]
  /\ submission \in [Attempts -> Submission \cup {NoSubmission}]
  /\ saveCall \in [Attempts -> {"none", "sent", "verifying", "saved", "refused"}]
  /\ prepares \subseteq Prepare
  /\ reports \subseteq Attempts
  /\ up \in BOOLEAN /\ accepting \in BOOLEAN /\ crashes \in Nat /\ losses \in Nat
  /\ stored \subseteq Attempts /\ released \subseteq Attempts

Init ==
  /\ oauth = [a \in Accounts |-> [status |-> "missing", attempt |-> NoAttempt, token |-> NoAttempt]]
  /\ task = [t \in Tasks |-> NoTask]
  /\ attemptRow = [i \in Attempts |-> NoRow]
  /\ pending = <<>>
  /\ run = [t \in Tasks |-> NoRun]
  /\ finisher = [t \in Tasks |-> NoFinisher]
  /\ retry = [r \in Retriers |-> NoRetry]
  /\ submission = [i \in Attempts |-> NoSubmission]
  /\ saveCall = [i \in Attempts |-> "none"]
  /\ prepares = {} /\ reports = {}
  /\ up = TRUE /\ accepting = TRUE /\ crashes = 0 /\ losses = 0
  /\ stored = {} /\ released = {}

-----------------------------------------------------------------------------
(* The account row of the Proxy. *)

Current(i) == oauth[AccountOf[i]].attempt = i /\ oauth[AccountOf[i]].status = "refreshing"

(* beginCopilotOauthAuthorization: the old token stays until it is replaced. *)
Begun(i) == [oauth EXCEPT ![AccountOf[i]] =
  [status |-> "refreshing", attempt |-> i, token |-> oauth[AccountOf[i]].token]]

(* failCopilotOauthAuthorization *)
Fail(i) ==
  IF oauth[AccountOf[i]].attempt = i
  THEN /\ oauth' = [oauth EXCEPT ![AccountOf[i]] = [oauth[AccountOf[i]] EXCEPT !.status = "failed"]]
       /\ released' = released \cup {i}
  ELSE UNCHANGED <<oauth, released>>

Unused(i) ==
  /\ submission[i] = NoSubmission /\ attemptRow[i] = NoRow
  /\ \A p \in prepares : p.attempt # i
  /\ \A r \in Retriers : retry[r] # NoRetry => retry[r].attempt # i
  /\ i \notin stored \cup released \cup reports /\ saveCall[i] = "none"
  /\ oauth[AccountOf[i]].attempt # i

Lossy == losses < MaxLosses

-----------------------------------------------------------------------------
(* Rows of Login. *)

Exists(t) == task[t] \notin {NoTask, GoneTask}

HasActiveTask(a) == \E t \in Tasks : Exists(t) /\ task[t].account = a /\ task[t].status \in Active

(* finishAttempt: only the task's current attempt ends, and only once. *)
CanFinish(t, i) == Exists(t) /\ task[t].attempt = i /\ task[t].status \in Active

Closed(row, s) == [account |-> row.account, status |-> s, attempt |-> row.attempt, stage |-> "done"]

FinishedTask(t, i, s) ==
  IF CanFinish(t, i) THEN [task EXCEPT ![t] = Closed(task[t], s)] ELSE task

FinishedRow(t, i, s) ==
  IF CanFinish(t, i) THEN [attemptRow EXCEPT ![i] = [attemptRow[i] EXCEPT !.status = s]] ELSE attemptRow

(* insertTask, and insertNextAttempt for a retry: the task and its attempt. *)
NewTask(i) == [account |-> AccountOf[i], status |-> "pending", attempt |-> i, stage |-> "queued"]

NextAttempt(t, i) == [attemptRow EXCEPT ![i] = [task |-> t, status |-> "pending"]]

(* markRunning *)
Running(row) == [account |-> row.account, status |-> "running", attempt |-> row.attempt, stage |-> "run"]

(* deleteTask: the attempts go with their task. *)
Deleted(t) == [i \in Attempts |->
  IF attemptRow[i] # NoRow /\ attemptRow[i].task = t THEN NoRow ELSE attemptRow[i]]

(* releaseTaskDeletion; which earlier stage comes back makes no difference. *)
ClaimReleased(row) == IF row.stage = "deleting" THEN [row EXCEPT !.stage = "done"] ELSE row

(* listUnfinishedTasks *)
Unfinished == {t \in Tasks : Exists(t) /\ task[t].status \in Active}

(* closeInterruptedTasks: a pending cancel is honoured. *)
Interrupted(status) == IF status = "cancelling" THEN "cancelled" ELSE "failed"

Busy(t) == run[t] # NoRun \/ \E k \in DOMAIN pending : pending[k].task = t

(***************************************************************************)
(* drain(): takes entries off the queue q while slots are free and starts  *)
(* the ones that are still pending; start() runs up to the device flow     *)
(* without awaiting, markRunning included.                                 *)
(***************************************************************************)
Drain(q, rs, ts, as) ==
  LET free == Concurrency - Cardinality({t \in Tasks : rs[t] # NoRun})
      runnable(k) == /\ ts[q[k].task] \notin {NoTask, GoneTask}
                     /\ ts[q[k].task].attempt = q[k].attempt
                     /\ ts[q[k].task].status = "pending"
      starts(n) == {k \in 1..n : runnable(k)}
  IN \E n \in 0..Len(q) :
       /\ IF accepting /\ free > 0
          THEN \/ n = Len(q) /\ Cardinality(starts(n)) < free
               \/ n \in starts(n) /\ Cardinality(starts(n)) = free
          ELSE n = 0
       /\ LET started == {q[k].task : k \in starts(n)} IN
            /\ pending' = SubSeq(q, n + 1, Len(q))
            /\ run' = [t \in Tasks |-> IF t \in started
                        THEN [attempt |-> ts[t].attempt, step |-> "flow", aborted |-> FALSE] ELSE rs[t]]
            /\ task' = [t \in Tasks |-> IF t \in started THEN Running(ts[t]) ELSE ts[t]]
            /\ attemptRow' = [i \in Attempts |->
                 IF \E t \in started : ts[t].attempt = i
                 THEN [as[i] EXCEPT !.status = "running"] ELSE as[i]]

-----------------------------------------------------------------------------
(* Submission by the Proxy. *)

(* triggerOauthRefresh: a forced begin, then POST /tasks. *)
Reauthorize(i) ==
  /\ Unused(i)
  /\ oauth' = Begun(i)
  /\ submission' = [submission EXCEPT ![i] = [net |-> "sent", client |-> "waiting"]]
  /\ UNCHANGED <<loginVars, saveCall, prepares, reports, envVars, stored, released>>

(* POST /tasks at Login: enqueue(), or task_already_active. *)
Enqueue(i) ==
  /\ up
  /\ submission[i] # NoSubmission
  /\ submission[i].net = "sent"
  /\ \/ /\ HasActiveTask(AccountOf[i])
        /\ submission' = [submission EXCEPT ![i] = [submission[i] EXCEPT !.net = "rejected"]]
        /\ UNCHANGED <<task, attemptRow, pending, run>>
     \/ /\ ~HasActiveTask(AccountOf[i])
        /\ submission' = [submission EXCEPT ![i] = [submission[i] EXCEPT !.net = "accepted"]]
        /\ \E t \in Tasks :
             /\ task[t] = NoTask
             /\ Drain(Append(pending, [task |-> t, attempt |-> i]), run,
                      [task EXCEPT ![t] = NewTask(i)], NextAttempt(t, i))
  /\ UNCHANGED <<oauth, finisher, retry, saveCall, prepares, reports, envVars, stored, released>>

(* The submission never reaches Login. *)
DropSubmission(i) ==
  /\ Lossy
  /\ submission[i] # NoSubmission
  /\ submission[i].net = "sent"
  /\ submission' = [submission EXCEPT ![i] = [submission[i] EXCEPT !.net = "dead"]]
  /\ losses' = losses + 1
  /\ UNCHANGED <<oauth, loginVars, saveCall, prepares, reports, up, accepting, crashes, stored, released>>

(* createLoginTask: an answer, or a time-out followed by a lookup of the
   attempt; a refusal or a failed lookup rolls the attempt back. *)
SubmissionAnswered(i) ==
  /\ submission[i] # NoSubmission
  /\ \/ /\ submission[i].client = "waiting" /\ submission[i].net = "accepted"
        /\ submission' = [submission EXCEPT ![i] = [submission[i] EXCEPT !.client = "done"]]
        /\ UNCHANGED <<oauth, released, losses>>
     \/ /\ submission[i].client = "waiting" /\ submission[i].net = "rejected"
        /\ submission' = [submission EXCEPT ![i] = [submission[i] EXCEPT !.client = "rollback"]]
        /\ UNCHANGED <<oauth, released, losses>>
     \/ /\ submission[i].client = "waiting"
        /\ Lossy \/ submission[i].net = "dead"
        /\ losses' = IF submission[i].net = "dead" THEN losses ELSE losses + 1
        /\ submission' = [submission EXCEPT ![i] = [submission[i] EXCEPT !.client = "lookup"]]
        /\ UNCHANGED <<oauth, released>>
     \/ /\ submission[i].client = "lookup"
        /\ submission' = [submission EXCEPT ![i] = [submission[i] EXCEPT !.client =
                            IF up /\ attemptRow[i] # NoRow THEN "done" ELSE "rollback"]]
        /\ UNCHANGED <<oauth, released, losses>>
     \/ /\ submission[i].client = "rollback"
        /\ Fail(i)
        /\ submission' = [submission EXCEPT ![i] = [submission[i] EXCEPT !.client = "done"]]
        /\ UNCHANGED losses
  /\ UNCHANGED <<loginVars, saveCall, prepares, reports, up, accepting, crashes, stored>>

-----------------------------------------------------------------------------
(* The runner of a task. *)

FlowSucceeds(t) ==
  /\ run[t] # NoRun
  /\ run[t].step = "flow" /\ ~run[t].aborted
  /\ run' = [run EXCEPT ![t] = [run[t] EXCEPT !.step = "saving"]]
  /\ saveCall' = [saveCall EXCEPT ![run[t].attempt] = "sent"]
  /\ UNCHANGED <<oauth, task, attemptRow, pending, finisher, retry, submission, prepares, reports,
                 envVars, stored, released>>

(* A failed run closes its task before it reports the attempt to the Proxy. *)
FailRun(t) ==
  /\ task' = FinishedTask(t, run[t].attempt, "failed")
  /\ attemptRow' = FinishedRow(t, run[t].attempt, "failed")
  /\ run' = [run EXCEPT ![t] = [run[t] EXCEPT !.step = "reporting"]]
  /\ reports' = reports \cup {run[t].attempt}
  /\ UNCHANGED pending

(* The finally block: the slot is released and the queue drained. *)
EndRun(t, ts, as) == Drain(pending, [run EXCEPT ![t] = NoRun], ts, as)

FlowFails(t) ==
  /\ run[t] # NoRun
  /\ run[t].step = "flow"
  /\ IF run[t].aborted THEN EndRun(t, task, attemptRow) /\ UNCHANGED reports ELSE FailRun(t)
  /\ UNCHANGED <<oauth, finisher, retry, submission, saveCall, prepares, envVars, stored, released>>

(* Mutant: the task succeeds as soon as the token is on its way. *)
SaveAssumed(t) ==
  /\ run[t] # NoRun
  /\ run[t].step = "saving"
  /\ EndRun(t, FinishedTask(t, run[t].attempt, "success"), FinishedRow(t, run[t].attempt, "success"))
  /\ UNCHANGED <<oauth, finisher, retry, callVars, envVars, stored, released>>

(* The token was stored: success stands even if a cancel came meanwhile. *)
SaveSucceeds(t) ==
  /\ run[t] # NoRun
  /\ run[t].step = "saving" /\ saveCall[run[t].attempt] = "saved"
  /\ EndRun(t, FinishedTask(t, run[t].attempt, "success"), FinishedRow(t, run[t].attempt, "success"))
  /\ UNCHANGED <<oauth, finisher, retry, callVars, envVars, stored, released>>

(* Refused, or no answer in time: the outcome at the Proxy is unknown. *)
SaveFails(t) ==
  /\ run[t] # NoRun
  /\ run[t].step = "saving"
  /\ saveCall[run[t].attempt] = "refused" \/ Lossy
  /\ losses' = IF saveCall[run[t].attempt] = "refused" THEN losses ELSE losses + 1
  /\ IF run[t].aborted THEN EndRun(t, task, attemptRow) /\ UNCHANGED reports ELSE FailRun(t)
  /\ UNCHANGED <<oauth, finisher, retry, submission, saveCall, prepares, up, accepting, crashes,
                 stored, released>>

ReportEnds(t) ==
  /\ run[t] # NoRun
  /\ run[t].step = "reporting"
  /\ EndRun(t, task, attemptRow)
  /\ UNCHANGED <<oauth, finisher, retry, callVars, envVars, stored, released>>

-----------------------------------------------------------------------------
(* Cancellation. *)

(* requestCancellation on both rows. *)
CancellingRow(t) ==
  IF task[t].status \in Active
  THEN [attemptRow EXCEPT ![task[t].attempt] = [attemptRow[task[t].attempt] EXCEPT !.status = "cancelling"]]
  ELSE attemptRow

(* The waiting entry goes (findIndex and splice), the run's signal is aborted. *)
WithoutEntry(t) ==
  LET own == {k \in DOMAIN pending : pending[k].task = t} IN
    \/ own = {} /\ UNCHANGED pending
    \/ \E k \in own : (\A j \in own : k <= j) /\ pending' = RemoveAt(pending, k)

StopWork(t) ==
  IF task[t].status \in Active
  THEN /\ task' = [task EXCEPT ![t] = [task[t] EXCEPT !.status = "cancelling"]]
       /\ WithoutEntry(t)
       /\ run' = IF run[t] # NoRun THEN [run EXCEPT ![t] = [run[t] EXCEPT !.aborted = TRUE]] ELSE run
  ELSE UNCHANGED <<task, pending, run>>

(* One finishCancellation per task. *)
Finishing(t) ==
  IF task[t].status \in Active /\ finisher[t] = NoFinisher
  THEN [finisher EXCEPT ![t] = [attempt |-> task[t].attempt, step |-> "waiting"]]
  ELSE finisher

(* Mutant: a task without a run is left to itself. *)

CancelRunOnly(t) ==
  /\ StopWork(t)
  /\ attemptRow' = CancellingRow(t)
  /\ finisher' = IF run[t] = NoRun THEN finisher ELSE Finishing(t)

(* requestCancellation and the synchronous part of cancel(), whose return
   value retryTask passes on. *)
CancelTask(t) == StopWork(t) /\ attemptRow' = CancellingRow(t) /\ finisher' = Finishing(t)

Cancel(t) ==
  /\ up
  /\ Exists(t) /\ task[t].status \in {"pending", "running"}
  /\ CancelTask(t)
  /\ UNCHANGED <<oauth, retry, callVars, envVars, stored, released>>

(* Mutant: nobody waits for the run to end. *)
FinishCancellationAtOnce(t) ==
  /\ finisher[t] # NoFinisher
  /\ LET i == finisher[t].attempt IN
       \/ /\ finisher[t].step = "waiting"
          /\ task' = FinishedTask(t, i, "cancelled")
          /\ attemptRow' = FinishedRow(t, i, "cancelled")
          /\ finisher' = [finisher EXCEPT ![t] = [finisher[t] EXCEPT !.step = "reporting"]]
          /\ reports' = reports \cup {i}
       \/ /\ finisher[t].step = "reporting"
          /\ finisher' = [finisher EXCEPT ![t] = NoFinisher]
          /\ UNCHANGED <<task, attemptRow, reports>>
  /\ UNCHANGED <<oauth, pending, run, retry, submission, saveCall, prepares, envVars, stored, released>>

(* finishCancellation: after the run has ended the task is closed, unless
   it succeeded in that window, and the Proxy is told. *)
FinishCancellation(t) ==
  /\ finisher[t] # NoFinisher
  /\ LET i == finisher[t].attempt
         open == Exists(t) /\ task[t].status = "cancelling" /\ task[t].attempt = i IN
       \/ /\ finisher[t].step = "waiting" /\ run[t] = NoRun
          /\ task' = IF open THEN FinishedTask(t, i, "cancelled") ELSE task
          /\ attemptRow' = IF open THEN FinishedRow(t, i, "cancelled") ELSE attemptRow
          /\ finisher' = [finisher EXCEPT ![t] = IF open THEN [attempt |-> i, step |-> "reporting"] ELSE NoFinisher]
          /\ reports' = IF open THEN reports \cup {i} ELSE reports
       \/ /\ finisher[t].step = "reporting"
          /\ finisher' = [finisher EXCEPT ![t] = NoFinisher]
          /\ UNCHANGED <<task, attemptRow, reports>>
  /\ UNCHANGED <<oauth, pending, run, retry, submission, saveCall, prepares, envVars, stored, released>>

-----------------------------------------------------------------------------
(* Retry. *)

(* The task is read, and the pool asked, before the retry is reserved. *)
RetryAsks(r, t) ==
  /\ up
  /\ retry[r] = NoRetry
  /\ Exists(t) /\ ~Busy(t)
  /\ retry' = [retry EXCEPT ![r] = [task |-> t, previous |-> task[t].attempt,
                                    attempt |-> NoAttempt, step |-> "asked"]]
  /\ UNCHANGED <<oauth, task, attemptRow, pending, run, finisher, callVars, envVars, stored, released>>

CanReserve(t, previous) ==
  /\ Exists(t) /\ ~HasActiveTask(task[t].account)
  /\ task[t].status = "failed" /\ task[t].attempt = previous /\ task[t].stage # "deleting"

(* reserveRetry under a new attempt id, then POST prepare. *)
RetryReserves(r, i) ==
  /\ retry[r] # NoRetry
  /\ retry[r].step = "asked"
  /\ LET t == retry[r].task IN
       \/ /\ CanReserve(t, retry[r].previous)
          /\ Unused(i) /\ AccountOf[i] = task[t].account
          /\ task' = [task EXCEPT ![t] = [account |-> task[t].account, status |-> "pending",
                                           attempt |-> i, stage |-> "preparing"]]
          /\ attemptRow' = NextAttempt(t, i)
          /\ prepares' = prepares \cup {[attempt |-> i, previous |-> retry[r].previous, checked |-> FALSE]}
          /\ retry' = [retry EXCEPT ![r] = [task |-> t, previous |-> retry[r].previous,
                                            attempt |-> i, step |-> "prepare"]]
       \/ /\ ~CanReserve(t, retry[r].previous)
          /\ retry' = [retry EXCEPT ![r] = NoRetry]
          /\ UNCHANGED <<task, attemptRow, prepares>>
  /\ UNCHANGED <<oauth, pending, run, finisher, submission, saveCall, reports, envVars, stored, released>>

(* Mutant: an attempt whose task was closed meanwhile is left to the Proxy. *)
RetryForgets(r) ==
  /\ retry[r] # NoRetry
  /\ retry[r].step = "prepared"
  /\ LET t == retry[r].task  i == retry[r].attempt
         mine == Exists(t) /\ task[t].attempt = i IN
       /\ retry' = [retry EXCEPT ![r] = NoRetry]
       /\ IF mine /\ task[t].status = "pending" /\ ~Busy(t)
          THEN /\ Drain(Append(pending, [task |-> t, attempt |-> i]), run,
                        [task EXCEPT ![t] = [task[t] EXCEPT !.stage = "queued"]], attemptRow)
               /\ UNCHANGED finisher
          ELSE IF Exists(t) /\ task[t].status = "cancelling" THEN CancelTask(t)
          ELSE UNCHANGED <<task, attemptRow, pending, run, finisher>>
  /\ UNCHANGED <<oauth, callVars, envVars, stored, released>>

(* The Proxy switched to the new attempt; the task may have been cancelled
   while it did, and then the attempt is released again. *)
RetryPrepared(r) ==
  /\ retry[r] # NoRetry
  /\ retry[r].step = "prepared"
  /\ LET t == retry[r].task  i == retry[r].attempt
         mine == Exists(t) /\ task[t].attempt = i IN
       \/ /\ Exists(t) /\ task[t].status = "cancelling"
          /\ CancelTask(t)
          /\ retry' = [retry EXCEPT ![r] = NoRetry]
          /\ UNCHANGED reports
       \/ /\ mine /\ task[t].status = "pending"
          /\ IF Busy(t) THEN UNCHANGED <<task, attemptRow, pending, run>>
             ELSE Drain(Append(pending, [task |-> t, attempt |-> i]), run,
                        [task EXCEPT ![t] = [task[t] EXCEPT !.stage = "queued"]], attemptRow)
          /\ retry' = [retry EXCEPT ![r] = NoRetry]
          /\ UNCHANGED <<finisher, reports>>
       \/ /\ ~(Exists(t) /\ task[t].status = "cancelling") /\ ~(mine /\ task[t].status = "pending")
          /\ reports' = reports \cup {i}
          /\ retry' = [retry EXCEPT ![r] = [retry[r] EXCEPT !.step = "release"]]
          /\ UNCHANGED <<task, attemptRow, pending, run, finisher>>
  /\ UNCHANGED <<oauth, submission, saveCall, prepares, envVars, stored, released>>

(* The Proxy refused, or did not answer in time. *)
RetryFails(r) ==
  /\ retry[r] # NoRetry
  /\ \/ retry[r].step = "refused" /\ UNCHANGED losses
     \/ retry[r].step \in {"prepare", "prepared"} /\ Lossy /\ losses' = losses + 1
  /\ LET t == retry[r].task  i == retry[r].attempt IN
       \/ /\ Exists(t) /\ task[t].status = "cancelling"
          /\ CancelTask(t)
          /\ retry' = [retry EXCEPT ![r] = NoRetry]
          /\ UNCHANGED reports
       \/ /\ Exists(t) /\ task[t].status = "cancelled"
          /\ retry' = [retry EXCEPT ![r] = NoRetry]
          /\ UNCHANGED <<task, attemptRow, pending, run, finisher, reports>>
       \/ /\ ~(Exists(t) /\ task[t].status \in {"cancelling", "cancelled"})
          /\ task' = FinishedTask(t, i, "failed")
          /\ attemptRow' = FinishedRow(t, i, "failed")
          /\ reports' = reports \cup {i}
          /\ retry' = [retry EXCEPT ![r] = [retry[r] EXCEPT !.step = "release"]]
          /\ UNCHANGED <<pending, run, finisher>>
  /\ UNCHANGED <<oauth, submission, saveCall, prepares, up, accepting, crashes, stored, released>>

RetryReleased(r) ==
  /\ retry[r] # NoRetry
  /\ retry[r].step = "release"
  /\ retry' = [retry EXCEPT ![r] = NoRetry]
  /\ UNCHANGED <<oauth, task, attemptRow, pending, run, finisher, callVars, envVars, stored, released>>

-----------------------------------------------------------------------------
(* deleteLoginTask: the row is claimed, its logs removed, then the row and
   its attempts, or the claim is given back. *)

ClaimDeletion(t) ==
  /\ up
  /\ Exists(t) /\ task[t].status \in Finished /\ task[t].stage # "deleting"
  /\ task' = [task EXCEPT ![t] = [task[t] EXCEPT !.stage = "deleting"]]
  /\ UNCHANGED <<oauth, attemptRow, pending, run, finisher, retry, callVars, envVars, stored, released>>

EndDeletion(t) ==
  /\ up
  /\ Exists(t) /\ task[t].stage = "deleting"
  /\ \/ /\ task' = [task EXCEPT ![t] = GoneTask]
        /\ attemptRow' = Deleted(t)
     \/ /\ task' = [task EXCEPT ![t] = ClaimReleased(task[t])]
        /\ UNCHANGED attemptRow
  /\ UNCHANGED <<oauth, pending, run, finisher, retry, callVars, envVars, stored, released>>

-----------------------------------------------------------------------------
(* Shutdown, crash and recovery of Login. *)

StopAccepting ==
  /\ up /\ accepting /\ crashes < MaxCrashes
  /\ accepting' = FALSE
  /\ UNCHANGED <<oauth, loginVars, callVars, up, crashes, losses, stored, released>>

Crash ==
  /\ up /\ crashes < MaxCrashes
  /\ up' = FALSE
  /\ crashes' = crashes + 1
  /\ pending' = <<>>
  /\ run' = [t \in Tasks |-> NoRun]
  /\ finisher' = [t \in Tasks |-> NoFinisher]
  /\ retry' = [r \in Retriers |-> NoRetry]
  /\ UNCHANGED <<oauth, task, attemptRow, callVars, accepting, losses, stored, released>>

(* recoverLoginOutcomes: nothing is replayed. *)
Recover ==
  /\ ~up
  /\ up' = TRUE /\ accepting' = TRUE
  /\ task' = [t \in Tasks |->
       IF t \in Unfinished THEN Closed(task[t], Interrupted(task[t].status))
       ELSE IF Exists(t) THEN ClaimReleased(task[t]) ELSE task[t]]
  /\ attemptRow' = [i \in Attempts |->
       IF \E t \in Unfinished : task[t].attempt = i
       THEN [attemptRow[i] EXCEPT !.status = Interrupted(attemptRow[i].status)]
       ELSE attemptRow[i]]
  /\ reports' = reports \cup {task[t].attempt : t \in Unfinished}
  /\ UNCHANGED <<oauth, pending, run, finisher, retry, submission, saveCall, prepares, crashes,
                 losses, stored, released>>

-----------------------------------------------------------------------------
(* Callbacks at the Proxy. *)

(* saveToken checks the attempt, awaits GitHub's answer about the token's
   owner, and only then stores it. *)
SaveChecked(i) ==
  /\ saveCall[i] = "sent"
  /\ saveCall' = [saveCall EXCEPT ![i] = IF Current(i) THEN "verifying" ELSE "refused"]
  /\ UNCHANGED <<oauth, loginVars, submission, prepares, reports, envVars, stored, released>>

(* Mutant: the attempt alone decides. *)
SaveTokenOfAttempt(i) ==
  /\ saveCall[i] = "verifying"
  /\ IF oauth[AccountOf[i]].attempt = i
     THEN /\ oauth' = [oauth EXCEPT ![AccountOf[i]] = [status |-> "valid", attempt |-> NoAttempt, token |-> i]]
          /\ saveCall' = [saveCall EXCEPT ![i] = "saved"]
          /\ stored' = stored \cup {i}
     ELSE /\ saveCall' = [saveCall EXCEPT ![i] = "refused"]
          /\ UNCHANGED <<oauth, stored>>
  /\ UNCHANGED <<loginVars, submission, prepares, reports, envVars, released>>

SaveToken(i) ==
  /\ saveCall[i] = "verifying"
  /\ IF Current(i)
     THEN /\ oauth' = [oauth EXCEPT ![AccountOf[i]] = [status |-> "valid", attempt |-> NoAttempt, token |-> i]]
          /\ saveCall' = [saveCall EXCEPT ![i] = "saved"]
          /\ stored' = stored \cup {i}
     ELSE /\ saveCall' = [saveCall EXCEPT ![i] = "refused"]
          /\ UNCHANGED <<oauth, stored>>
  /\ UNCHANGED <<loginVars, submission, prepares, reports, envVars, released>>

(* sendSubjectFailure: another user's token fails the attempt, an
   unreachable GitHub only the call. *)
SubjectFails(i) ==
  /\ saveCall[i] = "verifying"
  /\ saveCall' = [saveCall EXCEPT ![i] = "refused"]
  /\ Fail(i) \/ UNCHANGED <<oauth, released>>
  /\ UNCHANGED <<loginVars, submission, prepares, reports, envVars, stored>>

MarkFailed(i) ==
  /\ i \in reports
  /\ reports' = reports \ {i}
  /\ Fail(i)
  /\ UNCHANGED <<loginVars, submission, saveCall, prepares, envVars, stored>>

DropReport(i) ==
  /\ Lossy
  /\ i \in reports
  /\ reports' = reports \ {i}
  /\ losses' = losses + 1
  /\ UNCHANGED <<oauth, loginVars, submission, saveCall, prepares, up, accepting, crashes, stored, released>>

Answered(i, step) == [r \in Retriers |->
  IF retry[r] # NoRetry /\ retry[r].attempt = i /\ retry[r].step = "prepare"
  THEN [retry[r] EXCEPT !.step = step] ELSE retry[r]]

(* prepareLoginAuthorization without force: checked, the password resolved,
   then a compare-and-set on the previous attempt. *)
PrepareAttempt(p) ==
  /\ p \in prepares
  /\ \/ /\ ~p.checked
        /\ IF /\ oauth[AccountOf[p.attempt]].status # "valid"
              /\ oauth[AccountOf[p.attempt]].attempt = p.previous
           THEN prepares' = (prepares \ {p}) \cup {[p EXCEPT !.checked = TRUE]} /\ UNCHANGED retry
           ELSE prepares' = prepares \ {p} /\ retry' = Answered(p.attempt, "refused")
        /\ UNCHANGED oauth
     \/ /\ p.checked
        /\ prepares' = prepares \ {p}
        /\ IF oauth[AccountOf[p.attempt]].attempt = p.previous
           THEN oauth' = Begun(p.attempt) /\ retry' = Answered(p.attempt, "prepared")
           ELSE UNCHANGED oauth /\ retry' = Answered(p.attempt, "refused")
  /\ UNCHANGED <<task, attemptRow, pending, run, finisher, submission, saveCall, reports, envVars,
                 stored, released>>

(* invalidateCopilotOauthToken after an upstream 401 *)
Invalidate(a) ==
  /\ oauth[a].status = "valid"
  /\ oauth' = [oauth EXCEPT ![a] = [status |-> "expired", attempt |-> NoAttempt, token |-> NoAttempt]]
  /\ UNCHANGED <<loginVars, callVars, envVars, stored, released>>

-----------------------------------------------------------------------------
RunNext(t) ==
  FlowSucceeds(t) \/ FlowFails(t) \/ SaveSucceeds(t) \/ SaveFails(t) \/ ReportEnds(t)

RetryNext(r) == RetryPrepared(r) \/ RetryFails(r) \/ RetryReleased(r)

Next ==
  \/ \E i \in Attempts :
       \/ Reauthorize(i) \/ Enqueue(i) \/ DropSubmission(i) \/ SubmissionAnswered(i)
       \/ SaveChecked(i) \/ SaveToken(i) \/ SubjectFails(i) \/ MarkFailed(i) \/ DropReport(i)
  \/ \E t \in Tasks : \/ RunNext(t) \/ Cancel(t) \/ FinishCancellation(t)
                      \/ ClaimDeletion(t) \/ EndDeletion(t)
  \/ \E r \in Retriers : \/ RetryNext(r)
                         \/ \E t \in Tasks : RetryAsks(r, t)
                         \/ \E i \in Attempts : RetryReserves(r, i)
  \/ \E p \in prepares : PrepareAttempt(p)
  \/ \E a \in Accounts : Invalidate(a)
  \/ StopAccepting \/ Crash \/ Recover

Spec == Init /\ [][Next]_vars

(***************************************************************************)
(* What is awaited returns: runs end (device flow, HTTP calls and browser  *)
(* have time-outs), the Proxy answers its calls, cancellations go on, and  *)
(* a dead Login is restarted.  Nothing is assumed of operators.            *)
(***************************************************************************)
Fairness ==
  /\ \A t \in Tasks : WF_vars(RunNext(t)) /\ WF_vars(FinishCancellation(t))
  /\ \A i \in Attempts : WF_vars(SaveChecked(i)) /\ WF_vars(SaveToken(i) \/ SubjectFails(i))
  /\ WF_vars(Recover)

FairSpec == Spec /\ Fairness

-----------------------------------------------------------------------------
(* A Login attempt that ends as success has its token stored at the Proxy:
   the runner marks success only after saveCopilotOauthToken returned. *)
SuccessMeansStored ==
  \A i \in Attempts : attemptRow[i] # NoRow /\ attemptRow[i].status = "success" => i \in stored

(* "cancel wins" (sqliteStorage.ts): once the Proxy has marked an attempt
   failed, the token of a callback that was already verifying is refused. *)
CancelWins == [][\A i \in released : i \in stored' => i \in stored]_vars

(* At most one browser works on an account (hasActiveTask): a second login of
   the same user would disturb the first one. *)
OneBrowserPerAccount ==
  \A t, u \in Tasks :
    /\ run[t] # NoRun /\ run[t].step # "reporting"
    /\ run[u] # NoRun /\ run[u].step # "reporting"
    /\ AccountOf[run[t].attempt] = AccountOf[run[u].attempt]
    => t = u

(* The history agrees with the task: its current attempt has its status,
   and every earlier attempt is finished. *)
HistoryAgrees ==
  \A i \in Attempts : attemptRow[i] # NoRow =>
    LET t == attemptRow[i].task IN
      /\ Exists(t)
      /\ IF task[t].attempt = i THEN attemptRow[i].status = task[t].status
         ELSE attemptRow[i].status \in Finished

(* While Login is up a queued task is not forgotten: the queue holds an
   entry of its current attempt. *)
QueuedIsQueued ==
  up => \A t \in Tasks : Exists(t) /\ task[t].status = "pending" /\ task[t].stage = "queued" =>
    \E k \in DOMAIN pending : pending[k] = [task |-> t, attempt |-> task[t].attempt]

(* Login's rows, its queue and the Proxy's token agree. *)
QueueIsSound == SuccessMeansStored /\ HistoryAgrees /\ QueuedIsQueued

(* A retry is reserved only once the previous attempt has released its slot
   (retry.ts: "Wait for its queue slot to be released before retrying."): while
   the slot is held the queue drops the retry, whose task then stays pending. *)
RetryWaitsForSlot ==
  \A t \in Tasks : Exists(t) /\ task[t].status = "pending" /\ task[t].stage = "preparing" => run[t] = NoRun

(* Somebody still works on, or reports, the attempt an account waits for. *)
Attended(i) ==
  \/ submission[i] # NoSubmission /\ submission[i].client \in {"waiting", "lookup", "rollback"}
  \/ submission[i] # NoSubmission /\ submission[i].net = "sent"
  \/ attemptRow[i] # NoRow /\ attemptRow[i].status \in Active
  \/ saveCall[i] \in {"sent", "verifying"}
  \/ i \in reports
  \/ \E p \in prepares : p.attempt = i
  \/ \E r \in Retriers : retry[r] # NoRetry /\ retry[r].attempt = i

(* An account does not stay "refreshing" on an attempt nobody works on
   (retry.ts, queue.ts, recovery.ts), as long as no call is lost. *)
RefreshingIsAttended ==
  \A a \in Accounts : oauth[a].status = "refreshing" => Attended(oauth[a].attempt)

(* A cancelled task is closed: cancelling ends, whatever the run was doing. *)
CancellationEnds ==
  \A t \in Tasks : (Exists(t) /\ task[t].status = "cancelling")
                     ~> (Exists(t) => task[t].status # "cancelling")
=============================================================================

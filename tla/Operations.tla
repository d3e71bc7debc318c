----------------------------- MODULE Operations -----------------------------
(***************************************************************************)
(* A batch operation of the console: a preview freezes the targets, one    *)
(* confirmation runs them with several workers, and items that started a   *)
(* job are polled until it ends.  The state is in memory; every await is a *)
(* step, and other users change the records meanwhile.                     *)
(***************************************************************************)
EXTENDS Integers, FiniteSets

CONSTANTS
  N,                  \* selected records, in order
  KeyOf,              \* dedupeKey: the account of each record
  Workers,            \* concurrency of the operation
  MaxRefreshFailures, \* MAX_REFRESH_FAILURES
  MaxChanges          \* bound: changes of a record by others

ASSUME OperationsAssumption ==
  /\ N \in Nat \ {0} /\ DOMAIN KeyOf = 1..N
  /\ MaxRefreshFailures \in Nat \ {0} /\ MaxChanges \in Nat /\ Workers # {}

Items == 1..N

VARIABLES
  op,         \* status of the operation
  item,       \* status of each item
  revision,   \* revision frozen by the preview
  previewed,  \* items the preview has looked at
  next,       \* nextIndex of run()
  worker,     \* the item each worker is at, and its phase
  opFailures,   \* consecutive refresh failures of each item
  record,     \* external: the records and their revisions
  opJob         \* external: what the submission of an item started

opVars == <<op, item, revision, previewed, next, worker, opFailures, record, opJob>>

NoWork == [index |-> 0, phase |-> "idle"]
OpSettled == {"skipped", "success", "failed", "interrupted"}

WorkerState == [index: 0..N, phase: {"idle", "check", "perform", "done"}]
RecordState == [exists: BOOLEAN, revision: 0..MaxChanges]

OpTypeOK ==
  /\ op \in {"previewing", "preview", "running", "awaiting", "completed", "gone"}
  /\ item \in [Items -> OpSettled \cup {"none", "pending", "running"}]
  /\ revision \in [Items -> 0..MaxChanges]
  /\ previewed \in 0..N /\ next \in 1..(N + 1)
  /\ worker \in [Workers -> WorkerState]
  /\ opFailures \in [Items -> 0..MaxRefreshFailures]
  /\ record \in [Items -> RecordState]
  /\ opJob \in [Items -> {"none", "live", "success", "failed"}]

OpInit ==
  /\ op = "previewing"
  /\ item = [i \in Items |-> "none"] /\ revision = [i \in Items |-> 0]
  /\ previewed = 0 /\ next = 1
  /\ worker = [w \in Workers |-> NoWork]
  /\ opFailures = [i \in Items |-> 0]
  /\ record = [i \in Items |-> [exists |-> TRUE, revision |-> 0]]
  /\ opJob = [i \in Items |-> "none"]

OpActive(k) == \E i \in Items : KeyOf[i] = k /\ opJob[i] = "live"

(* eligibility(): removed records and accounts with an active attempt. *)
Eligible(i) == record[i].exists /\ ~OpActive(KeyOf[i])

-----------------------------------------------------------------------------
(* Mutant: every eligible record is taken. *)
PreviewAll(i) ==
  /\ op = "previewing" /\ previewed = i - 1
  /\ item' = [item EXCEPT ![i] = IF Eligible(i) THEN "pending" ELSE "skipped"]
  /\ revision' = [revision EXCEPT ![i] = record[i].revision]
  /\ previewed' = i
  /\ op' = IF i = N THEN "preview" ELSE op
  /\ UNCHANGED <<next, worker, opFailures, record, opJob>>

(* preview(): one record after the other; the second record of an account
   is skipped. *)
PreviewItem(i) ==
  /\ op = "previewing" /\ previewed = i - 1
  /\ item' = [item EXCEPT ![i] =
       IF Eligible(i) /\ \A j \in 1..(i - 1) : item[j] = "pending" => KeyOf[j] # KeyOf[i]
       THEN "pending" ELSE "skipped"]
  /\ revision' = [revision EXCEPT ![i] = record[i].revision]
  /\ previewed' = i
  /\ op' = IF i = N THEN "preview" ELSE op
  /\ UNCHANGED <<next, worker, opFailures, record, opJob>>

(* execute(): a second confirmation finds the operation running. *)
Execute ==
  /\ op = "preview"
  /\ op' = "running"
  /\ UNCHANGED <<item, revision, previewed, next, worker, opFailures, record, opJob>>

(* A worker takes the next index and, if it is pending, its item. *)
Take(w) ==
  /\ op = "running" /\ worker[w].phase = "idle"
  /\ IF next > N
     THEN /\ worker' = [worker EXCEPT ![w] = [index |-> worker[w].index, phase |-> "done"]]
          /\ UNCHANGED <<item, next>>
     ELSE /\ next' = next + 1
          /\ IF item[next] = "pending"
             THEN /\ item' = [item EXCEPT ![next] = "running"]
                  /\ worker' = [worker EXCEPT ![w] = [index |-> next, phase |-> "check"]]
             ELSE UNCHANGED <<item, worker>>
  /\ UNCHANGED <<op, revision, previewed, opFailures, record, opJob>>

(* The record must still be eligible and unchanged. *)
Check(w) ==
  /\ worker[w].phase = "check"
  /\ LET i == worker[w].index IN
       IF Eligible(i) /\ record[i].revision = revision[i]
       THEN worker' = [worker EXCEPT ![w] = [index |-> worker[w].index, phase |-> "perform"]] /\ UNCHANGED item
       ELSE worker' = [worker EXCEPT ![w] = NoWork] /\ item' = [item EXCEPT ![i] = "skipped"]
  /\ UNCHANGED <<op, revision, previewed, next, opFailures, record, opJob>>

Submitted(w, started, status) ==
  LET i == worker[w].index IN
    /\ opJob' = IF started THEN [opJob EXCEPT ![i] = "live"] ELSE opJob
    /\ item' = [item EXCEPT ![i] = status]
    /\ worker' = [worker EXCEPT ![w] = NoWork]

(* perform(): the service starts a job, and the answer may be lost (failed,
   or interrupted when the error says unconfirmed); or it refuses, with a
   conflict (skipped) or an error. *)
Perform(w) ==
  /\ worker[w].phase = "perform"
  /\ LET open == ~OpActive(KeyOf[worker[w].index]) /\ record[worker[w].index].exists IN
       \/ open /\ \E s \in {"running", "failed", "interrupted"} : Submitted(w, TRUE, s)
       \/ ~open /\ Submitted(w, FALSE, "skipped")
       \/ Submitted(w, FALSE, "failed")
  /\ UNCHANGED <<op, revision, previewed, next, opFailures, record>>

(* Deletions and SSO operations have their effect before they answer. *)
PerformNow(w) ==
  /\ worker[w].phase = "perform"
  /\ LET i == worker[w].index IN
       /\ ~OpActive(KeyOf[i]) /\ record[i].exists
       /\ opJob' = [opJob EXCEPT ![i] = "success"]
       /\ \E s \in {"success", "failed"} : item' = [item EXCEPT ![i] = s]
       /\ worker' = [worker EXCEPT ![w] = NoWork]
  /\ UNCHANGED <<op, revision, previewed, next, opFailures, record>>

(* All workers have returned. *)
Collect ==
  /\ op = "running" /\ \A w \in Workers : worker[w].phase = "done"
  /\ op' = "awaiting"
  /\ UNCHANGED <<item, revision, previewed, next, worker, opFailures, record, opJob>>

(* One poll of an item: its job goes on or has ended. *)
RefreshJob(i) ==
  /\ op = "awaiting" /\ item[i] = "running"
  /\ item' = [item EXCEPT ![i] = IF opJob[i] = "live" THEN @ ELSE opJob[i]]
  /\ opFailures' = [opFailures EXCEPT ![i] = 0]
  /\ UNCHANGED <<op, revision, previewed, next, worker, record, opJob>>

(* An unreadable item is given up after MAX_REFRESH_FAILURES, a missing one
   at once. *)
RefreshFails(i) ==
  /\ op = "awaiting" /\ item[i] = "running"
  /\ opFailures' = [opFailures EXCEPT ![i] = @ + 1]
  /\ item' = [item EXCEPT ![i] = IF opFailures'[i] >= MaxRefreshFailures \/ ~record[i].exists
                                 THEN "interrupted" ELSE @]
  /\ UNCHANGED <<op, revision, previewed, next, worker, record, opJob>>

CompleteOperation ==
  /\ op = "awaiting" /\ \A i \in Items : item[i] # "running"
  /\ op' = "completed"
  /\ UNCHANGED <<item, revision, previewed, next, worker, opFailures, record, opJob>>

(* sweep(): previews and results expire, running operations never. *)
Sweep ==
  /\ op \in {"preview", "completed"}
  /\ op' = "gone"
  /\ UNCHANGED <<item, revision, previewed, next, worker, opFailures, record, opJob>>

-----------------------------------------------------------------------------
(* Others change or remove records; jobs end. *)
Change(i) ==
  /\ record[i].exists /\ record[i].revision < MaxChanges
  /\ \/ record' = [record EXCEPT ![i] = [exists |-> TRUE, revision |-> record[i].revision + 1]]
     \/ record' = [record EXCEPT ![i] = [exists |-> FALSE, revision |-> record[i].revision]]
  /\ UNCHANGED <<op, item, revision, previewed, next, worker, opFailures, opJob>>

JobEnds(i) ==
  /\ opJob[i] = "live"
  /\ \E s \in {"success", "failed"} : opJob' = [opJob EXCEPT ![i] = s]
  /\ UNCHANGED <<op, item, revision, previewed, next, worker, opFailures, record>>

OpNext ==
  \/ \E i \in Items : PreviewItem(i) \/ RefreshJob(i) \/ RefreshFails(i) \/ Change(i) \/ JobEnds(i)
  \/ \E w \in Workers : Take(w) \/ Check(w) \/ Perform(w) \/ PerformNow(w)
  \/ Execute \/ Collect \/ CompleteOperation \/ Sweep

OpSpec == OpInit /\ [][OpNext]_opVars

(* Awaited calls return, timers fire and jobs end; a service that does not
   answer is a refresh that fails, perhaps every time. *)
OpFairSpec ==
  /\ OpSpec
  /\ \A w \in Workers : WF_opVars(Take(w) \/ Check(w) \/ Perform(w) \/ PerformNow(w))
  /\ WF_opVars(Collect) /\ WF_opVars(CompleteOperation)
  /\ \A i \in Items : WF_opVars(JobEnds(i)) /\ WF_opVars(RefreshJob(i) \/ RefreshFails(i))

-----------------------------------------------------------------------------
(* However many workers run and however jobs end meanwhile, a batch starts at
   most one job per account: "Only one attempt per account will be
   submitted" (operationRoutes.ts:40). *)
OncePerAccount ==
  \A i, j \in Items : opJob[i] # "none" /\ opJob[j] # "none" /\ KeyOf[i] = KeyOf[j] => i = j

(* What is shown as skipped or not yet run had no effect: an operator may
   safely submit it again. *)
NoSilentEffect == \A i \in Items : item[i] \in {"none", "pending", "skipped"} => opJob[i] = "none"

(* A completed operation has no item left open, and every success it shows is
   a job that succeeded. *)
CompletedIsSettled ==
  op = "completed" => \A i \in Items : item[i] \in OpSettled /\ (item[i] = "success" => opJob[i] = "success")

(* What an operator reads in a batch is what happened to the accounts. *)
OperationsAreSafe == OpTypeOK /\ OncePerAccount /\ NoSilentEffect /\ CompletedIsSettled

-----------------------------------------------------------------------------
(* Why it is. *)

(* The preview goes through the selection once and takes one record of an
   account; taken items never come back. *)
Taken(i) == item[i] \notin {"none", "skipped"}

PreviewInv ==
  /\ \A i \in Items : item[i] = "none" <=> i > previewed
  /\ op = "previewing" => previewed < N /\ \A i \in Items : item[i] \in {"none", "pending", "skipped"}
  /\ op # "previewing" => previewed = N
  /\ \A i, j \in Items : Taken(i) /\ Taken(j) /\ KeyOf[i] = KeyOf[j] => i = j

(* An item is with one worker, which has submitted nothing for it yet, or it
   was submitted. *)
WorksOn(w, i) == worker[w].phase \in {"check", "perform"} /\ worker[w].index = i

WorkInv ==
  /\ \A w \in Workers : worker[w].phase \in {"check", "perform"} =>
       /\ op = "running" /\ worker[w].index \in Items
       /\ item[worker[w].index] = "running" /\ opJob[worker[w].index] = "none"
  /\ \A v, w \in Workers, i \in Items : WorksOn(v, i) /\ WorksOn(w, i) => v = w
  /\ \A i \in Items : item[i] = "running" => opJob[i] # "none" \/ \E w \in Workers : WorksOn(w, i)
  /\ \A i \in Items : item[i] = "success" => opJob[i] = "success"

(* Workers return when the selection is exhausted. *)
ExhaustedInv ==
  /\ \A i \in Items : i < next => item[i] # "pending"
  /\ next > 1 => op \notin {"previewing", "preview"}
  /\ \A w \in Workers : worker[w].phase = "done" => next = N + 1
  /\ op \in {"awaiting", "completed"} => next = N + 1
  /\ op = "completed" => \A i \in Items : item[i] # "running"

(* An item that is still open has not been given up. *)
FreshInv == \A i \in Items : item[i] \in {"none", "pending", "running"} => opFailures[i] < MaxRefreshFailures

OpInv == OpTypeOK /\ PreviewInv /\ WorkInv /\ ExhaustedInv /\ FreshInv /\ NoSilentEffect

-----------------------------------------------------------------------------
(* A confirmed operation ends although the service cannot be reached: refresh
   failures are bounded (operations.ts:160). *)
OperationEnds == op = "running" ~> op \in {"completed", "gone"}
=============================================================================

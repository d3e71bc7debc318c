-------------------------- MODULE LoginTasksProofs --------------------------
(***************************************************************************)
(* Login's rows, its queue and the fence of the Proxy.  None of the        *)
(* properties is inductive: that one browser works on an account rests on  *)
(* one active task per account and on every run working for its task, that *)
(* a queued task is found again rests on the entries of the queue agreeing *)
(* with the rows, that a cancelled attempt stores nothing rests on no call *)
(* making it the current one again, and that an account does not wait for  *)
(* nobody rests on everyone who holds an attempt handing it on.            *)
(* The lists of the console, which start these tasks, stand at the end.    *)
(*                                                                         *)
(* The parts of LoginInv are over the tables as arguments, so that they    *)
(* can be stated of the tables in the middle of a step, which drain()      *)
(* then changes.                                                           *)
(***************************************************************************)
EXTENDS MCOperators, SequenceTheorems, TLAPS

-----------------------------------------------------------------------------
(* The inductive invariants *)

(* Rows: every attempt of the history belongs to a task and agrees with it;
   the current attempt of a task is one of its rows and was drawn for its
   account; a pending task waits or is prepared; no active task is being
   deleted. *)
RowsAgree(ts, as) ==
  /\ \A i \in Attempts : as[i] # NoRow =>
       /\ ts[as[i].task] \notin {NoTask, GoneTask}
       /\ IF ts[as[i].task].attempt = i THEN as[i].status = ts[as[i].task].status
          ELSE as[i].status \in Finished
  /\ \A t \in Tasks : ts[t] \notin {NoTask, GoneTask} =>
       /\ as[ts[t].attempt] # NoRow /\ as[ts[t].attempt].task = t
       /\ AccountOf[ts[t].attempt] = ts[t].account
       /\ ts[t].status = "pending" => ts[t].stage \in {"queued", "preparing"}
       /\ ts[t].stage = "deleting" => ts[t].status \in Finished

(* At most one task of an account is active. *)
OneActive(ts) ==
  \A t, u \in Tasks :
    /\ ts[t] \notin {NoTask, GoneTask} /\ ts[t].status \in Active
    /\ ts[u] \notin {NoTask, GoneTask} /\ ts[u].status \in Active
    /\ ts[t].account = ts[u].account
    => t = u

(* A browser works on the current attempt of a running or cancelling task. *)
RunsAgree(rs, ts) ==
  \A t \in Tasks : rs[t] # NoRun =>
    /\ ts[t] # NoTask
    /\ rs[t].step # "reporting" =>
         /\ ts[t] # GoneTask
         /\ ts[t].attempt = rs[t].attempt
         /\ ts[t].status \in {"running", "cancelling"}

(* An entry of the queue is of a pending task, under its current attempt,
   whose slot is free; a task has one entry. *)
QueueAgrees(q, rs, ts) ==
  /\ \A k \in DOMAIN q :
       /\ ts[q[k].task] \notin {NoTask, GoneTask}
       /\ ts[q[k].task].attempt = q[k].attempt
       /\ ts[q[k].task].status = "pending"
       /\ rs[q[k].task] = NoRun
  /\ \A j, k \in DOMAIN q : q[j].task = q[k].task => j = k

(* A queued task has its entry. *)
QueueHolds(q, ts) ==
  \A t \in Tasks :
    ts[t] \notin {NoTask, GoneTask} /\ ts[t].status = "pending" /\ ts[t].stage = "queued" =>
      \E k \in DOMAIN q : q[k] = [task |-> t, attempt |-> ts[t].attempt]

(* The attempt of a retry that is being prepared neither waits nor runs. *)
RetriesAgree(rt, q, rs) ==
  /\ \A r \in Retriers : rt[r] # NoRetry =>
       /\ rt[r].step = "asked" <=> rt[r].attempt = NoAttempt
       /\ rt[r].step \in {"prepare", "prepared", "refused"} =>
            /\ \A k \in DOMAIN q : q[k].attempt # rt[r].attempt
            /\ \A t \in Tasks : rs[t] # NoRun /\ rs[t].step # "reporting" => rs[t].attempt # rt[r].attempt
  /\ \A r, s \in Retriers :
       rt[r] # NoRetry /\ rt[s] # NoRetry /\ rt[r].attempt = rt[s].attempt /\ rt[r].attempt # NoAttempt
       => r = s

(* A submitted attempt is no retry's; until it arrives it has no row. *)
SubmissionsAgree(sub, rt, as) ==
  \A i \in Attempts : sub[i] # NoSubmission =>
    /\ \A r \in Retriers : rt[r] # NoRetry => rt[r].attempt # i
    /\ sub[i].net = "sent" => as[i] = NoRow

(* The tables, and the retries and submissions under way, agree. *)
TaskTable == [Tasks -> TaskRow \cup {NoTask, GoneTask}]
RowTable == [Attempts -> AttemptRow \cup {NoRow}]
RunTable == [Tasks -> Run \cup {NoRun}]

RowsSound(ts, as) ==
  ts \in TaskTable /\ as \in RowTable /\ RowsAgree(ts, as) /\ OneActive(ts)

QueueSound(q, rs, ts) ==
  /\ q \in Seq(Entry) /\ rs \in RunTable
  /\ RunsAgree(rs, ts) /\ QueueAgrees(q, rs, ts) /\ QueueHolds(q, ts)

TablesAgree(q, rs, ts, as, rt, sub) ==
  /\ RowsSound(ts, as) /\ QueueSound(q, rs, ts)
  /\ RetriesAgree(rt, q, rs) /\ SubmissionsAgree(sub, rt, as)

(* Memory is lost by a crash. *)
Idle ==
  /\ pending = <<>>
  /\ \A t \in Tasks : run[t] = NoRun /\ finisher[t] = NoFinisher
  /\ \A r \in Retriers : retry[r] = NoRetry

StateAgrees ==
  IF up THEN TablesAgree(pending, run, task, attemptRow, retry, submission)
  ELSE /\ RowsSound(task, attemptRow) /\ SubmissionsAgree(submission, retry, attemptRow)
       /\ Idle /\ run \in RunTable

LoginInv == TypeOK /\ StateAgrees

(* A stored token is known to be stored, and success says so. *)
StoreInv ==
  /\ SuccessMeansStored
  /\ \A i \in Attempts : saveCall[i] = "saved" => i \in stored

(* An attempt that was marked failed is not the one its account waits for,
   and no prepare call can make it so again. *)
FenceInv ==
  /\ \A i \in released : ~Current(i)
  /\ \A p \in prepares : p.attempt \notin released /\ oauth[AccountOf[p.attempt]].attempt # p.attempt
  /\ \A p, q \in prepares : p.attempt = q.attempt => p = q

-----------------------------------------------------------------------------
(* The queue *)

(* The entries of the queue after one was spliced out. *)
LEMMA SpliceFacts ==
  ASSUME NEW q \in Seq(Entry), NEW k \in DOMAIN q
  PROVE  /\ RemoveAt(q, k) \in Seq(Entry)
         /\ Len(RemoveAt(q, k)) = Len(q) - 1
         /\ \A j \in 1..(Len(q) - 1) : RemoveAt(q, k)[j] = IF j < k THEN q[j] ELSE q[j + 1]
<1>1. k \in 1..Len(q) /\ Len(q) \in Nat
  OBVIOUS
<1>2. SubSeq(q, 1, k - 1) \in Seq(Entry) /\ SubSeq(q, k + 1, Len(q)) \in Seq(Entry)
  BY <1>1
<1>3. Len(SubSeq(q, 1, k - 1)) = k - 1 /\ Len(SubSeq(q, k + 1, Len(q))) = Len(q) - k
  BY <1>1
<1>4. /\ \A j \in 1..(k - 1) : SubSeq(q, 1, k - 1)[j] = q[j]
      /\ \A j \in 1..(Len(q) - k) : SubSeq(q, k + 1, Len(q))[j] = q[k + j]
  BY <1>1
<1> DEFINE before == SubSeq(q, 1, k - 1)
           after == SubSeq(q, k + 1, Len(q))
<1>5. /\ before \o after \in Seq(Entry)
      /\ Len(before \o after) = Len(before) + Len(after)
      /\ \A j \in 1..Len(before) : (before \o after)[j] = before[j]
      /\ \A j \in (Len(before) + 1)..(Len(before) + Len(after)) :
           (before \o after)[j] = after[j - Len(before)]
  <2> HIDE DEF before, after
  <2>1. before \in Seq(Entry) /\ after \in Seq(Entry)
    BY <1>2 DEF before, after
  <2> QED
    BY <2>1, ConcatProperties, SMT
<1>6. RemoveAt(q, k) = before \o after
  BY DEF RemoveAt
<1> HIDE DEF before, after
<1>7. Len(before) = k - 1 /\ Len(after) = Len(q) - k
  BY <1>3 DEF before, after
<1>8. ASSUME NEW j \in 1..(Len(q) - 1)
      PROVE  RemoveAt(q, k)[j] = IF j < k THEN q[j] ELSE q[j + 1]
  <2>1. CASE j < k
    <3>1. j \in 1..(k - 1)
      BY <1>1, <2>1
    <3> QED
      BY <1>4, <1>5, <1>6, <1>7, <2>1, <3>1 DEF before
  <2>2. CASE ~(j < k)
    <3>1. j - (k - 1) \in 1..(Len(q) - k) /\ j \in k..(Len(q) - 1)
      BY <1>1, <2>2
    <3>a. j \in (Len(before) + 1)..(Len(before) + Len(after)) /\ j - Len(before) = j - (k - 1)
      BY <1>1, <1>7, <3>1
    <3>2. RemoveAt(q, k)[j] = after[j - (k - 1)]
      BY <1>5, <1>6, <3>a
    <3>3. k + (j - (k - 1)) = j + 1
      BY <1>1
    <3> QED
      BY <1>4, <2>2, <3>1, <3>2, <3>3 DEF after
  <2> QED
    BY <2>1, <2>2
<1>9. Len(RemoveAt(q, k)) = Len(q) - 1
  BY <1>1, <1>5, <1>6, <1>7
<1> QED
  BY <1>5, <1>6, <1>8, <1>9

(* What drain() starts: the tasks S of the runnable entries among the first
   n, which leave the queue. *)
Runnable(ts, e) ==
  /\ ts[e.task] \notin {NoTask, GoneTask}
  /\ ts[e.task].attempt = e.attempt
  /\ ts[e.task].status = "pending"

Drained(q, rs, ts, as, q2, rs2, ts2, as2, n, S) ==
  /\ n \in 0..Len(q) /\ S \subseteq Tasks
  /\ \A t \in S : \E k \in 1..n : q[k].task = t /\ Runnable(ts, q[k])
  /\ \A k \in 1..n : Runnable(ts, q[k]) => q[k].task \in S
  /\ q2 = SubSeq(q, n + 1, Len(q))
  /\ rs2 = [t \in Tasks |-> IF t \in S
             THEN [attempt |-> ts[t].attempt, step |-> "flow", aborted |-> FALSE] ELSE rs[t]]
  /\ ts2 = [t \in Tasks |-> IF t \in S THEN Running(ts[t]) ELSE ts[t]]
  /\ as2 = [i \in Attempts |-> IF \E t \in S : ts[t].attempt = i
             THEN [as[i] EXCEPT !.status = "running"] ELSE as[i]]

LEMMA DrainStarts ==
  ASSUME NEW q \in Seq(Entry), NEW rs, NEW ts, NEW as, Drain(q, rs, ts, as)
  PROVE  \E n, S : Drained(q, rs, ts, as, pending', run', task', attemptRow', n, S)
<1> DEFINE runnable(k) == /\ ts[q[k].task] \notin {NoTask, GoneTask}
                          /\ ts[q[k].task].attempt = q[k].attempt
                          /\ ts[q[k].task].status = "pending"
           starts(n) == {k \in 1..n : runnable(k)}
           S(n) == {q[k].task : k \in starts(n)}
<1>1. PICK n \in 0..Len(q) :
        /\ pending' = SubSeq(q, n + 1, Len(q))
        /\ run' = [t \in Tasks |-> IF t \in S(n)
                     THEN [attempt |-> ts[t].attempt, step |-> "flow", aborted |-> FALSE] ELSE rs[t]]
        /\ task' = [t \in Tasks |-> IF t \in S(n) THEN Running(ts[t]) ELSE ts[t]]
        /\ attemptRow' = [i \in Attempts |-> IF \E t \in S(n) : ts[t].attempt = i
                            THEN [as[i] EXCEPT !.status = "running"] ELSE as[i]]
  BY DEF Drain
<1>2. S(n) \subseteq Tasks
  <2>1. \A k \in 1..n : q[k] \in Entry
    BY <1>1
  <2> QED
    BY <2>1 DEF Entry
<1>3. \A t \in S(n) : \E k \in 1..n : q[k].task = t /\ Runnable(ts, q[k])
  BY DEF Runnable
<1>4. \A k \in 1..n : Runnable(ts, q[k]) => q[k].task \in S(n)
  BY DEF Runnable
<1>5. Drained(q, rs, ts, as, pending', run', task', attemptRow', n, S(n))
  BY <1>1, <1>2, <1>3, <1>4 DEF Drained
<1> QED
  BY <1>1, <1>5

(* Rows are told from their absence. *)
LEMMA RowsAreRecords ==
  /\ \A row \in TaskRow : row \notin {NoTask, GoneTask}
  /\ \A row \in AttemptRow : row # NoRow
  /\ \A row \in Run : row # NoRun
BY AbsenceAssumption

(* The fields of a changed row. *)
LEMMA ClosedRow ==
  ASSUME NEW row \in TaskRow, NEW s \in Finished
  PROVE  /\ Closed(row, s) \in TaskRow /\ Closed(row, s).account = row.account
         /\ Closed(row, s).status = s /\ Closed(row, s).attempt = row.attempt /\ Closed(row, s).stage = "done"
BY DEF TaskRow, Closed, Finished

LEMMA RunningRow ==
  ASSUME NEW row \in TaskRow
  PROVE  /\ Running(row) \in TaskRow /\ Running(row).account = row.account
         /\ Running(row).status = "running" /\ Running(row).attempt = row.attempt
         /\ Running(row).stage = "run"
BY DEF TaskRow, Running, Active

LEMMA AttemptStatus ==
  ASSUME NEW row \in AttemptRow, NEW s \in Active \cup Finished
  PROVE  /\ [row EXCEPT !.status = s] \in AttemptRow
         /\ [row EXCEPT !.status = s].status = s /\ [row EXCEPT !.status = s].task = row.task
BY DEF AttemptRow, Active, Finished

LEMMA TaskStatus ==
  ASSUME NEW row \in TaskRow, NEW s \in Active \cup Finished
  PROVE  /\ [row EXCEPT !.status = s] \in TaskRow /\ [row EXCEPT !.status = s].account = row.account
         /\ [row EXCEPT !.status = s].status = s /\ [row EXCEPT !.status = s].attempt = row.attempt
         /\ [row EXCEPT !.status = s].stage = row.stage
BY DEF TaskRow, Active, Finished

LEMMA TaskStage ==
  ASSUME NEW row \in TaskRow, NEW s \in {"queued", "done", "deleting"}
  PROVE  /\ [row EXCEPT !.stage = s] \in TaskRow /\ [row EXCEPT !.stage = s].account = row.account
         /\ [row EXCEPT !.stage = s].status = row.status /\ [row EXCEPT !.stage = s].attempt = row.attempt
         /\ [row EXCEPT !.stage = s].stage = s
BY DEF TaskRow

LEMMA NewRun ==
  ASSUME NEW i \in Attempts
  PROVE  /\ [attempt |-> i, step |-> "flow", aborted |-> FALSE] \in Run
         /\ [attempt |-> i, step |-> "flow", aborted |-> FALSE].attempt = i
BY DEF Run

(* drain() keeps the agreement of the tables, and types. *)
LEMMA DrainKeeps ==
  ASSUME NEW q, NEW rs, NEW ts, NEW as, NEW rt, NEW sub,
         NEW q2, NEW rs2, NEW ts2, NEW as2, NEW n, NEW S,
         Drained(q, rs, ts, as, q2, rs2, ts2, as2, n, S), TablesAgree(q, rs, ts, as, rt, sub)
  PROVE  TablesAgree(q2, rs2, ts2, as2, rt, sub)
<1>a. /\ q \in Seq(Entry) /\ rs \in RunTable /\ ts \in TaskTable /\ as \in RowTable
      /\ RowsAgree(ts, as) /\ OneActive(ts) /\ RunsAgree(rs, ts)
      /\ QueueAgrees(q, rs, ts) /\ QueueHolds(q, ts)
      /\ RetriesAgree(rt, q, rs) /\ SubmissionsAgree(sub, rt, as)
  BY DEF TablesAgree, RowsSound, QueueSound
<1> USE <1>a
<1>0. n \in 0..Len(q)
  BY DEF Drained
<1>1. /\ q2 \in Seq(Entry) /\ Len(q2) = Len(q) - n
      /\ \A k \in DOMAIN q2 : n + k \in DOMAIN q /\ q2[k] = q[n + k]
  BY <1>0 DEF Drained
<1>2. ASSUME NEW k \in DOMAIN q PROVE q[k] \in Entry /\ q[k].task \in Tasks /\ q[k].attempt \in Attempts
  <2>1. q[k] \in Entry
    OBVIOUS
  <2> QED
    BY <2>1 DEF Entry
<1>3. \A k \in DOMAIN q : k \in 1..n \/ (k - n \in DOMAIN q2 /\ q2[k - n] = q[k])
  BY <1>0, <1>1
<1>4. 1..n \subseteq DOMAIN q
  BY <1>0
<1>5. ASSUME NEW t \in S
      PROVE  /\ t \in Tasks /\ ts[t] \in TaskRow /\ ts[t].status = "pending" /\ rs[t] = NoRun
             /\ as[ts[t].attempt] \in AttemptRow /\ as[ts[t].attempt].task = t
             /\ ts[t].attempt \in Attempts
             /\ \E k \in 1..n : q[k].task = t /\ q[k].attempt = ts[t].attempt
  <2>1. PICK k \in 1..n : q[k].task = t /\ Runnable(ts, q[k])
    BY DEF Drained
  <2>2. t \in Tasks /\ ts[t] \notin {NoTask, GoneTask} /\ ts[t].status = "pending" /\ rs[t] = NoRun
    BY <1>2, <1>4, <2>1 DEF Runnable, QueueAgrees
  <2>3. ts[t] \in TaskRow
    BY <2>2 DEF TaskTable
  <2>4. ts[t].attempt \in Attempts
    BY <2>3 DEF TaskRow
  <2>5. as[ts[t].attempt] # NoRow /\ as[ts[t].attempt].task = t
    BY <2>2 DEF RowsAgree
  <2> QED
    BY <2>1, <2>2, <2>3, <2>4, <2>5 DEF Runnable, RowTable
<1>6. /\ \A t \in S : /\ rs2[t] \in Run /\ rs2[t].attempt = ts[t].attempt
                      /\ ts2[t] \in TaskRow /\ ts2[t].account = ts[t].account /\ ts2[t].status = "running"
                      /\ ts2[t].attempt = ts[t].attempt /\ ts2[t].stage = "run"
      /\ \A t \in Tasks : t \notin S => rs2[t] = rs[t] /\ ts2[t] = ts[t]
  <2>1. ASSUME NEW t \in S
        PROVE  /\ rs2[t] \in Run /\ rs2[t].attempt = ts[t].attempt
               /\ ts2[t] \in TaskRow /\ ts2[t].account = ts[t].account /\ ts2[t].status = "running"
               /\ ts2[t].attempt = ts[t].attempt /\ ts2[t].stage = "run"
    <3>1. ts2[t] = Running(ts[t]) /\ rs2[t] = [attempt |-> ts[t].attempt, step |-> "flow", aborted |-> FALSE]
      BY <1>5 DEF Drained
    <3>2. rs2[t] \in Run /\ rs2[t].attempt = ts[t].attempt
      BY <1>5, <3>1, NewRun
    <3>3. ts[t] \in TaskRow
      BY <1>5
    <3> QED
      BY <3>1, <3>2, <3>3, RunningRow
  <2>2. ASSUME NEW t \in Tasks, t \notin S PROVE rs2[t] = rs[t] /\ ts2[t] = ts[t]
    BY <2>2 DEF Drained
  <2> QED
    BY <2>1, <2>2
<1>7. /\ \A t \in S : /\ as2[ts[t].attempt] \in AttemptRow /\ as2[ts[t].attempt].status = "running"
                      /\ as2[ts[t].attempt].task = t
      /\ \A i \in Attempts : ~(\E t \in S : ts[t].attempt = i) => as2[i] = as[i]
  <2>1. ASSUME NEW t \in S
        PROVE  /\ as2[ts[t].attempt] \in AttemptRow /\ as2[ts[t].attempt].status = "running"
               /\ as2[ts[t].attempt].task = t
    <3>1. as2[ts[t].attempt] = [as[ts[t].attempt] EXCEPT !.status = "running"]
      BY <1>5 DEF Drained
    <3>2. "running" \in Active \cup Finished
      BY DEF Active
    <3> DEFINE row == as[ts[t].attempt]
    <3>3. row \in AttemptRow /\ row.task = t
      BY <1>5
    <3>4. as2[ts[t].attempt] = [row EXCEPT !.status = "running"]
      BY <3>1
    <3> HIDE DEF row
    <3>5. /\ [row EXCEPT !.status = "running"] \in AttemptRow
          /\ [row EXCEPT !.status = "running"].status = "running"
          /\ [row EXCEPT !.status = "running"].task = row.task
      BY <3>2, <3>3, AttemptStatus
    <3> QED
      BY <3>3, <3>4, <3>5
  <2>2. ASSUME NEW i \in Attempts, ~(\E t \in S : ts[t].attempt = i) PROVE as2[i] = as[i]
    BY <2>2 DEF Drained
  <2> QED
    BY <2>1, <2>2
<1>8. ASSUME NEW k \in DOMAIN q2 PROVE q2[k].task \notin S
  <2> SUFFICES ASSUME q2[k].task \in S PROVE FALSE
    OBVIOUS
  <2>1. PICK j \in 1..n : q[j].task = q2[k].task
    BY <1>5
  <2>2. n + k \in DOMAIN q /\ q[n + k].task = q[j].task
    BY <1>1, <2>1
  <2>3. n + k = j
    BY <1>4, <2>2 DEF QueueAgrees
  <2> QED
    BY <1>0, <1>1, <2>3
<1>10. ts2 \in TaskTable
  <2>1. \A t \in Tasks : ts2[t] \in TaskRow \cup {NoTask, GoneTask}
    BY <1>6 DEF TaskTable
  <2> QED
    BY <2>1 DEF Drained, TaskTable
<1>11. rs2 \in RunTable
  <2>2. \A t \in Tasks : rs2[t] \in Run \cup {NoRun}
    BY <1>6 DEF RunTable
  <2> QED
    BY <2>2 DEF Drained, RunTable
<1>12. as2 \in RowTable
  <2>1. \A i \in Attempts : as2[i] \in AttemptRow \cup {NoRow}
    BY <1>7 DEF RowTable
  <2> QED
    BY <2>1 DEF Drained, RowTable
<1>13. \A t \in Tasks :
         /\ ts2[t] \in {NoTask, GoneTask} <=> ts[t] \in {NoTask, GoneTask}
         /\ ts2[t] = NoTask <=> ts[t] = NoTask
         /\ ts[t] \notin {NoTask, GoneTask} => ts2[t].attempt = ts[t].attempt /\ ts2[t].account = ts[t].account
  BY <1>5, <1>6, RowsAreRecords
<1>14. \A i \in Attempts : /\ as2[i] = NoRow <=> as[i] = NoRow
                           /\ as[i] # NoRow => as2[i].task = as[i].task
  <2> SUFFICES ASSUME NEW i \in Attempts
               PROVE  (as2[i] = NoRow <=> as[i] = NoRow) /\ (as[i] # NoRow => as2[i].task = as[i].task)
    OBVIOUS
  <2>1. CASE \E t \in S : ts[t].attempt = i
    <3>1. PICK t \in S : ts[t].attempt = i
      BY <2>1
    <3>2. as[i] \in AttemptRow /\ as[i].task = t /\ as2[i] \in AttemptRow /\ as2[i].task = t
      BY <1>5, <1>7, <3>1
    <3> QED
      BY <3>2, RowsAreRecords
  <2>2. CASE ~(\E t \in S : ts[t].attempt = i)
    BY <1>7, <2>2
  <2> QED
    BY <2>1, <2>2
<1>15. RowsAgree(ts2, as2)
  <2>1. ASSUME NEW i \in Attempts, as2[i] # NoRow
        PROVE  /\ ts2[as2[i].task] \notin {NoTask, GoneTask}
               /\ IF ts2[as2[i].task].attempt = i THEN as2[i].status = ts2[as2[i].task].status
                  ELSE as2[i].status \in Finished
    <3> DEFINE u == as[i].task
    <3>1. as[i] # NoRow /\ as2[i].task = u
      BY <1>14, <2>1
    <3>2. as[i] \in AttemptRow /\ u \in Tasks
      BY <3>1 DEF RowTable, AttemptRow
    <3>3. /\ ts[u] \notin {NoTask, GoneTask}
          /\ IF ts[u].attempt = i THEN as[i].status = ts[u].status ELSE as[i].status \in Finished
      BY <3>1 DEF RowsAgree
    <3> HIDE DEF u
    <3>4. CASE \E t \in S : ts[t].attempt = i
      <4>1. PICK t \in S : ts[t].attempt = i
        BY <3>4
      <4>2. t = u
        BY <1>5, <4>1 DEF u
      <4>3. ts2[u].status = "running" /\ ts2[u].attempt = i
        BY <1>6, <4>1, <4>2
      <4>4. as2[i].status = "running"
        BY <1>7, <4>1
      <4> QED
        BY <1>13, <3>1, <3>2, <3>3, <4>3, <4>4
    <3>5. CASE ~(\E t \in S : ts[t].attempt = i)
      <4>1. as2[i] = as[i]
        BY <1>7, <3>5
      <4>2. CASE u \in S
        <5>1. ts[u].attempt # i
          BY <3>5, <4>2
        <5> QED
          BY <1>13, <3>1, <3>2, <3>3, <4>1, <5>1
      <4>3. CASE u \notin S
        BY <1>6, <3>1, <3>2, <3>3, <4>1, <4>3
      <4> QED
        BY <4>2, <4>3
    <3> QED
      BY <3>4, <3>5
  <2>2. ASSUME NEW t \in Tasks, ts2[t] \notin {NoTask, GoneTask}
        PROVE  /\ as2[ts2[t].attempt] # NoRow /\ as2[ts2[t].attempt].task = t
               /\ AccountOf[ts2[t].attempt] = ts2[t].account
               /\ ts2[t].status = "pending" => ts2[t].stage \in {"queued", "preparing"}
               /\ ts2[t].stage = "deleting" => ts2[t].status \in Finished
    <3>1. ts[t] \notin {NoTask, GoneTask} /\ ts2[t].attempt = ts[t].attempt /\ ts2[t].account = ts[t].account
      BY <1>13, <2>2
    <3>2. ts[t].attempt \in Attempts
      BY <3>1 DEF TaskTable, TaskRow
    <3>3. as2[ts2[t].attempt] # NoRow /\ as2[ts2[t].attempt].task = t /\ AccountOf[ts2[t].attempt] = ts2[t].account
      BY <1>14, <3>1, <3>2 DEF RowsAgree
    <3>4. CASE t \in S
      <4>1. ts2[t].status = "running" /\ ts2[t].stage = "run"
        BY <1>6, <3>4
      <4> QED
        BY <3>3, <4>1
    <3>5. CASE t \notin S
      <4>1. ts2[t] = ts[t]
        BY <1>6, <3>5
      <4> QED
        BY <3>1, <3>3, <4>1 DEF RowsAgree
    <3> QED
      BY <3>4, <3>5
  <2> QED
    BY <2>1, <2>2 DEF RowsAgree
<1>16. OneActive(ts2)
  <2>1. \A t \in Tasks : ts2[t] \notin {NoTask, GoneTask} /\ ts2[t].status \in Active
                           => ts[t] \notin {NoTask, GoneTask} /\ ts[t].status \in Active
    BY <1>5, <1>6, <1>13 DEF Active
  <2> QED
    BY <1>13, <2>1 DEF OneActive
<1>17. RunsAgree(rs2, ts2)
  <2> SUFFICES ASSUME NEW t \in Tasks, rs2[t] # NoRun
               PROVE  /\ ts2[t] # NoTask
                      /\ rs2[t].step # "reporting" =>
                           /\ ts2[t] # GoneTask /\ ts2[t].attempt = rs2[t].attempt
                           /\ ts2[t].status \in {"running", "cancelling"}
    BY DEF RunsAgree
  <2>1. CASE t \in S
    <3>1. ts2[t] \notin {NoTask, GoneTask} /\ ts2[t].attempt = ts[t].attempt /\ ts2[t].status = "running"
      BY <1>6, <2>1, RowsAreRecords
    <3>2. rs2[t].attempt = ts[t].attempt
      BY <1>6, <2>1
    <3> QED
      BY <3>1, <3>2
  <2>2. CASE t \notin S
    BY <1>6, <2>2 DEF RunsAgree
  <2> QED
    BY <2>1, <2>2
<1>18. QueueAgrees(q2, rs2, ts2)
  <2>1. ASSUME NEW k \in DOMAIN q2
        PROVE  /\ ts2[q2[k].task] \notin {NoTask, GoneTask} /\ ts2[q2[k].task].attempt = q2[k].attempt
               /\ ts2[q2[k].task].status = "pending" /\ rs2[q2[k].task] = NoRun
    <3>1. q2[k].task \in Tasks /\ q2[k].task \notin S
      BY <1>1, <1>2, <1>8
    <3>2. ts2[q2[k].task] = ts[q2[k].task] /\ rs2[q2[k].task] = rs[q2[k].task]
      BY <1>6, <3>1
    <3> QED
      BY <1>1, <3>2 DEF QueueAgrees
  <2>2. \A j, k \in DOMAIN q2 : q2[j].task = q2[k].task => j = k
    <3> SUFFICES ASSUME NEW j \in DOMAIN q2, NEW k \in DOMAIN q2, q2[j].task = q2[k].task PROVE j = k
      OBVIOUS
    <3>1. n + j = n + k
      BY <1>1 DEF QueueAgrees
    <3> QED
      BY <1>0, <1>1, <3>1
  <2> QED
    BY <2>1, <2>2 DEF QueueAgrees
<1>19. QueueHolds(q2, ts2)
  <2> SUFFICES ASSUME NEW t \in Tasks, ts2[t] \notin {NoTask, GoneTask}, ts2[t].status = "pending",
                      ts2[t].stage = "queued"
               PROVE  \E k \in DOMAIN q2 : q2[k] = [task |-> t, attempt |-> ts2[t].attempt]
    BY DEF QueueHolds
  <2>1. t \notin S
    BY <1>6
  <2>2. ts2[t] = ts[t]
    BY <1>6, <2>1
  <2>3. PICK k \in DOMAIN q : q[k] = [task |-> t, attempt |-> ts[t].attempt]
    BY <2>2 DEF QueueHolds
  <2>4. q[k].task = t /\ q[k].attempt = ts[t].attempt
    BY <2>3
  <2>5. k \notin 1..n
    BY <2>1, <2>2, <2>4 DEF Drained, Runnable
  <2> QED
    BY <1>3, <2>2, <2>3, <2>5
<1>20. RetriesAgree(rt, q2, rs2)
  <2> SUFFICES ASSUME NEW r \in Retriers, rt[r] # NoRetry, rt[r].step \in {"prepare", "prepared", "refused"}
               PROVE  /\ \A k \in DOMAIN q2 : q2[k].attempt # rt[r].attempt
                      /\ \A t \in Tasks : rs2[t] # NoRun /\ rs2[t].step # "reporting"
                                            => rs2[t].attempt # rt[r].attempt
    BY DEF RetriesAgree
  <2>1. /\ \A k \in DOMAIN q : q[k].attempt # rt[r].attempt
        /\ \A t \in Tasks : rs[t] # NoRun /\ rs[t].step # "reporting" => rs[t].attempt # rt[r].attempt
    BY DEF RetriesAgree
  <2>2. \A k \in DOMAIN q2 : q2[k].attempt # rt[r].attempt
    BY <1>1, <2>1
  <2>3. ASSUME NEW t \in Tasks, rs2[t] # NoRun, rs2[t].step # "reporting" PROVE rs2[t].attempt # rt[r].attempt
    <3>1. CASE t \in S
      <4>1. PICK k \in 1..n : q[k].attempt = ts[t].attempt
        BY <1>5, <3>1
      <4>2. rs2[t].attempt = q[k].attempt
        BY <1>6, <3>1, <4>1
      <4> QED
        BY <1>4, <2>1, <4>2
    <3>2. CASE t \notin S
      BY <1>6, <2>1, <2>3, <3>2
    <3> QED
      BY <3>1, <3>2
  <2> QED
    BY <2>2, <2>3
<1>21. SubmissionsAgree(sub, rt, as2)
  BY <1>14 DEF SubmissionsAgree
<1> QED
  BY <1>1, <1>10, <1>11, <1>12, <1>15, <1>16, <1>17, <1>18, <1>19, <1>20, <1>21 DEF TablesAgree, RowsSound, QueueSound

(* drain(), as a step. *)
LEMMA DrainStep ==
  ASSUME NEW q, NEW rs, NEW ts, NEW as, NEW rt, NEW sub,
         Drain(q, rs, ts, as), TablesAgree(q, rs, ts, as, rt, sub)
  PROVE  TablesAgree(pending', run', task', attemptRow', rt, sub)
<1>1. q \in Seq(Entry)
  BY DEF TablesAgree, QueueSound
<1>2. PICK n, S : Drained(q, rs, ts, as, pending', run', task', attemptRow', n, S)
  BY <1>1, DrainStarts
<1> QED
  BY <1>2, DrainKeeps

-----------------------------------------------------------------------------
(* Changes of one task *)

(* One task and the row of its current attempt change together. *)
Changed(ts, as, t, row, arow, ts2, as2) ==
  /\ t \in Tasks /\ ts[t] \notin {NoTask, GoneTask}
  /\ row \in TaskRow /\ row.account = ts[t].account /\ row.attempt = ts[t].attempt
  /\ row.status = "pending" => row.stage \in {"queued", "preparing"}
  /\ row.stage = "deleting" => row.status \in Finished
  /\ row.status \in Active => ts[t].status \in Active
  /\ arow \in AttemptRow /\ arow.task = t /\ arow.status = row.status
  /\ ts2 = [ts EXCEPT ![t] = row]
  /\ as2 = [as EXCEPT ![ts[t].attempt] = arow]

SameRows(as, as2) == \A i \in Attempts : as2[i] = NoRow <=> as[i] = NoRow

LEMMA RowChanges ==
  ASSUME NEW ts, NEW as, NEW t, NEW row, NEW arow, NEW ts2, NEW as2,
         RowsSound(ts, as), Changed(ts, as, t, row, arow, ts2, as2)
  PROVE  RowsSound(ts2, as2) /\ SameRows(as, as2)
<1>a. ts \in TaskTable /\ as \in RowTable /\ RowsAgree(ts, as) /\ OneActive(ts)
  BY DEF RowsSound
<1>b. /\ t \in Tasks /\ ts[t] \notin {NoTask, GoneTask}
      /\ row \in TaskRow /\ row.account = ts[t].account /\ row.attempt = ts[t].attempt
      /\ row.status = "pending" => row.stage \in {"queued", "preparing"}
      /\ row.stage = "deleting" => row.status \in Finished
      /\ row.status \in Active => ts[t].status \in Active
      /\ arow \in AttemptRow /\ arow.task = t /\ arow.status = row.status
      /\ ts2 = [ts EXCEPT ![t] = row]
      /\ as2 = [as EXCEPT ![ts[t].attempt] = arow]
  BY DEF Changed
<1> USE <1>a, <1>b
<1>1. ts[t] \in TaskRow /\ ts[t].attempt \in Attempts
  BY DEF TaskTable, TaskRow
<1>2. as[ts[t].attempt] # NoRow /\ as[ts[t].attempt].task = t
  BY DEF RowsAgree
<1>3. ts2[t] = row /\ \A u \in Tasks : u # t => ts2[u] = ts[u]
  BY DEF TaskTable
<1>4. as2[ts[t].attempt] = arow /\ \A i \in Attempts : i # ts[t].attempt => as2[i] = as[i]
  BY <1>1 DEF RowTable
<1>5. row \notin {NoTask, GoneTask} /\ arow # NoRow
  BY RowsAreRecords
<1>6. ts2 \in TaskTable /\ as2 \in RowTable
  BY DEF TaskTable, RowTable
<1>7. \A i \in Attempts : as2[i] = NoRow <=> as[i] = NoRow
  BY <1>2, <1>4, <1>5
<1>8. ASSUME NEW i \in Attempts, as2[i] # NoRow
      PROVE  /\ ts2[as2[i].task] \notin {NoTask, GoneTask}
             /\ IF ts2[as2[i].task].attempt = i THEN as2[i].status = ts2[as2[i].task].status
                ELSE as2[i].status \in Finished
  <2>1. CASE i = ts[t].attempt
    <3>1. as2[i] = arow /\ as2[i].task = t /\ ts2[t] = row /\ row.attempt = i
      BY <1>3, <1>4, <2>1
    <3> QED
      BY <1>5, <3>1
  <2>2. CASE i # ts[t].attempt
    <3>1. as2[i] = as[i] /\ as[i] # NoRow /\ as[i] \in AttemptRow
      BY <1>4, <1>8, <2>2 DEF RowTable
    <3>2. as[i].task \in Tasks
      BY <3>1 DEF AttemptRow
    <3>3. CASE as[i].task = t
      <4>1. as[i].status \in Finished
        BY <2>2, <3>1, <3>3 DEF RowsAgree
      <4> QED
        BY <1>3, <1>5, <2>2, <3>1, <3>3, <4>1
    <3>4. CASE as[i].task # t
      <4>1. ts2[as[i].task] = ts[as[i].task]
        BY <1>3, <3>2, <3>4
      <4>2. /\ ts[as[i].task] \notin {NoTask, GoneTask}
            /\ IF ts[as[i].task].attempt = i THEN as[i].status = ts[as[i].task].status
               ELSE as[i].status \in Finished
        BY <3>1 DEF RowsAgree
      <4> QED
        BY <3>1, <4>1, <4>2
    <3> QED
      BY <3>3, <3>4
  <2> QED
    BY <2>1, <2>2
<1>9. ASSUME NEW u \in Tasks, ts2[u] \notin {NoTask, GoneTask}
      PROVE  /\ as2[ts2[u].attempt] # NoRow /\ as2[ts2[u].attempt].task = u
             /\ AccountOf[ts2[u].attempt] = ts2[u].account
             /\ ts2[u].status = "pending" => ts2[u].stage \in {"queued", "preparing"}
             /\ ts2[u].stage = "deleting" => ts2[u].status \in Finished
  <2>1. CASE u = t
    <3>1. ts2[u] = row /\ as2[row.attempt] = arow
      BY <1>3, <1>4, <2>1
    <3>2. AccountOf[row.attempt] = row.account
      BY DEF RowsAgree
    <3> QED
      BY <1>5, <2>1, <3>1, <3>2
  <2>2. CASE u # t
    <3>1. ts2[u] = ts[u] /\ ts[u] \notin {NoTask, GoneTask}
      BY <1>3, <1>9, <2>2
    <3>2. as[ts[u].attempt].task = u
      BY <3>1 DEF RowsAgree
    <3>3. ts[u].attempt # ts[t].attempt /\ ts[u].attempt \in Attempts
      BY <1>2, <2>2, <3>1, <3>2 DEF TaskTable, TaskRow
    <3>4. as2[ts[u].attempt] = as[ts[u].attempt]
      BY <1>4, <3>3
    <3>5. /\ as[ts[u].attempt] # NoRow
          /\ AccountOf[ts[u].attempt] = ts[u].account
          /\ ts[u].status = "pending" => ts[u].stage \in {"queued", "preparing"}
          /\ ts[u].stage = "deleting" => ts[u].status \in Finished
      BY <3>1 DEF RowsAgree
    <3> QED
      BY <3>1, <3>2, <3>4, <3>5
  <2> QED
    BY <2>1, <2>2
<1>10. RowsAgree(ts2, as2)
  BY <1>8, <1>9 DEF RowsAgree
<1>11. OneActive(ts2)
  BY <1>3, <1>5 DEF OneActive
<1> QED
  BY <1>6, <1>7, <1>10, <1>11 DEF RowsSound, SameRows

(* The other tasks keep their runs and entries when a task that is not in the
   queue changes and is not put there. *)
Apart(q, rs, ts, t, row, ts2) ==
  /\ t \in Tasks /\ ts[t] # NoTask /\ row # NoTask
  /\ row # GoneTask => row.status # "pending" \/ row.stage # "queued"
  /\ rs[t] # NoRun /\ rs[t].step # "reporting" =>
       row # GoneTask /\ row.attempt = rs[t].attempt /\ row.status \in {"running", "cancelling"}
  /\ \A k \in DOMAIN q : q[k].task # t
  /\ ts2 = [ts EXCEPT ![t] = row]

LEMMA OthersStay ==
  ASSUME NEW q, NEW rs, NEW ts, NEW as, NEW t, NEW row, NEW ts2,
         ts \in TaskTable, q \in Seq(Entry), Apart(q, rs, ts, t, row, ts2)
  PROVE  /\ RunsAgree(rs, ts) => RunsAgree(rs, ts2)
         /\ QueueAgrees(q, rs, ts) => QueueAgrees(q, rs, ts2)
         /\ QueueHolds(q, ts) => QueueHolds(q, ts2)
<1>a. /\ t \in Tasks /\ ts[t] # NoTask /\ row # NoTask
      /\ row # GoneTask => row.status # "pending" \/ row.stage # "queued"
      /\ rs[t] # NoRun /\ rs[t].step # "reporting" =>
           row # GoneTask /\ row.attempt = rs[t].attempt /\ row.status \in {"running", "cancelling"}
      /\ \A k \in DOMAIN q : q[k].task # t
      /\ ts2 = [ts EXCEPT ![t] = row]
  BY DEF Apart
<1> USE <1>a
<1>1. ts2[t] = row /\ \A u \in Tasks : u # t => ts2[u] = ts[u]
  BY DEF TaskTable
<1>2. ASSUME NEW k \in DOMAIN q PROVE q[k].task \in Tasks
  <2>1. q[k] \in Entry
    OBVIOUS
  <2> QED
    BY <2>1 DEF Entry
<1>3. \A k \in DOMAIN q : ts2[q[k].task] = ts[q[k].task]
  BY <1>1, <1>2
<1>4. RunsAgree(rs, ts) => RunsAgree(rs, ts2)
  BY <1>1 DEF RunsAgree
<1>5. QueueAgrees(q, rs, ts) => QueueAgrees(q, rs, ts2)
  BY <1>3 DEF QueueAgrees
<1>6. QueueHolds(q, ts) => QueueHolds(q, ts2)
  BY <1>1 DEF QueueHolds
<1> QED
  BY <1>4, <1>5, <1>6

(* finishAttempt, where it finds the attempt current and open, and where not. *)
LEMMA FinishKeeps ==
  ASSUME NEW t \in Tasks, NEW i \in Attempts, NEW s \in Finished, RowsSound(task, attemptRow),
         NEW ts2, ts2 = FinishedTask(t, i, s), NEW as2, as2 = FinishedRow(t, i, s)
  PROVE  /\ RowsSound(ts2, as2) /\ SameRows(attemptRow, as2)
         /\ \/ ts2 = task /\ as2 = attemptRow /\ ~CanFinish(t, i)
            \/ CanFinish(t, i) /\ \E row \in TaskRow : row.status \in Finished /\ ts2 = [task EXCEPT ![t] = row]
<1>a. task \in TaskTable /\ attemptRow \in RowTable /\ RowsAgree(task, attemptRow) /\ OneActive(task)
  BY DEF RowsSound
<1> USE <1>a
<1>1. CASE ~CanFinish(t, i)
  BY <1>1 DEF FinishedTask, FinishedRow, SameRows
<1>2. CASE CanFinish(t, i)
  <2> DEFINE row == Closed(task[t], s)
             arow == [attemptRow[i] EXCEPT !.status = s]
  <2>1. task[t] \notin {NoTask, GoneTask} /\ task[t] \in TaskRow /\ task[t].attempt = i
    BY <1>2 DEF CanFinish, Exists, TaskTable
  <2>2. attemptRow[i] \in AttemptRow /\ attemptRow[i].task = t
    BY <2>1 DEF RowsAgree, RowTable
  <2>3. /\ row \in TaskRow /\ row.account = task[t].account /\ row.status = s /\ row.attempt = i
        /\ row.stage = "done"
    BY <2>1, ClosedRow
  <2>4. s \in Active \cup Finished /\ s \notin Active /\ s # "pending"
    BY DEF Active, Finished
  <2>5. arow \in AttemptRow /\ arow.task = t /\ arow.status = s
    <3> DEFINE old == attemptRow[i]
    <3>1. old \in AttemptRow /\ old.task = t
      BY <2>2
    <3> HIDE DEF old
    <3>2. [old EXCEPT !.status = s] \in AttemptRow /\ [old EXCEPT !.status = s].task = t
          /\ [old EXCEPT !.status = s].status = s
      BY <2>4, <3>1, AttemptStatus
    <3> QED
      BY <3>2 DEF old
  <2>6. ts2 = [task EXCEPT ![t] = row] /\ as2 = [attemptRow EXCEPT ![task[t].attempt] = arow]
    BY <1>2, <2>1 DEF FinishedTask, FinishedRow
  <2> HIDE DEF row, arow
  <2>7. Changed(task, attemptRow, t, row, arow, ts2, as2)
    BY <2>1, <2>3, <2>4, <2>5, <2>6 DEF Changed
  <2>8. RowsSound(ts2, as2) /\ SameRows(attemptRow, as2)
    BY <2>7, RowChanges
  <2> QED
    BY <1>2, <2>3, <2>6, <2>8
<1> QED
  BY <1>1, <1>2

-----------------------------------------------------------------------------
(* Types *)

CallTypesOK ==
  /\ oauth \in [Accounts -> OauthRow]
  /\ finisher \in [Tasks -> Finisher \cup {NoFinisher}]
  /\ retry \in [Retriers -> RetryCall \cup {NoRetry}]
  /\ submission \in [Attempts -> Submission \cup {NoSubmission}]
  /\ saveCall \in [Attempts -> {"none", "sent", "verifying", "saved", "refused"}]
  /\ prepares \subseteq Prepare
  /\ reports \subseteq Attempts
  /\ up \in BOOLEAN /\ accepting \in BOOLEAN /\ crashes \in Nat /\ losses \in Nat
  /\ stored \subseteq Attempts /\ released \subseteq Attempts

TablesOK == task \in TaskTable /\ attemptRow \in RowTable /\ pending \in Seq(Entry) /\ run \in RunTable

LEMMA TypesSplit == TypeOK <=> TablesOK /\ CallTypesOK
BY DEF TypeOK, TablesOK, CallTypesOK, TaskTable, RowTable, RunTable

(* The account rows. *)
OauthTable == [Accounts -> OauthRow]

LEMMA OauthRows ==
  ASSUME oauth \in OauthTable, NEW i \in Attempts
  PROVE  /\ AccountOf[i] \in Accounts
         /\ Begun(i) \in OauthTable
         /\ [oauth EXCEPT ![AccountOf[i]] = [oauth[AccountOf[i]] EXCEPT !.status = "failed"]] \in OauthTable
         /\ [oauth EXCEPT ![AccountOf[i]] = [status |-> "valid", attempt |-> NoAttempt, token |-> i]] \in OauthTable
<1>1. AccountOf[i] \in Accounts
  BY LoginAssumption
<1> DEFINE row == oauth[AccountOf[i]]
<1>2. row \in OauthRow
  BY <1>1 DEF OauthTable
<1>3. [status |-> "refreshing", attempt |-> i, token |-> row.token] \in OauthRow
  BY <1>2 DEF OauthRow
<1>4. [row EXCEPT !.status = "failed"] \in OauthRow
  <2> HIDE DEF row
  <2> QED
    BY <1>2 DEF OauthRow
<1>5. [status |-> "valid", attempt |-> NoAttempt, token |-> i] \in OauthRow
  BY DEF OauthRow
<1>6. Begun(i) \in OauthTable
  BY <1>3 DEF Begun, OauthTable
<1> QED
  BY <1>1, <1>4, <1>5, <1>6 DEF OauthTable

LEMMA FailTypes ==
  ASSUME oauth \in OauthTable, released \subseteq Attempts, NEW i \in Attempts,
         Fail(i) \/ UNCHANGED <<oauth, released>>
  PROVE  oauth' \in OauthTable /\ released' \subseteq Attempts
BY OauthRows DEF Fail

(* The records of the calls. *)
LEMMA RetryRow ==
  ASSUME NEW row \in RetryCall, NEW s \in {"asked", "prepare", "prepared", "refused", "release"}
  PROVE  /\ [row EXCEPT !.step = s] \in RetryCall
         /\ [row EXCEPT !.step = s].step = s /\ [row EXCEPT !.step = s].attempt = row.attempt
         /\ [row EXCEPT !.step = s].task = row.task /\ [row EXCEPT !.step = s].previous = row.previous
BY DEF RetryCall

LEMMA SubmissionRow ==
  ASSUME NEW row \in Submission
  PROVE  /\ \A n \in {"accepted", "rejected", "dead"} :
              [row EXCEPT !.net = n] \in Submission /\ [row EXCEPT !.net = n].net = n
         /\ \A c \in {"lookup", "rollback", "done"} :
              [row EXCEPT !.client = c] \in Submission /\ [row EXCEPT !.client = c].net = row.net
BY DEF Submission

LEMMA RunRow ==
  ASSUME NEW row \in Run
  PROVE  /\ \A s \in {"saving", "reporting"} :
              /\ [row EXCEPT !.step = s] \in Run /\ [row EXCEPT !.step = s].step = s
              /\ [row EXCEPT !.step = s].attempt = row.attempt
         /\ [row EXCEPT !.aborted = TRUE] \in Run /\ [row EXCEPT !.aborted = TRUE].step = row.step
         /\ [row EXCEPT !.aborted = TRUE].attempt = row.attempt
BY DEF Run

(* What the Proxy answers a retry, and the call that answers it. *)
LEMMA AnsweredTypes ==
  ASSUME retry \in [Retriers -> RetryCall \cup {NoRetry}], NEW i, NEW s \in {"prepared", "refused"}
  PROVE  /\ Answered(i, s) \in [Retriers -> RetryCall \cup {NoRetry}]
         /\ \A r \in Retriers :
              /\ Answered(i, s)[r] = NoRetry <=> retry[r] = NoRetry
              /\ retry[r] # NoRetry =>
                   /\ Answered(i, s)[r].attempt = retry[r].attempt
                   /\ \/ Answered(i, s)[r].step = retry[r].step
                      \/ retry[r].step = "prepare" /\ Answered(i, s)[r].step = s
<1>1. ASSUME NEW r \in Retriers
      PROVE  /\ Answered(i, s)[r] \in RetryCall \cup {NoRetry}
             /\ Answered(i, s)[r] = NoRetry <=> retry[r] = NoRetry
             /\ retry[r] # NoRetry =>
                  /\ Answered(i, s)[r].attempt = retry[r].attempt
                  /\ \/ Answered(i, s)[r].step = retry[r].step
                     \/ retry[r].step = "prepare" /\ Answered(i, s)[r].step = s
  <2> DEFINE row == retry[r]
  <2>1. CASE row # NoRetry /\ row.attempt = i /\ row.step = "prepare"
    <3>1. Answered(i, s)[r] = [row EXCEPT !.step = s] /\ row \in RetryCall
      BY <2>1 DEF Answered
    <3> HIDE DEF row
    <3>2. [row EXCEPT !.step = s] \in RetryCall /\ [row EXCEPT !.step = s].attempt = row.attempt
          /\ [row EXCEPT !.step = s].step = s
      <4>1. row \in RetryCall /\ s \in {"asked", "prepare", "prepared", "refused", "release"}
        BY <3>1
      <4> QED
        BY <4>1, RetryRow
    <3>3. [row EXCEPT !.step = s] # NoRetry
      BY <3>2, AbsenceAssumption
    <3> QED
      BY <2>1, <3>1, <3>2, <3>3 DEF row
  <2>2. CASE ~(row # NoRetry /\ row.attempt = i /\ row.step = "prepare")
    BY <2>2 DEF Answered
  <2> QED
    BY <2>1, <2>2
<1> QED
  BY <1>1 DEF Answered

(* Every step keeps the types of the calls and of the rows of the Proxy. *)
LEMMA CallTypesStep ==
  ASSUME TypeOK, RetriesAgree(retry, pending, run), Next
  PROVE  CallTypesOK'
<1>0. TablesOK /\ CallTypesOK
  BY TypesSplit
<1>1. LoginAssumption
  BY LoginAssumption
<1>2. ASSUME NEW i \in Attempts, Reauthorize(i) PROVE CallTypesOK'
  <2>1. [net |-> "sent", client |-> "waiting"] \in Submission
    BY DEF Submission
  <2>2. oauth' \in OauthTable
    BY <1>0, <1>2, OauthRows DEF Reauthorize, CallTypesOK, OauthTable
  <2> QED
    BY <1>0, <1>2, <2>1, <2>2 DEF Reauthorize, CallTypesOK, OauthTable, loginVars, envVars
<1>3. ASSUME NEW i \in Attempts, submission[i] # NoSubmission,
             \/ \E n \in {"accepted", "rejected", "dead"} :
                  submission' = [submission EXCEPT ![i] = [submission[i] EXCEPT !.net = n]]
             \/ \E c \in {"lookup", "rollback", "done"} :
                  submission' = [submission EXCEPT ![i] = [submission[i] EXCEPT !.client = c]]
      PROVE  submission' \in [Attempts -> Submission \cup {NoSubmission}]
  <2> DEFINE row == submission[i]
  <2>1. row \in Submission
    BY <1>0, <1>3 DEF CallTypesOK
  <2>2. /\ \A n \in {"accepted", "rejected", "dead"} : [row EXCEPT !.net = n] \in Submission
        /\ \A c \in {"lookup", "rollback", "done"} : [row EXCEPT !.client = c] \in Submission
    <3> HIDE DEF row
    <3> QED
      BY <2>1, SubmissionRow
  <2> QED
    BY <1>0, <1>3, <2>2 DEF CallTypesOK
<1>4. ASSUME NEW i \in Attempts, Enqueue(i) PROVE CallTypesOK'
  <2>1. submission' \in [Attempts -> Submission \cup {NoSubmission}]
    <3>1. /\ submission[i] # NoSubmission
          /\ \E n \in {"accepted", "rejected", "dead"} :
               submission' = [submission EXCEPT ![i] = [submission[i] EXCEPT !.net = n]]
      BY <1>4 DEF Enqueue
    <3> QED
      BY <1>3, <3>1
  <2> QED
    BY <1>0, <1>4, <2>1 DEF Enqueue, CallTypesOK, envVars
<1>5. ASSUME NEW i \in Attempts, DropSubmission(i) PROVE CallTypesOK'
  <2>1. submission' \in [Attempts -> Submission \cup {NoSubmission}]
    <3>1. /\ submission[i] # NoSubmission
          /\ \E n \in {"accepted", "rejected", "dead"} :
               submission' = [submission EXCEPT ![i] = [submission[i] EXCEPT !.net = n]]
      BY <1>5 DEF DropSubmission
    <3> QED
      BY <1>3, <3>1
  <2> QED
    BY <1>0, <1>5, <2>1 DEF DropSubmission, CallTypesOK, loginVars
<1>6. ASSUME NEW i \in Attempts, SubmissionAnswered(i) PROVE CallTypesOK'
  <2>1. submission' \in [Attempts -> Submission \cup {NoSubmission}]
    <3>1. /\ submission[i] # NoSubmission
          /\ \E c \in {"lookup", "rollback", "done"} :
               submission' = [submission EXCEPT ![i] = [submission[i] EXCEPT !.client = c]]
      BY <1>6 DEF SubmissionAnswered
    <3> QED
      BY <1>3, <3>1
  <2>2. oauth' \in OauthTable /\ released' \subseteq Attempts
    <3>1. Fail(i) \/ UNCHANGED <<oauth, released>>
      BY <1>6 DEF SubmissionAnswered
    <3> QED
      BY <1>0, <3>1, FailTypes DEF CallTypesOK, OauthTable
  <2>3. losses' \in Nat
    BY <1>0, <1>6 DEF SubmissionAnswered, CallTypesOK
  <2> QED
    BY <1>0, <1>6, <2>1, <2>2, <2>3 DEF SubmissionAnswered, CallTypesOK, loginVars, OauthTable
<1>7. ASSUME NEW i \in Attempts, SaveChecked(i) PROVE CallTypesOK'
  BY <1>0, <1>7 DEF SaveChecked, CallTypesOK, loginVars, envVars
<1>8. ASSUME NEW i \in Attempts, SaveToken(i) PROVE CallTypesOK'
  <2>1. oauth' \in OauthTable
    <3>1. \/ oauth' = [oauth EXCEPT ![AccountOf[i]] = [status |-> "valid", attempt |-> NoAttempt, token |-> i]]
          \/ oauth' = oauth
      BY <1>8 DEF SaveToken
    <3>2. oauth \in OauthTable
      BY <1>0 DEF CallTypesOK, OauthTable
    <3> QED
      BY <3>1, <3>2, OauthRows
  <2> QED
    BY <1>0, <1>8, <2>1 DEF SaveToken, CallTypesOK, loginVars, envVars, OauthTable
<1>9. ASSUME NEW i \in Attempts, SubjectFails(i) PROVE CallTypesOK'
  <2>1. oauth' \in OauthTable /\ released' \subseteq Attempts
    <3>1. Fail(i) \/ UNCHANGED <<oauth, released>>
      BY <1>9 DEF SubjectFails
    <3> QED
      BY <1>0, <3>1, FailTypes DEF CallTypesOK, OauthTable
  <2> QED
    BY <1>0, <1>9, <2>1 DEF SubjectFails, CallTypesOK, loginVars, envVars, OauthTable
<1>10. ASSUME NEW i \in Attempts, MarkFailed(i) PROVE CallTypesOK'
  <2>1. oauth' \in OauthTable /\ released' \subseteq Attempts
    <3>1. Fail(i)
      BY <1>10 DEF MarkFailed
    <3> QED
      BY <1>0, <3>1, FailTypes DEF CallTypesOK, OauthTable
  <2> QED
    BY <1>0, <1>10, <2>1 DEF MarkFailed, CallTypesOK, loginVars, envVars, OauthTable
<1>11. ASSUME NEW i \in Attempts, DropReport(i) PROVE CallTypesOK'
  BY <1>0, <1>11 DEF DropReport, CallTypesOK, loginVars
<1>12. ASSUME NEW t \in Tasks, run[t] # NoRun PROVE run[t] \in Run /\ run[t].attempt \in Attempts
  <2>1. run[t] \in Run
    BY <1>0, <1>12 DEF TablesOK, RunTable
  <2> QED
    BY <2>1 DEF Run
<1>13. ASSUME NEW t \in Tasks, RunNext(t) PROVE CallTypesOK'
  <2>1. CASE FlowSucceeds(t)
    BY <1>0, <1>12, <2>1 DEF FlowSucceeds, CallTypesOK, envVars
  <2>2. CASE FlowFails(t)
    BY <1>0, <1>12, <2>2 DEF FlowFails, FailRun, CallTypesOK, envVars
  <2>3. CASE SaveSucceeds(t)
    BY <1>0, <2>3 DEF SaveSucceeds, CallTypesOK, callVars, envVars
  <2>4. CASE SaveFails(t)
    BY <1>0, <1>12, <2>4 DEF SaveFails, FailRun, CallTypesOK
  <2>5. CASE ReportEnds(t)
    BY <1>0, <2>5 DEF ReportEnds, CallTypesOK, callVars, envVars
  <2> QED
    BY <1>13, <2>1, <2>2, <2>3, <2>4, <2>5 DEF RunNext
<1>14. ASSUME NEW t \in Tasks, Exists(t) PROVE task[t] \in TaskRow /\ task[t].attempt \in Attempts
  <2>1. task[t] \in TaskRow
    BY <1>0, <1>14 DEF TablesOK, TaskTable, Exists
  <2> QED
    BY <2>1 DEF TaskRow
<1>15. ASSUME NEW t \in Tasks, Exists(t)
       PROVE  Finishing(t) \in [Tasks -> Finisher \cup {NoFinisher}]
  <2>1. [attempt |-> task[t].attempt, step |-> "waiting"] \in Finisher
    BY <1>14, <1>15 DEF Finisher
  <2> QED
    BY <1>0, <2>1 DEF Finishing, CallTypesOK
<1>16. ASSUME NEW t \in Tasks, Cancel(t) PROVE CallTypesOK'
  BY <1>0, <1>15, <1>16 DEF Cancel, CancelTask, CallTypesOK, callVars, envVars
<1>17. ASSUME NEW t \in Tasks, FinishCancellation(t) PROVE CallTypesOK'
  <2>1. finisher[t] \in Finisher
    BY <1>0, <1>17 DEF FinishCancellation, CallTypesOK
  <2>2. finisher[t].attempt \in Attempts
    BY <2>1 DEF Finisher
  <2>3. [attempt |-> finisher[t].attempt, step |-> "reporting"] \in Finisher
    BY <2>2 DEF Finisher
  <2> QED
    BY <1>0, <1>17, <2>2, <2>3 DEF FinishCancellation, CallTypesOK, envVars
<1>18. ASSUME NEW t \in Tasks, ClaimDeletion(t) \/ EndDeletion(t) PROVE CallTypesOK'
  BY <1>0, <1>18 DEF ClaimDeletion, EndDeletion, CallTypesOK, callVars, envVars
<1>19. ASSUME NEW r \in Retriers, retry[r] # NoRetry
       PROVE  /\ retry[r] \in RetryCall /\ retry[r].task \in Tasks /\ retry[r].previous \in Attempts
              /\ retry[r].attempt \in Attempts \cup {NoAttempt}
  <2>1. retry[r] \in RetryCall
    BY <1>0, <1>19 DEF CallTypesOK
  <2> QED
    BY <2>1 DEF RetryCall
<1>20. ASSUME NEW r \in Retriers, NEW t \in Tasks, RetryAsks(r, t) PROVE CallTypesOK'
  <2>1. [task |-> t, previous |-> task[t].attempt, attempt |-> NoAttempt, step |-> "asked"] \in RetryCall
    BY <1>14, <1>20 DEF RetryAsks, RetryCall
  <2> QED
    BY <1>0, <1>20, <2>1 DEF RetryAsks, CallTypesOK, callVars, envVars
<1>21. ASSUME NEW r \in Retriers, NEW i \in Attempts, RetryReserves(r, i) PROVE CallTypesOK'
  <2>1. retry[r] # NoRetry /\ retry[r].task \in Tasks /\ retry[r].previous \in Attempts
    BY <1>19, <1>21 DEF RetryReserves
  <2>2. [task |-> retry[r].task, previous |-> retry[r].previous, attempt |-> i, step |-> "prepare"] \in RetryCall
    BY <2>1 DEF RetryCall
  <2>3. [attempt |-> i, previous |-> retry[r].previous, checked |-> FALSE] \in Prepare
    BY <2>1 DEF Prepare
  <2> QED
    BY <1>0, <1>21, <2>2, <2>3 DEF RetryReserves, CallTypesOK, envVars
<1>22. ASSUME NEW r \in Retriers, retry[r] # NoRetry
       PROVE  [retry EXCEPT ![r] = [retry[r] EXCEPT !.step = "release"]] \in [Retriers -> RetryCall \cup {NoRetry}]
  <2> DEFINE row == retry[r]
  <2>1. row \in RetryCall
    BY <1>19, <1>22
  <2>2. [row EXCEPT !.step = "release"] \in RetryCall
    <3> HIDE DEF row
    <3> QED
      BY <2>1, RetryRow
  <2> QED
    BY <1>0, <2>2 DEF CallTypesOK
<1>23. ASSUME NEW r \in Retriers, RetryNext(r) PROVE CallTypesOK'
  <2>0. \A s \in {"prepared", "prepare", "refused"} :
          retry[r] # NoRetry /\ retry[r].step = s => retry[r].attempt # NoAttempt
    BY DEF RetriesAgree
  <2>1. retry[r] # NoRetry /\ retry[r].task \in Tasks
    BY <1>19, <1>23 DEF RetryNext, RetryPrepared, RetryFails, RetryReleased
  <2>2. CASE RetryPrepared(r)
    <3>1. retry[r].attempt \in Attempts
      BY <1>19, <2>0, <2>2 DEF RetryPrepared
    <3>2. retry' \in [Retriers -> RetryCall \cup {NoRetry}] /\ reports' \subseteq Attempts
      BY <1>0, <1>22, <2>1, <2>2, <3>1 DEF RetryPrepared, CallTypesOK
    <3>3. finisher' \in [Tasks -> Finisher \cup {NoFinisher}]
      BY <1>0, <1>15, <2>1, <2>2 DEF RetryPrepared, CancelTask, CallTypesOK
    <3> QED
      BY <1>0, <2>2, <3>2, <3>3 DEF RetryPrepared, CallTypesOK, envVars
  <2>3. CASE RetryFails(r)
    <3>1. retry[r].attempt \in Attempts
      BY <1>19, <2>0, <2>3 DEF RetryFails
    <3>2. retry' \in [Retriers -> RetryCall \cup {NoRetry}] /\ reports' \subseteq Attempts
      BY <1>0, <1>22, <2>1, <2>3, <3>1 DEF RetryFails, CallTypesOK
    <3>3. finisher' \in [Tasks -> Finisher \cup {NoFinisher}]
      BY <1>0, <1>15, <2>1, <2>3 DEF RetryFails, CancelTask, CallTypesOK
    <3>4. losses' \in Nat
      BY <1>0, <2>3 DEF RetryFails, CallTypesOK
    <3> QED
      BY <1>0, <2>3, <3>2, <3>3, <3>4 DEF RetryFails, CallTypesOK
  <2>4. CASE RetryReleased(r)
    BY <1>0, <2>4 DEF RetryReleased, CallTypesOK, callVars, envVars
  <2> QED
    BY <1>23, <2>2, <2>3, <2>4 DEF RetryNext
<1>24. CASE StopAccepting
  BY <1>0, <1>24 DEF StopAccepting, CallTypesOK, loginVars, callVars
<1>25. CASE Crash
  <2>1. finisher' \in [Tasks -> Finisher \cup {NoFinisher}] /\ retry' \in [Retriers -> RetryCall \cup {NoRetry}]
    BY <1>25 DEF Crash
  <2>2. crashes' \in Nat
    BY <1>0, <1>25 DEF Crash, CallTypesOK
  <2>3. /\ up' \in BOOLEAN
        /\ UNCHANGED <<oauth, submission, saveCall, prepares, reports, accepting, losses, stored, released>>
    BY <1>25 DEF Crash, callVars
  <2> QED
    BY <1>0, <2>1, <2>2, <2>3 DEF CallTypesOK
<1>26. CASE Recover
  <2>1. {task[t].attempt : t \in Unfinished} \subseteq Attempts
    BY <1>14 DEF Unfinished
  <2> QED
    BY <1>0, <1>26, <2>1 DEF Recover, CallTypesOK
<1>27. ASSUME NEW p \in prepares, PrepareAttempt(p) PROVE CallTypesOK'
  <2>1. p \in Prepare /\ p.attempt \in Attempts /\ [p EXCEPT !.checked = TRUE] \in Prepare
    <3>1. p \in Prepare
      BY <1>0 DEF CallTypesOK
    <3> QED
      BY <3>1 DEF Prepare
  <2>2. oauth' \in OauthTable
    <3>1. oauth \in OauthTable
      BY <1>0 DEF CallTypesOK, OauthTable
    <3>2. Begun(p.attempt) \in OauthTable
      BY <2>1, <3>1, OauthRows
    <3>3. oauth' = oauth \/ oauth' = Begun(p.attempt)
      BY <1>27 DEF PrepareAttempt
    <3> QED
      BY ONLY <3>1, <3>2, <3>3
  <2>3. retry' \in [Retriers -> RetryCall \cup {NoRetry}]
    <3>1. \A s \in {"prepared", "refused"} : Answered(p.attempt, s) \in [Retriers -> RetryCall \cup {NoRetry}]
      BY <1>0, AnsweredTypes DEF CallTypesOK
    <3> QED
      BY <1>0, <1>27, <3>1 DEF PrepareAttempt, CallTypesOK
  <2>4. prepares' \subseteq Prepare
    BY <1>0, <1>27, <2>1 DEF PrepareAttempt, CallTypesOK
  <2> QED
    BY <1>0, <1>27, <2>2, <2>3, <2>4 DEF PrepareAttempt, CallTypesOK, envVars, OauthTable
<1>28. ASSUME NEW a \in Accounts, Invalidate(a) PROVE CallTypesOK'
  <2>1. [status |-> "expired", attempt |-> NoAttempt, token |-> NoAttempt] \in OauthRow
    BY DEF OauthRow
  <2> QED
    BY <1>0, <1>28, <2>1 DEF Invalidate, CallTypesOK, loginVars, callVars, envVars
<1> QED
  BY <1>2, <1>4, <1>5, <1>6, <1>7, <1>8, <1>9, <1>10, <1>11, <1>13, <1>16, <1>17, <1>18, <1>20, <1>21, <1>23,
     <1>24, <1>25, <1>26, <1>27, <1>28 DEF Next
-----------------------------------------------------------------------------
(* Steps of the queue *)

(* A run ends, goes on, or only reports. *)
RunMoved(rs, t, x, rs2) ==
  /\ t \in Tasks /\ rs[t] # NoRun
  /\ \/ x = NoRun
     \/ /\ x \in Run /\ x.attempt = rs[t].attempt
        /\ x.step # "reporting" => rs[t].step # "reporting"
  /\ rs2 = [rs EXCEPT ![t] = x]

LEMMA RunMoves ==
  ASSUME NEW q, NEW rs, NEW ts, NEW rt, NEW t, NEW x, NEW rs2,
         QueueSound(q, rs, ts), RunMoved(rs, t, x, rs2)
  PROVE  QueueSound(q, rs2, ts) /\ (RetriesAgree(rt, q, rs) => RetriesAgree(rt, q, rs2))
<1>1. /\ t \in Tasks /\ rs[t] # NoRun /\ rs \in RunTable /\ q \in Seq(Entry)
      /\ rs2 = [rs EXCEPT ![t] = x] /\ x \in Run \cup {NoRun}
      /\ x # NoRun => x.attempt = rs[t].attempt /\ (x.step # "reporting" => rs[t].step # "reporting")
  BY DEF QueueSound, RunMoved
<1>2. rs2[t] = x /\ (\A u \in Tasks : u # t => rs2[u] = rs[u]) /\ rs2 \in RunTable
  BY <1>1 DEF RunTable
<1>3. RunsAgree(rs2, ts)
  BY <1>1, <1>2 DEF QueueSound, RunsAgree
<1>4. QueueAgrees(q, rs2, ts)
  <2>1. \A k \in DOMAIN q : q[k].task \in Tasks
    <3>1. \A k \in DOMAIN q : q[k] \in Entry
      BY <1>1
    <3> QED
      BY <3>1 DEF Entry
  <2> QED
    BY <1>1, <1>2, <2>1 DEF QueueSound, QueueAgrees
<1>5. RetriesAgree(rt, q, rs) => RetriesAgree(rt, q, rs2)
  <2> SUFFICES ASSUME RetriesAgree(rt, q, rs) PROVE RetriesAgree(rt, q, rs2)
    OBVIOUS
  <2>1. \A u \in Tasks : rs2[u] # NoRun /\ rs2[u].step # "reporting" =>
          rs[u] # NoRun /\ rs[u].step # "reporting" /\ rs[u].attempt = rs2[u].attempt
    BY <1>1, <1>2
  <2> QED
    BY <2>1 DEF RetriesAgree
<1> QED
  BY <1>1, <1>2, <1>3, <1>4, <1>5 DEF QueueSound

(* A pending task joins the queue. *)
Joined(q, rs, ts, t, row, ts2) ==
  /\ t \in Tasks /\ row \in TaskRow /\ row.status = "pending"
  /\ rs[t] = NoRun /\ \A k \in DOMAIN q : q[k].task # t
  /\ ts2 = [ts EXCEPT ![t] = row]

NewEntry(t, i) == [task |-> t, attempt |-> i]

LEMMA Appended ==
  ASSUME NEW q \in Seq(Entry), NEW t \in Tasks, NEW i \in Attempts
  PROVE  /\ Append(q, NewEntry(t, i)) \in Seq(Entry)
         /\ \A k \in DOMAIN q : k \in DOMAIN Append(q, NewEntry(t, i)) /\ Append(q, NewEntry(t, i))[k] = q[k]
         /\ \E k \in DOMAIN Append(q, NewEntry(t, i)) : Append(q, NewEntry(t, i))[k] = NewEntry(t, i)
         /\ \A k \in DOMAIN Append(q, NewEntry(t, i)) :
              \/ k \in DOMAIN q /\ Append(q, NewEntry(t, i))[k] = q[k]
              \/ k = Len(q) + 1 /\ Append(q, NewEntry(t, i))[k] = NewEntry(t, i)
         /\ NewEntry(t, i).task = t /\ NewEntry(t, i).attempt = i
<1>1. NewEntry(t, i) \in Entry /\ NewEntry(t, i).task = t /\ NewEntry(t, i).attempt = i
  BY DEF NewEntry, Entry
<1> QED
  BY <1>1

LEMMA EntryJoins ==
  ASSUME NEW q, NEW rs, NEW ts, NEW rt, NEW t, NEW row, NEW ts2, ts \in TaskTable,
         QueueSound(q, rs, ts), Joined(q, rs, ts, t, row, ts2),
         \A r \in Retriers : rt[r] # NoRetry => rt[r].attempt # row.attempt
  PROVE  /\ QueueSound(Append(q, NewEntry(t, row.attempt)), rs, ts2)
         /\ RetriesAgree(rt, q, rs) => RetriesAgree(rt, Append(q, NewEntry(t, row.attempt)), rs)
<1> DEFINE i == row.attempt
           q2 == Append(q, NewEntry(t, i))
<1>1. /\ t \in Tasks /\ row \in TaskRow /\ row.status = "pending" /\ rs \in RunTable /\ q \in Seq(Entry)
      /\ rs[t] = NoRun /\ (\A k \in DOMAIN q : q[k].task # t) /\ ts2 = [ts EXCEPT ![t] = row]
      /\ RunsAgree(rs, ts) /\ QueueAgrees(q, rs, ts) /\ QueueHolds(q, ts)
  BY DEF QueueSound, Joined
<1>2. i \in Attempts /\ row \notin {NoTask, GoneTask}
  BY <1>1, RowsAreRecords DEF TaskRow
<1>3. /\ q2 \in Seq(Entry)
      /\ \A k \in DOMAIN q : k \in DOMAIN q2 /\ q2[k] = q[k]
      /\ \E k \in DOMAIN q2 : q2[k] = NewEntry(t, i)
      /\ \A k \in DOMAIN q2 : \/ k \in DOMAIN q /\ q2[k] = q[k]
                              \/ k = Len(q) + 1 /\ q2[k] = NewEntry(t, i)
      /\ NewEntry(t, i).task = t /\ NewEntry(t, i).attempt = i
  <2>1. t \in Tasks /\ q \in Seq(Entry) /\ i \in Attempts
    BY <1>1, <1>2
  <2> HIDE DEF i
  <2> QED
    BY <2>1, Appended
<1> HIDE DEF q2
<1>4. ts2[t] = row /\ \A u \in Tasks : u # t => ts2[u] = ts[u]
  BY <1>1 DEF TaskTable
<1>5. \A k \in DOMAIN q : q[k].task \in Tasks
  <2>1. \A k \in DOMAIN q : q[k] \in Entry
    BY <1>1
  <2> QED
    BY <2>1 DEF Entry
<1>6. RunsAgree(rs, ts2)
  BY <1>1, <1>4 DEF RunsAgree
<1>7. QueueAgrees(q2, rs, ts2)
  <2>1. ASSUME NEW k \in DOMAIN q2
        PROVE  /\ ts2[q2[k].task] \notin {NoTask, GoneTask} /\ ts2[q2[k].task].attempt = q2[k].attempt
               /\ ts2[q2[k].task].status = "pending" /\ rs[q2[k].task] = NoRun
    <3>1. CASE k \in DOMAIN q /\ q2[k] = q[k]
      BY <1>1, <1>4, <1>5, <3>1 DEF QueueAgrees
    <3>2. CASE q2[k] = NewEntry(t, i)
      BY <1>1, <1>2, <1>3, <1>4, <3>2
    <3> QED
      BY <1>3, <3>1, <3>2
  <2>2. \A j, k \in DOMAIN q2 : q2[j].task = q2[k].task => j = k
    BY <1>1, <1>3 DEF QueueAgrees
  <2> QED
    BY <2>1, <2>2 DEF QueueAgrees
<1>8. QueueHolds(q2, ts2)
  BY <1>1, <1>3, <1>4 DEF QueueHolds, NewEntry
<1>9. RetriesAgree(rt, q, rs) => RetriesAgree(rt, q2, rs)
  <2> SUFFICES ASSUME RetriesAgree(rt, q, rs) PROVE RetriesAgree(rt, q2, rs)
    OBVIOUS
  <2>1. ASSUME NEW r \in Retriers, rt[r] # NoRetry, rt[r].step \in {"prepare", "prepared", "refused"},
               NEW k \in DOMAIN q2
        PROVE  q2[k].attempt # rt[r].attempt
    BY <1>3, <2>1 DEF RetriesAgree
  <2> QED
    BY <2>1 DEF RetriesAgree
<1> QED
  BY <1>1, <1>3, <1>6, <1>7, <1>8, <1>9 DEF QueueSound, q2

(* The calls of retryTask only go on and end. *)
RetriesMove(rt, rt2) ==
  \A r \in Retriers : rt2[r] # NoRetry =>
    /\ rt[r] # NoRetry /\ rt2[r].attempt = rt[r].attempt
    /\ \/ rt2[r].step = rt[r].step
       \/ rt2[r].step \in {"prepared", "refused"} /\ rt[r].step = "prepare"
       \/ rt2[r].step = "release" /\ rt[r].step \in {"prepare", "prepared", "refused"}

LEMMA RetriesGoOn ==
  ASSUME NEW q, NEW rs, NEW as, NEW sub, NEW rt, NEW rt2, RetriesMove(rt, rt2)
  PROVE  /\ RetriesAgree(rt, q, rs) => RetriesAgree(rt2, q, rs)
         /\ SubmissionsAgree(sub, rt, as) => SubmissionsAgree(sub, rt2, as)
<1>1. RetriesAgree(rt, q, rs) => RetriesAgree(rt2, q, rs)
  <2> SUFFICES ASSUME RetriesAgree(rt, q, rs) PROVE RetriesAgree(rt2, q, rs)
    OBVIOUS
  <2>1. ASSUME NEW r \in Retriers, rt2[r] # NoRetry
        PROVE  /\ rt2[r].step = "asked" <=> rt2[r].attempt = NoAttempt
               /\ rt2[r].step \in {"prepare", "prepared", "refused"} =>
                    /\ \A k \in DOMAIN q : q[k].attempt # rt2[r].attempt
                    /\ \A t \in Tasks : rs[t] # NoRun /\ rs[t].step # "reporting" => rs[t].attempt # rt2[r].attempt
    BY <2>1 DEF RetriesAgree, RetriesMove
  <2>2. \A r, s \in Retriers :
          rt2[r] # NoRetry /\ rt2[s] # NoRetry /\ rt2[r].attempt = rt2[s].attempt /\ rt2[r].attempt # NoAttempt
          => r = s
    BY DEF RetriesAgree, RetriesMove
  <2> QED
    BY <2>1, <2>2 DEF RetriesAgree
<1>2. SubmissionsAgree(sub, rt, as) => SubmissionsAgree(sub, rt2, as)
  BY DEF SubmissionsAgree, RetriesMove
<1> QED
  BY <1>1, <1>2

(* Submissions do not notice rows that come to others, or go. *)
LEMMA SubmissionsStay ==
  ASSUME NEW sub, NEW rt, NEW as, NEW as2, SubmissionsAgree(sub, rt, as),
         \A i \in Attempts : sub[i] # NoSubmission /\ sub[i].net = "sent" /\ as[i] = NoRow => as2[i] = NoRow
  PROVE  SubmissionsAgree(sub, rt, as2)
BY DEF SubmissionsAgree

(* An attempt starts: a new task, or the next attempt of one that failed. *)
Begins(ts, as, t, i, row, ts2, as2) ==
  /\ t \in Tasks /\ i \in Attempts /\ as[i] = NoRow
  /\ ts[t] # GoneTask /\ (ts[t] # NoTask => ts[t].status \in Finished)
  /\ row \in TaskRow /\ row.attempt = i /\ row.account = AccountOf[i]
  /\ row.status = "pending" /\ row.stage \in {"queued", "preparing"}
  /\ \A u \in Tasks : ts[u] \notin {NoTask, GoneTask} /\ ts[u].status \in Active => ts[u].account # row.account
  /\ ts2 = [ts EXCEPT ![t] = row]
  /\ as2 = [as EXCEPT ![i] = [task |-> t, status |-> "pending"]]

LEMMA AttemptBegins ==
  ASSUME NEW ts, NEW as, NEW t, NEW i, NEW row, NEW ts2, NEW as2,
         RowsSound(ts, as), Begins(ts, as, t, i, row, ts2, as2)
  PROVE  RowsSound(ts2, as2) /\ \A j \in Attempts : j # i => as2[j] = as[j]
<1>a. ts \in TaskTable /\ as \in RowTable /\ RowsAgree(ts, as) /\ OneActive(ts)
  BY DEF RowsSound
<1>b. /\ t \in Tasks /\ i \in Attempts /\ as[i] = NoRow
      /\ ts[t] # GoneTask /\ (ts[t] # NoTask => ts[t].status \in Finished)
      /\ row \in TaskRow /\ row.attempt = i /\ row.account = AccountOf[i]
      /\ row.status = "pending" /\ row.stage \in {"queued", "preparing"}
      /\ \A u \in Tasks : ts[u] \notin {NoTask, GoneTask} /\ ts[u].status \in Active => ts[u].account # row.account
      /\ ts2 = [ts EXCEPT ![t] = row]
      /\ as2 = [as EXCEPT ![i] = [task |-> t, status |-> "pending"]]
  BY DEF Begins
<1> DEFINE arow == [task |-> t, status |-> "pending"]
<1>1. arow \in AttemptRow /\ arow.task = t /\ arow.status = "pending"
  BY <1>b DEF AttemptRow, Active
<1>2. as2 = [as EXCEPT ![i] = arow]
  BY <1>b
<1> HIDE DEF arow
<1>3. ts2[t] = row /\ \A u \in Tasks : u # t => ts2[u] = ts[u]
  BY <1>a, <1>b DEF TaskTable
<1>4. as2[i] = arow /\ \A j \in Attempts : j # i => as2[j] = as[j]
  BY <1>a, <1>b, <1>2 DEF RowTable
<1>5. row \notin {NoTask, GoneTask} /\ arow # NoRow
  BY <1>b, <1>1, RowsAreRecords
<1>6. ts2 \in TaskTable /\ as2 \in RowTable
  BY <1>a, <1>b, <1>1, <1>2 DEF TaskTable, RowTable
<1>7. ASSUME NEW j \in Attempts, as2[j] # NoRow
      PROVE  /\ ts2[as2[j].task] \notin {NoTask, GoneTask}
             /\ IF ts2[as2[j].task].attempt = j THEN as2[j].status = ts2[as2[j].task].status
                ELSE as2[j].status \in Finished
  <2>1. CASE j = i
    <3>1. as2[j].task = t /\ as2[j].status = "pending" /\ ts2[t] = row
      BY <1>1, <1>3, <1>4, <2>1
    <3> QED
      BY <1>b, <1>5, <2>1, <3>1
  <2>2. CASE j # i
    <3> DEFINE u == as[j].task
    <3>1. as2[j] = as[j] /\ as[j] # NoRow /\ as[j] \in AttemptRow
      BY <1>a, <1>4, <1>7, <2>2 DEF RowTable
    <3>2. u \in Tasks
      BY <3>1 DEF AttemptRow
    <3>3. /\ ts[u] \notin {NoTask, GoneTask}
          /\ IF ts[u].attempt = j THEN as[j].status = ts[u].status ELSE as[j].status \in Finished
      BY <1>a, <3>1 DEF RowsAgree
    <3> HIDE DEF u
    <3>4. as2[j].task = u /\ as2[j].status = as[j].status
      BY <3>1 DEF u
    <3>5. CASE u = t
      <4>1. as[j].status \in Finished
        BY <1>b, <3>3, <3>5
      <4>2. ts2[as2[j].task] = row /\ row.attempt # j
        BY <1>b, <1>3, <2>2, <3>4, <3>5
      <4> QED
        BY <1>5, <3>4, <4>1, <4>2
    <3>6. CASE u # t
      BY <1>3, <3>2, <3>3, <3>4, <3>6
    <3> QED
      BY <3>5, <3>6
  <2> QED
    BY <2>1, <2>2
<1>8. ASSUME NEW u \in Tasks, ts2[u] \notin {NoTask, GoneTask}
      PROVE  /\ as2[ts2[u].attempt] # NoRow /\ as2[ts2[u].attempt].task = u
             /\ AccountOf[ts2[u].attempt] = ts2[u].account
             /\ ts2[u].status = "pending" => ts2[u].stage \in {"queued", "preparing"}
             /\ ts2[u].stage = "deleting" => ts2[u].status \in Finished
  <2>1. CASE u = t
    <3>1. ts2[u] = row /\ as2[row.attempt] = arow
      BY <1>b, <1>3, <1>4, <2>1
    <3> QED
      BY <1>b, <1>1, <1>5, <2>1, <3>1
  <2>2. CASE u # t
    <3>1. ts2[u] = ts[u] /\ ts[u] \notin {NoTask, GoneTask}
      BY <1>3, <1>8, <2>2
    <3>2. /\ as[ts[u].attempt] # NoRow /\ as[ts[u].attempt].task = u
          /\ AccountOf[ts[u].attempt] = ts[u].account
          /\ ts[u].status = "pending" => ts[u].stage \in {"queued", "preparing"}
          /\ ts[u].stage = "deleting" => ts[u].status \in Finished
      BY <1>a, <3>1 DEF RowsAgree
    <3>3. ts[u].attempt # i /\ ts[u].attempt \in Attempts
      BY <1>a, <1>b, <3>1, <3>2 DEF TaskTable, TaskRow
    <3>4. as2[ts[u].attempt] = as[ts[u].attempt]
      BY <1>4, <3>3
    <3> QED
      BY <3>1, <3>2, <3>4
  <2> QED
    BY <2>1, <2>2
<1>9. RowsAgree(ts2, as2)
  BY <1>7, <1>8 DEF RowsAgree
<1>10. OneActive(ts2)
  BY <1>a, <1>b, <1>3 DEF OneActive
<1> QED
  BY <1>4, <1>6, <1>9, <1>10 DEF RowsSound
(* The entry of a task leaves the queue. *)
Without(q, t, q2) ==
  /\ q2 \in Seq(Entry)
  /\ \A k \in DOMAIN q2 : q2[k].task # t /\ \E j \in DOMAIN q : q2[k] = q[j]
  /\ \A j \in DOMAIN q : q[j].task # t => \E k \in DOMAIN q2 : q2[k] = q[j]
  /\ \A j, k \in DOMAIN q2 : q2[j].task = q2[k].task => j = k

LEMMA EntryLeaves ==
  ASSUME pending \in Seq(Entry), \A j, k \in DOMAIN pending : pending[j].task = pending[k].task => j = k,
         NEW t \in Tasks, WithoutEntry(t)
  PROVE  Without(pending, t, pending')
<1> DEFINE own == {k \in DOMAIN pending : pending[k].task = t}
<1>1. CASE own = {} /\ UNCHANGED pending
  BY <1>1 DEF Without
<1>2. CASE \E k \in own : (\A j \in own : k <= j) /\ pending' = RemoveAt(pending, k)
  <2>1. PICK k \in DOMAIN pending : pending[k].task = t /\ pending' = RemoveAt(pending, k)
    BY <1>2
  <2> DEFINE q2 == RemoveAt(pending, k)
             m == Len(pending) - 1
  <2>2. /\ q2 \in Seq(Entry) /\ Len(q2) = m
        /\ \A j \in 1..m : q2[j] = IF j < k THEN pending[j] ELSE pending[j + 1]
    BY SpliceFacts
  <2> HIDE DEF q2
  <2>3. k \in 1..Len(pending) /\ Len(pending) \in Nat /\ m \in Nat /\ DOMAIN q2 = 1..m
    BY <2>2
  <2>4. \A j \in 1..m : \E i \in DOMAIN pending : q2[j] = pending[i] /\ i # k /\ (i = j \/ i = j + 1)
    <3> SUFFICES ASSUME NEW j \in 1..m
                 PROVE  \E i \in DOMAIN pending : q2[j] = pending[i] /\ i # k /\ (i = j \/ i = j + 1)
      OBVIOUS
    <3>1. CASE j < k
      <4>1. j \in DOMAIN pending /\ j # k /\ q2[j] = pending[j]
        BY <2>2, <2>3, <3>1
      <4> QED
        BY <4>1
    <3>2. CASE ~(j < k)
      <4>1. j + 1 \in DOMAIN pending /\ j + 1 # k /\ q2[j] = pending[j + 1]
        BY <2>2, <2>3, <3>2
      <4> QED
        BY <4>1
    <3> QED
      BY <3>1, <3>2
  <2>5. \A j \in 1..m : q2[j].task # t
    BY <2>1, <2>4
  <2>6. ASSUME NEW j \in DOMAIN pending, pending[j].task # t PROVE \E i \in DOMAIN q2 : q2[i] = pending[j]
    <3>1. j # k
      BY <2>1, <2>6
    <3>2. CASE j < k
      <4>1. j \in 1..m /\ q2[j] = pending[j]
        BY <2>2, <2>3, <3>2
      <4> QED
        BY <2>3, <4>1
    <3>3. CASE ~(j < k)
      <4>1. j - 1 \in 1..m /\ ~(j - 1 < k) /\ (j - 1) + 1 = j
        BY <2>3, <3>1, <3>3
      <4>2. q2[j - 1] = pending[j]
        BY <2>2, <4>1
      <4> QED
        BY <2>3, <4>1, <4>2
    <3> QED
      BY <3>2, <3>3
  <2>7. ASSUME NEW i \in 1..m, NEW j \in 1..m, q2[i].task = q2[j].task PROVE i = j
    <3>1. CASE i < k /\ j < k
      <4>1. q2[i] = pending[i] /\ q2[j] = pending[j] /\ i \in DOMAIN pending /\ j \in DOMAIN pending
        BY <2>2, <2>3, <3>1
      <4> QED
        BY <2>7, <4>1
    <3>2. CASE i < k /\ ~(j < k)
      <4>1. q2[i] = pending[i] /\ q2[j] = pending[j + 1] /\ i \in DOMAIN pending /\ j + 1 \in DOMAIN pending
        BY <2>2, <2>3, <3>2
      <4>2. i = j + 1
        BY <2>7, <4>1
      <4> QED
        BY <2>3, <3>2, <4>2
    <3>3. CASE ~(i < k) /\ j < k
      <4>1. q2[j] = pending[j] /\ q2[i] = pending[i + 1] /\ j \in DOMAIN pending /\ i + 1 \in DOMAIN pending
        BY <2>2, <2>3, <3>3
      <4>2. j = i + 1
        BY <2>7, <4>1
      <4> QED
        BY <2>3, <3>3, <4>2
    <3>4. CASE ~(i < k) /\ ~(j < k)
      <4>1. q2[j] = pending[j + 1] /\ q2[i] = pending[i + 1] /\ j + 1 \in DOMAIN pending /\ i + 1 \in DOMAIN pending
        BY <2>2, <2>3, <3>4
      <4>2. j + 1 = i + 1
        BY <2>7, <4>1
      <4> QED
        BY <4>2
    <3> QED
      BY <3>1, <3>2, <3>3, <3>4
  <2>8. pending' = q2
    BY <2>1 DEF q2
  <2>9. \A j \in DOMAIN q2 : q2[j].task # t /\ \E i \in DOMAIN pending : q2[j] = pending[i]
    BY <2>3, <2>4, <2>5
  <2>10. \A i, j \in DOMAIN q2 : q2[i].task = q2[j].task => i = j
    BY <2>3, <2>7
  <2>11. \A j \in DOMAIN pending : pending[j].task # t => \E i \in DOMAIN q2 : q2[i] = pending[j]
    BY <2>6
  <2>12. Without(pending, t, q2)
    <3> HIDE DEF m
    <3> QED
      BY <2>2, <2>9, <2>10, <2>11 DEF Without
  <2> QED
    BY <2>8, <2>12
<1> QED
  BY <1>1, <1>2 DEF WithoutEntry

LEMMA LeavingKeeps ==
  ASSUME NEW q, NEW rs, NEW ts, NEW rt, NEW t, NEW q2, Without(q, t, q2),
         RunsAgree(rs, ts), QueueAgrees(q, rs, ts)
  PROVE  /\ QueueAgrees(q2, rs, ts)
         /\ RetriesAgree(rt, q, rs) => RetriesAgree(rt, q2, rs)
<1>1. QueueAgrees(q2, rs, ts)
  <2>1. ASSUME NEW k \in DOMAIN q2
        PROVE  /\ ts[q2[k].task] \notin {NoTask, GoneTask} /\ ts[q2[k].task].attempt = q2[k].attempt
               /\ ts[q2[k].task].status = "pending" /\ rs[q2[k].task] = NoRun
    <3>1. PICK j \in DOMAIN q : q2[k] = q[j]
      BY DEF Without
    <3> QED
      BY <3>1 DEF QueueAgrees
  <2>2. \A j, k \in DOMAIN q2 : q2[j].task = q2[k].task => j = k
    BY DEF Without
  <2> QED
    BY <2>1, <2>2 DEF QueueAgrees
<1>2. RetriesAgree(rt, q, rs) => RetriesAgree(rt, q2, rs)
  BY DEF RetriesAgree, Without
<1> QED
  BY <1>1, <1>2

(* requestCancellation, and the entry, the run and the task together. *)
LEMMA CancelKeeps ==
  ASSUME NEW t \in Tasks, Exists(t), task[t].status \in Active, CancelTask(t),
         TablesAgree(pending, run, task, attemptRow, retry, submission)
  PROVE  TablesAgree(pending', run', task', attemptRow', retry, submission)
<1>a. /\ RowsSound(task, attemptRow) /\ QueueSound(pending, run, task)
      /\ RetriesAgree(retry, pending, run) /\ SubmissionsAgree(submission, retry, attemptRow)
  BY DEF TablesAgree
<1>b. /\ task \in TaskTable /\ attemptRow \in RowTable /\ RowsAgree(task, attemptRow)
      /\ pending \in Seq(Entry) /\ run \in RunTable
      /\ RunsAgree(run, task) /\ QueueAgrees(pending, run, task) /\ QueueHolds(pending, task)
  BY <1>a DEF RowsSound, QueueSound
<1> DEFINE row == [task[t] EXCEPT !.status = "cancelling"]
           arow == [attemptRow[task[t].attempt] EXCEPT !.status = "cancelling"]
           rs == IF run[t] # NoRun THEN [run EXCEPT ![t] = [run[t] EXCEPT !.aborted = TRUE]] ELSE run
<1>1. /\ task' = [task EXCEPT ![t] = row] /\ attemptRow' = [attemptRow EXCEPT ![task[t].attempt] = arow]
      /\ run' = rs /\ WithoutEntry(t)
  BY DEF CancelTask, StopWork, CancellingRow
<1>2. task[t] \in TaskRow /\ task[t] \notin {NoTask, GoneTask}
  BY <1>b DEF Exists, TaskTable
<1>3. task[t].attempt \in Attempts
  BY <1>2 DEF TaskRow
<1>4. attemptRow[task[t].attempt] \in AttemptRow /\ attemptRow[task[t].attempt].task = t
  BY <1>b, <1>2, <1>3 DEF RowsAgree, RowTable
<1>5. "cancelling" \in Active \cup Finished /\ "cancelling" \in Active
  BY DEF Active
<1>6. /\ row \in TaskRow /\ row.account = task[t].account /\ row.status = "cancelling"
      /\ row.attempt = task[t].attempt /\ row.stage = task[t].stage
  <2> DEFINE old == task[t]
  <2>1. old \in TaskRow
    BY <1>2
  <2> HIDE DEF old
  <2>2. /\ [old EXCEPT !.status = "cancelling"] \in TaskRow
        /\ [old EXCEPT !.status = "cancelling"].account = old.account
        /\ [old EXCEPT !.status = "cancelling"].status = "cancelling"
        /\ [old EXCEPT !.status = "cancelling"].attempt = old.attempt
        /\ [old EXCEPT !.status = "cancelling"].stage = old.stage
    BY <1>5, <2>1, TaskStatus
  <2> QED
    BY <2>2 DEF old
<1>7. arow \in AttemptRow /\ arow.task = t /\ arow.status = "cancelling"
  <2> DEFINE old == attemptRow[task[t].attempt]
  <2>1. old \in AttemptRow /\ old.task = t
    BY <1>4
  <2> HIDE DEF old
  <2>2. /\ [old EXCEPT !.status = "cancelling"] \in AttemptRow
        /\ [old EXCEPT !.status = "cancelling"].status = "cancelling"
        /\ [old EXCEPT !.status = "cancelling"].task = old.task
    BY <1>5, <2>1, AttemptStatus
  <2> QED
    BY <2>1, <2>2 DEF old
<1>8. row.stage = "deleting" => row.status \in Finished
  <2>1. task[t].stage # "deleting"
    BY <1>b, <1>2 DEF RowsAgree, Active, Finished
  <2> QED
    BY <1>6, <2>1
<1> HIDE DEF row, arow
<1>9. Changed(task, attemptRow, t, row, arow, task', attemptRow')
  BY <1>1, <1>2, <1>6, <1>7, <1>8 DEF Changed
<1>10. RowsSound(task', attemptRow') /\ SameRows(attemptRow, attemptRow')
  BY <1>a, <1>9, RowChanges
<1>11. QueueSound(pending, rs, task) /\ RetriesAgree(retry, pending, rs)
  <2>1. CASE run[t] = NoRun
    BY <1>a, <2>1
  <2>2. CASE run[t] # NoRun
    <3> DEFINE x == [run[t] EXCEPT !.aborted = TRUE]
    <3>1. x \in Run /\ x.attempt = run[t].attempt /\ x.step = run[t].step
      <4> DEFINE old == run[t]
      <4>1. old \in Run
        BY <1>b, <2>2 DEF RunTable
      <4> HIDE DEF old
      <4>2. /\ [old EXCEPT !.aborted = TRUE] \in Run /\ [old EXCEPT !.aborted = TRUE].step = old.step
            /\ [old EXCEPT !.aborted = TRUE].attempt = old.attempt
        BY <4>1, RunRow
      <4> QED
        BY <4>2 DEF old
    <3>2. rs = [run EXCEPT ![t] = x]
      BY <2>2
    <3> HIDE DEF x, rs
    <3>3. RunMoved(run, t, x, rs)
      BY <2>2, <3>1, <3>2 DEF RunMoved
    <3> QED
      BY <1>a, <3>3, RunMoves
  <2> QED
    BY <2>1, <2>2
<1>12. run' = rs
  BY <1>1
<1>13. rs[t] # NoRun => run[t] # NoRun /\ rs[t].attempt = run[t].attempt /\ rs[t].step = run[t].step
  <2>1. CASE run[t] = NoRun
    BY <2>1
  <2>2. CASE run[t] # NoRun
    <3> DEFINE old == run[t]
    <3>1. old \in Run
      BY <1>b, <2>2 DEF RunTable
    <3> HIDE DEF old
    <3>2. /\ [old EXCEPT !.aborted = TRUE].step = old.step /\ [old EXCEPT !.aborted = TRUE].attempt = old.attempt
      BY <3>1, RunRow
    <3>3. rs[t] = [old EXCEPT !.aborted = TRUE]
      BY <1>b, <2>2 DEF old, RunTable
    <3> QED
      BY <2>2, <3>2, <3>3 DEF old
  <2> QED
    BY <2>1, <2>2
<1> HIDE DEF rs
<1>14. Without(pending, t, pending')
  BY <1>1, <1>b, EntryLeaves DEF QueueAgrees
<1>15. QueueAgrees(pending', rs, task) /\ RetriesAgree(retry, pending', rs)
  BY <1>11, <1>14, LeavingKeeps DEF QueueSound
<1>16. Apart(pending', rs, task, t, row, task')
  <2>1. \A k \in DOMAIN pending' : pending'[k].task # t
    BY <1>14 DEF Without
  <2>2. rs[t] # NoRun /\ rs[t].step # "reporting" => row.attempt = rs[t].attempt
    BY <1>b, <1>6, <1>13 DEF RunsAgree
  <2>3. row \notin {NoTask, GoneTask}
    BY <1>6, RowsAreRecords
  <2> QED
    BY <1>1, <1>2, <1>6, <2>1, <2>2, <2>3 DEF Apart
<1>17. QueueHolds(pending', task')
  <2> SUFFICES ASSUME NEW u \in Tasks, task'[u] \notin {NoTask, GoneTask}, task'[u].status = "pending",
                      task'[u].stage = "queued"
               PROVE  \E k \in DOMAIN pending' : pending'[k] = [task |-> u, attempt |-> task'[u].attempt]
    BY DEF QueueHolds
  <2>1. u # t
    BY <1>1, <1>2, <1>6, <1>b DEF TaskTable
  <2>2. task'[u] = task[u]
    BY <1>1, <1>b, <2>1 DEF TaskTable
  <2>3. PICK j \in DOMAIN pending : pending[j] = [task |-> u, attempt |-> task[u].attempt]
    BY <1>b, <2>2 DEF QueueHolds
  <2>4. pending[j].task # t
    BY <2>1, <2>3
  <2> QED
    BY <1>14, <2>2, <2>3, <2>4 DEF Without
<1>18. /\ RunsAgree(rs, task) => RunsAgree(rs, task')
       /\ QueueAgrees(pending', rs, task) => QueueAgrees(pending', rs, task')
  <2>1. pending' \in Seq(Entry)
    BY <1>14 DEF Without
  <2> QED
    BY <1>b, <1>16, <2>1, OthersStay
<1>19. QueueSound(pending', rs, task')
  <2>1. pending' \in Seq(Entry) /\ rs \in RunTable /\ RunsAgree(rs, task)
    BY <1>11, <1>14 DEF QueueSound, Without
  <2> QED
    BY <1>15, <1>17, <1>18, <2>1 DEF QueueSound
<1>20. SubmissionsAgree(submission, retry, attemptRow')
  BY <1>a, <1>10, SubmissionsStay DEF SameRows
<1> QED
  BY <1>10, <1>12, <1>15, <1>19, <1>20 DEF TablesAgree
(* A task is closed while none of its entries waits and no browser works on it. *)
LEMMA CloseKeeps ==
  ASSUME NEW rs, TablesAgree(pending, rs, task, attemptRow, retry, submission),
         NEW t \in Tasks, NEW i \in Attempts, NEW s \in Finished,
         CanFinish(t, i) => /\ rs[t] # NoRun => rs[t].step = "reporting"
                            /\ \A k \in DOMAIN pending : pending[k].task # t
  PROVE  TablesAgree(pending, rs, FinishedTask(t, i, s), FinishedRow(t, i, s), retry, submission)
<1> DEFINE ts2 == FinishedTask(t, i, s)
           as2 == FinishedRow(t, i, s)
<1>1. /\ RowsSound(task, attemptRow) /\ QueueSound(pending, rs, task)
      /\ RetriesAgree(retry, pending, rs) /\ SubmissionsAgree(submission, retry, attemptRow)
  BY DEF TablesAgree
<1>2. /\ RowsSound(ts2, as2) /\ SameRows(attemptRow, as2)
      /\ \/ ts2 = task /\ as2 = attemptRow /\ ~CanFinish(t, i)
         \/ CanFinish(t, i) /\ \E row \in TaskRow : row.status \in Finished /\ ts2 = [task EXCEPT ![t] = row]
  BY <1>1, FinishKeeps
<1> HIDE DEF ts2, as2
<1>3. SubmissionsAgree(submission, retry, as2)
  BY <1>1, <1>2, SubmissionsStay DEF SameRows
<1>4. QueueSound(pending, rs, ts2)
  <2>1. CASE ts2 = task
    BY <1>1, <2>1
  <2>2. CASE CanFinish(t, i) /\ \E row \in TaskRow : row.status \in Finished /\ ts2 = [task EXCEPT ![t] = row]
    <3>1. PICK row \in TaskRow : row.status \in Finished /\ ts2 = [task EXCEPT ![t] = row]
      BY <2>2
    <3>2. row \notin {NoTask, GoneTask} /\ row.status # "pending"
      BY <3>1, RowsAreRecords DEF Finished
    <3>3. Apart(pending, rs, task, t, row, ts2)
      BY <2>2, <3>1, <3>2 DEF Apart, CanFinish, Exists
    <3>4. task \in TaskTable /\ pending \in Seq(Entry)
      BY <1>1 DEF RowsSound, QueueSound
    <3>5. /\ RunsAgree(rs, task) => RunsAgree(rs, ts2)
          /\ QueueAgrees(pending, rs, task) => QueueAgrees(pending, rs, ts2)
          /\ QueueHolds(pending, task) => QueueHolds(pending, ts2)
      BY <3>3, <3>4, OthersStay
    <3> QED
      BY <1>1, <3>5 DEF QueueSound
  <2> QED
    BY <1>2, <2>1, <2>2
<1>5. TablesAgree(pending, rs, ts2, as2, retry, submission)
  BY <1>1, <1>2, <1>3, <1>4 DEF TablesAgree
<1> QED
  BY <1>5 DEF ts2, as2

LEMMA RunSteps ==
  ASSUME TablesAgree(pending, run, task, attemptRow, retry, submission), NEW t \in Tasks, RunNext(t)
  PROVE  TablesAgree(pending', run', task', attemptRow', retry', submission')
<1>1. /\ RowsSound(task, attemptRow) /\ QueueSound(pending, run, task)
      /\ RetriesAgree(retry, pending, run) /\ SubmissionsAgree(submission, retry, attemptRow)
  BY DEF TablesAgree
<1>2. run[t] # NoRun
  BY DEF RunNext, FlowSucceeds, FlowFails, SaveSucceeds, SaveFails, ReportEnds
<1>3. run \in RunTable /\ QueueAgrees(pending, run, task) /\ RunsAgree(run, task)
  BY <1>1 DEF QueueSound
<1>4. run[t] \in Run /\ run[t].attempt \in Attempts
  <2>1. run[t] \in Run
    BY <1>2, <1>3 DEF RunTable
  <2> QED
    BY <2>1 DEF Run
<1>5. ASSUME NEW x, NEW rs2, RunMoved(run, t, x, rs2)
      PROVE  TablesAgree(pending, rs2, task, attemptRow, retry, submission)
  <2>1. QueueSound(pending, rs2, task) /\ (RetriesAgree(retry, pending, run) => RetriesAgree(retry, pending, rs2))
    BY <1>1, <1>5, RunMoves
  <2> QED
    BY <1>1, <2>1 DEF TablesAgree
<1>6. \A s \in {"saving", "reporting"} :
        /\ [run[t] EXCEPT !.step = s] \in Run /\ [run[t] EXCEPT !.step = s].step = s
        /\ [run[t] EXCEPT !.step = s].attempt = run[t].attempt
  <2> DEFINE old == run[t]
  <2>1. old \in Run
    BY <1>4
  <2> HIDE DEF old
  <2>2. \A s \in {"saving", "reporting"} :
          /\ [old EXCEPT !.step = s] \in Run /\ [old EXCEPT !.step = s].step = s
          /\ [old EXCEPT !.step = s].attempt = old.attempt
    BY <2>1, RunRow
  <2> QED
    BY <2>2 DEF old
<1> DEFINE ended == [run EXCEPT ![t] = NoRun]
           failing == [run EXCEPT ![t] = [run[t] EXCEPT !.step = "reporting"]]
<1>7. TablesAgree(pending, ended, task, attemptRow, retry, submission)
  BY <1>2, <1>5 DEF RunMoved
<1>8. TablesAgree(pending, failing, task, attemptRow, retry, submission)
  BY <1>2, <1>5, <1>6 DEF RunMoved
<1>9. ended[t] = NoRun /\ failing[t].step = "reporting"
  BY <1>3, <1>6 DEF RunTable
<1>10. \A k \in DOMAIN pending : pending[k].task # t
  BY <1>2, <1>3 DEF QueueAgrees
<1> HIDE DEF ended, failing
<1>11. ASSUME NEW s \in Finished
       PROVE  /\ TablesAgree(pending, ended, FinishedTask(t, run[t].attempt, s), FinishedRow(t, run[t].attempt, s),
                             retry, submission)
              /\ TablesAgree(pending, failing, FinishedTask(t, run[t].attempt, s), FinishedRow(t, run[t].attempt, s),
                             retry, submission)
  <2> DEFINE i == run[t].attempt
  <2>1. i \in Attempts
    BY <1>4
  <2> HIDE DEF i
  <2>2. TablesAgree(pending, ended, FinishedTask(t, i, s), FinishedRow(t, i, s), retry, submission)
    BY <1>7, <1>9, <1>10, <2>1, CloseKeeps
  <2>3. TablesAgree(pending, failing, FinishedTask(t, i, s), FinishedRow(t, i, s), retry, submission)
    BY <1>8, <1>9, <1>10, <2>1, CloseKeeps
  <2> QED
    BY <2>2, <2>3 DEF i
<1>12. "failed" \in Finished /\ "success" \in Finished
  BY DEF Finished
<1>13. ASSUME FailRun(t), UNCHANGED <<retry, submission>>
       PROVE  TablesAgree(pending', run', task', attemptRow', retry', submission')
  <2>1. /\ pending' = pending /\ run' = failing /\ task' = FinishedTask(t, run[t].attempt, "failed")
        /\ attemptRow' = FinishedRow(t, run[t].attempt, "failed") /\ retry' = retry /\ submission' = submission
    BY <1>13 DEF FailRun, failing
  <2> QED
    BY <1>11, <1>12, <2>1
<1>14. ASSUME EndRun(t, task, attemptRow), UNCHANGED <<retry, submission>>
       PROVE  TablesAgree(pending', run', task', attemptRow', retry', submission')
  <2>1. Drain(pending, ended, task, attemptRow) /\ retry' = retry /\ submission' = submission
    BY <1>14 DEF EndRun, ended
  <2>2. TablesAgree(pending', run', task', attemptRow', retry, submission)
    BY <1>7, <2>1, DrainStep
  <2> QED
    BY <2>1, <2>2
<1>15. CASE FlowSucceeds(t)
  <2>1. RunMoved(run, t, [run[t] EXCEPT !.step = "saving"], run')
    BY <1>2, <1>6, <1>15 DEF FlowSucceeds, RunMoved
  <2>2. TablesAgree(pending, run', task, attemptRow, retry, submission)
    BY <1>5, <2>1
  <2>3. UNCHANGED <<pending, task, attemptRow, retry, submission>>
    BY <1>15 DEF FlowSucceeds
  <2> QED
    BY <2>2, <2>3
<1>16. CASE FlowFails(t)
  BY <1>13, <1>14, <1>16 DEF FlowFails
<1>17. CASE SaveFails(t)
  BY <1>13, <1>14, <1>17 DEF SaveFails
<1>18. CASE ReportEnds(t)
  BY <1>14, <1>18 DEF ReportEnds, callVars
<1>19. CASE SaveSucceeds(t)
  <2> DEFINE ts2 == FinishedTask(t, run[t].attempt, "success")
             as2 == FinishedRow(t, run[t].attempt, "success")
  <2>1. Drain(pending, ended, ts2, as2) /\ retry' = retry /\ submission' = submission
    BY <1>19 DEF SaveSucceeds, EndRun, ended, callVars
  <2>2. TablesAgree(pending, ended, ts2, as2, retry, submission)
    BY <1>11, <1>12
  <2> HIDE DEF ts2, as2
  <2>3. TablesAgree(pending', run', task', attemptRow', retry, submission)
    BY <2>1, <2>2, DrainStep
  <2> QED
    BY <2>1, <2>3
<1> QED
  BY <1>15, <1>16, <1>17, <1>18, <1>19 DEF RunNext

LEMMA CancelSteps ==
  ASSUME TablesAgree(pending, run, task, attemptRow, retry, submission), CallTypesOK, NEW t \in Tasks,
         Cancel(t) \/ FinishCancellation(t)
  PROVE  TablesAgree(pending', run', task', attemptRow', retry', submission')
<1>1. CASE Cancel(t)
  <2>1. Exists(t) /\ task[t].status \in Active /\ CancelTask(t) /\ UNCHANGED <<retry, submission>>
    BY <1>1 DEF Cancel, Active, callVars
  <2>2. TablesAgree(pending', run', task', attemptRow', retry, submission)
    BY <2>1, CancelKeeps
  <2> QED
    BY <2>1, <2>2
<1>2. CASE FinishCancellation(t)
  <2> DEFINE i == finisher[t].attempt
             open == Exists(t) /\ task[t].status = "cancelling" /\ task[t].attempt = i
  <2>1. UNCHANGED <<pending, run, retry, submission>> /\ finisher[t] # NoFinisher
    BY <1>2 DEF FinishCancellation
  <2>2. \/ UNCHANGED <<task, attemptRow>>
        \/ /\ open /\ run[t] = NoRun
           /\ task' = FinishedTask(t, i, "cancelled") /\ attemptRow' = FinishedRow(t, i, "cancelled")
    BY <1>2 DEF FinishCancellation
  <2>3. CASE UNCHANGED <<task, attemptRow>>
    BY <2>1, <2>3
  <2>4. CASE /\ open /\ run[t] = NoRun
             /\ task' = FinishedTask(t, i, "cancelled") /\ attemptRow' = FinishedRow(t, i, "cancelled")
    <3>1. finisher[t] \in Finisher
      BY <2>1 DEF CallTypesOK
    <3>2. i \in Attempts /\ "cancelled" \in Finished
      BY <3>1 DEF Finisher, Finished
    <3>3. \A k \in DOMAIN pending : pending[k].task # t
      BY <2>4 DEF TablesAgree, QueueSound, QueueAgrees
    <3> HIDE DEF i
    <3>4. TablesAgree(pending, run, FinishedTask(t, i, "cancelled"), FinishedRow(t, i, "cancelled"), retry, submission)
      BY <2>4, <3>2, <3>3, CloseKeeps
    <3> QED
      BY <2>1, <2>4, <3>4
  <2> QED
    BY <2>2, <2>3, <2>4
<1> QED
  BY <1>1, <1>2
LEMMA DeletionSteps ==
  ASSUME TablesAgree(pending, run, task, attemptRow, retry, submission), NEW t \in Tasks,
         ClaimDeletion(t) \/ EndDeletion(t)
  PROVE  TablesAgree(pending', run', task', attemptRow', retry', submission')
<1>1. /\ RowsSound(task, attemptRow) /\ QueueSound(pending, run, task)
      /\ RetriesAgree(retry, pending, run) /\ SubmissionsAgree(submission, retry, attemptRow)
  BY DEF TablesAgree
<1>2. /\ task \in TaskTable /\ attemptRow \in RowTable /\ RowsAgree(task, attemptRow) /\ OneActive(task)
      /\ pending \in Seq(Entry) /\ RunsAgree(run, task) /\ QueueAgrees(pending, run, task)
  BY <1>1 DEF RowsSound, QueueSound
<1>3. UNCHANGED <<pending, run, retry, submission>> /\ Exists(t)
  BY DEF ClaimDeletion, EndDeletion, callVars
<1>4. task[t] \notin {NoTask, GoneTask} /\ task[t] \in TaskRow
  BY <1>2, <1>3 DEF Exists, TaskTable
<1>5. task[t].attempt \in Attempts
  BY <1>4 DEF TaskRow
<1>6. attemptRow[task[t].attempt] \in AttemptRow /\ attemptRow[task[t].attempt].task = t
  BY <1>2, <1>4, <1>5 DEF RowsAgree, RowTable
<1>7. task[t].status \in Finished
  BY <1>2, <1>4 DEF ClaimDeletion, EndDeletion, RowsAgree
<1>8. /\ task[t].status \notin {"pending", "running", "cancelling"}
      /\ run[t] # NoRun => run[t].step = "reporting"
      /\ \A k \in DOMAIN pending : pending[k].task # t
  BY <1>2, <1>4, <1>7 DEF Finished, RunsAgree, QueueAgrees
<1>9. ASSUME NEW row, row # NoTask, row # GoneTask => row.status # "pending", task' = [task EXCEPT ![t] = row],
             RowsSound(task', attemptRow'), \A i \in Attempts : attemptRow[i] = NoRow => attemptRow'[i] = NoRow
      PROVE  TablesAgree(pending', run', task', attemptRow', retry', submission')
  <2>1. Apart(pending, run, task, t, row, task')
    BY <1>4, <1>8, <1>9 DEF Apart
  <2>2. /\ RunsAgree(run, task) => RunsAgree(run, task')
        /\ QueueAgrees(pending, run, task) => QueueAgrees(pending, run, task')
        /\ QueueHolds(pending, task) => QueueHolds(pending, task')
    BY <1>2, <2>1, OthersStay
  <2>3. QueueSound(pending, run, task')
    BY <1>1, <2>2 DEF QueueSound
  <2>4. SubmissionsAgree(submission, retry, attemptRow')
    BY <1>1, <1>9, SubmissionsStay
  <2>5. TablesAgree(pending, run, task', attemptRow', retry, submission)
    BY <1>1, <1>9, <2>3, <2>4 DEF TablesAgree
  <2> QED
    BY <1>3, <2>5
<1>10. ASSUME NEW s \in {"done", "deleting"}, task' = [task EXCEPT ![t] = [task[t] EXCEPT !.stage = s]],
              attemptRow' = attemptRow
       PROVE  TablesAgree(pending', run', task', attemptRow', retry', submission')
  <2> DEFINE row == [task[t] EXCEPT !.stage = s]
  <2>1. /\ row \in TaskRow /\ row.account = task[t].account /\ row.status = task[t].status
        /\ row.attempt = task[t].attempt
    <3> DEFINE old == task[t]
    <3>1. old \in TaskRow /\ s \in {"queued", "done", "deleting"}
      BY <1>4
    <3> HIDE DEF old
    <3>2. /\ [old EXCEPT !.stage = s] \in TaskRow /\ [old EXCEPT !.stage = s].account = old.account
          /\ [old EXCEPT !.stage = s].status = old.status /\ [old EXCEPT !.stage = s].attempt = old.attempt
      BY <3>1, TaskStage
    <3> QED
      BY <3>2 DEF old
  <2>2. task' = [task EXCEPT ![t] = row]
    BY <1>10
  <2> HIDE DEF row
  <2> DEFINE arow == attemptRow[task[t].attempt]
  <2>3. arow.status = task[t].status
    BY <1>2, <1>4, <1>5, <1>6 DEF RowsAgree
  <2>4. attemptRow' = [attemptRow EXCEPT ![task[t].attempt] = arow]
    BY <1>2, <1>5, <1>10 DEF RowTable
  <2>5. arow \in AttemptRow /\ arow.task = t
    BY <1>6
  <2> HIDE DEF arow
  <2>6. Changed(task, attemptRow, t, row, arow, task', attemptRow')
    BY <1>4, <1>7, <1>8, <2>1, <2>2, <2>3, <2>4, <2>5 DEF Changed
  <2>7. RowsSound(task', attemptRow')
    BY <1>1, <2>6, RowChanges
  <2>8. row \notin {NoTask, GoneTask}
    BY <2>1, RowsAreRecords
  <2> QED
    BY <1>8, <1>9, <1>10, <2>1, <2>2, <2>7, <2>8
<1>11. CASE ClaimDeletion(t)
  BY <1>10, <1>11 DEF ClaimDeletion
<1>12. CASE EndDeletion(t)
  <2>1. CASE task' = [task EXCEPT ![t] = ClaimReleased(task[t])] /\ UNCHANGED attemptRow
    <3>1. ClaimReleased(task[t]) = [task[t] EXCEPT !.stage = "done"]
      BY <1>12 DEF EndDeletion, ClaimReleased
    <3> QED
      BY <1>10, <2>1, <3>1
  <2>2. CASE task' = [task EXCEPT ![t] = GoneTask] /\ attemptRow' = Deleted(t)
    <3>1. task'[t] = GoneTask /\ \A u \in Tasks : u # t => task'[u] = task[u]
      BY <1>2, <2>2 DEF TaskTable
    <3>2. \A i \in Attempts : attemptRow'[i] = IF attemptRow[i] # NoRow /\ attemptRow[i].task = t THEN NoRow
                                               ELSE attemptRow[i]
      BY <2>2 DEF Deleted
    <3>3. task' \in TaskTable
      BY <1>2, <2>2 DEF TaskTable
    <3>4. attemptRow' \in RowTable
      BY <1>2, <2>2 DEF RowTable, Deleted
    <3>5. ASSUME NEW i \in Attempts, attemptRow'[i] # NoRow
          PROVE  /\ task'[attemptRow'[i].task] \notin {NoTask, GoneTask}
                 /\ IF task'[attemptRow'[i].task].attempt = i
                    THEN attemptRow'[i].status = task'[attemptRow'[i].task].status
                    ELSE attemptRow'[i].status \in Finished
      <4>1. attemptRow'[i] = attemptRow[i] /\ attemptRow[i].task # t /\ attemptRow[i] # NoRow
        BY <3>2, <3>5
      <4>2. attemptRow[i].task \in Tasks
        BY <1>2, <4>1 DEF RowTable, AttemptRow
      <4>3. task'[attemptRow[i].task] = task[attemptRow[i].task]
        BY <3>1, <4>1, <4>2
      <4> QED
        BY <1>2, <4>1, <4>3 DEF RowsAgree
    <3>6. ASSUME NEW u \in Tasks, task'[u] \notin {NoTask, GoneTask}
          PROVE  /\ attemptRow'[task'[u].attempt] # NoRow /\ attemptRow'[task'[u].attempt].task = u
                 /\ AccountOf[task'[u].attempt] = task'[u].account
                 /\ task'[u].status = "pending" => task'[u].stage \in {"queued", "preparing"}
                 /\ task'[u].stage = "deleting" => task'[u].status \in Finished
      <4>1. u # t /\ task'[u] = task[u]
        BY <3>1, <3>6
      <4>2. task[u].attempt \in Attempts
        BY <1>2, <3>6, <4>1 DEF TaskTable, TaskRow
      <4>3. attemptRow[task[u].attempt] # NoRow /\ attemptRow[task[u].attempt].task = u
        BY <1>2, <3>6, <4>1 DEF RowsAgree
      <4>4. attemptRow'[task[u].attempt] = attemptRow[task[u].attempt]
        BY <3>2, <4>1, <4>2, <4>3
      <4> QED
        BY <1>2, <3>6, <4>1, <4>3, <4>4 DEF RowsAgree
    <3>7. RowsAgree(task', attemptRow')
      BY <3>5, <3>6 DEF RowsAgree
    <3>8. OneActive(task')
      BY <1>2, <3>1 DEF OneActive
    <3>9. RowsSound(task', attemptRow')
      BY <3>3, <3>4, <3>7, <3>8 DEF RowsSound
    <3>10. GoneTask # NoTask
      BY AbsenceAssumption
    <3> QED
      BY <1>9, <2>2, <3>2, <3>9, <3>10
  <2> QED
    BY <1>12, <2>1, <2>2 DEF EndDeletion
<1> QED
  BY <1>11, <1>12
LEMMA RetrySteps ==
  ASSUME TablesAgree(pending, run, task, attemptRow, retry, submission), TypeOK, NEW r \in Retriers, RetryNext(r)
  PROVE  TablesAgree(pending', run', task', attemptRow', retry', submission')
<1>1. /\ RowsSound(task, attemptRow) /\ QueueSound(pending, run, task)
      /\ RetriesAgree(retry, pending, run) /\ SubmissionsAgree(submission, retry, attemptRow)
  BY DEF TablesAgree
<1>2. /\ task \in TaskTable /\ attemptRow \in RowTable /\ RowsAgree(task, attemptRow) /\ OneActive(task)
      /\ pending \in Seq(Entry) /\ run \in RunTable /\ RunsAgree(run, task) /\ QueueAgrees(pending, run, task)
  BY <1>1 DEF RowsSound, QueueSound
<1>3. retry[r] # NoRetry
  BY DEF RetryNext, RetryPrepared, RetryFails, RetryReleased
<1>4. retry \in [Retriers -> RetryCall \cup {NoRetry}]
  BY DEF TypeOK
<1>5. retry[r] \in RetryCall /\ retry[r].task \in Tasks /\ retry[r].attempt \in Attempts \cup {NoAttempt}
  <2>1. retry[r] \in RetryCall
    BY <1>3, <1>4
  <2> QED
    BY <2>1 DEF RetryCall
<1> DEFINE t == retry[r].task
           i == retry[r].attempt
           over == [retry EXCEPT ![r] = NoRetry]
           releasing == [retry EXCEPT ![r] = [retry[r] EXCEPT !.step = "release"]]
<1>6. RetriesMove(retry, over) /\ \A x \in Retriers : over[x] # NoRetry => x # r
  BY <1>4 DEF RetriesMove
<1>7. retry[r].step \in {"prepare", "prepared", "refused"} => RetriesMove(retry, releasing)
  <2> DEFINE row == retry[r]
  <2>1. row \in RetryCall
    BY <1>5
  <2>2. [row EXCEPT !.step = "release"].step = "release" /\ [row EXCEPT !.step = "release"].attempt = row.attempt
    <3> HIDE DEF row
    <3> QED
      BY <2>1, RetryRow
  <2>3. \A x \in Retriers : x # r => releasing[x] = retry[x]
    BY <1>4
  <2>4. releasing[r].step = "release" /\ releasing[r].attempt = retry[r].attempt
    BY <1>4, <2>2
  <2> HIDE DEF releasing
  <2> QED
    BY <1>3, <2>3, <2>4 DEF RetriesMove
<1>8. ASSUME NEW rt, RetriesMove(retry, rt), TablesAgree(pending', run', task', attemptRow', retry, submission)
      PROVE  TablesAgree(pending', run', task', attemptRow', rt, submission)
  <2>1. /\ RetriesAgree(retry, pending', run') => RetriesAgree(rt, pending', run')
        /\ SubmissionsAgree(submission, retry, attemptRow') => SubmissionsAgree(submission, rt, attemptRow')
    BY <1>8, RetriesGoOn
  <2> QED
    BY <1>8, <2>1 DEF TablesAgree
<1>9. ASSUME Exists(t), task[t].status = "cancelling", CancelTask(t), retry' = over, submission' = submission
      PROVE  TablesAgree(pending', run', task', attemptRow', retry', submission')
  <2>1. task[t].status \in Active
    BY <1>9 DEF Active
  <2>2. TablesAgree(pending', run', task', attemptRow', retry, submission)
    BY <1>5, <1>9, <2>1, CancelKeeps
  <2> QED
    BY <1>6, <1>8, <1>9, <2>2
<1>10. ASSUME UNCHANGED <<pending, run, task, attemptRow, submission>>,
              retry' = over \/ (retry[r].step \in {"prepare", "prepared", "refused"} /\ retry' = releasing)
       PROVE  TablesAgree(pending', run', task', attemptRow', retry', submission')
  <2>1. RetriesMove(retry, retry')
    BY <1>6, <1>7, <1>10
  <2>2. TablesAgree(pending', run', task', attemptRow', retry, submission)
    BY <1>10
  <2>3. TablesAgree(pending', run', task', attemptRow', retry', submission)
    BY <1>8, <2>1, <2>2
  <2> QED
    BY <1>10, <2>3
<1>11. CASE RetryReleased(r)
  BY <1>10, <1>11 DEF RetryReleased, callVars
<1>12. CASE RetryPrepared(r)
  <2>1. submission' = submission /\ retry[r].step = "prepared"
    BY <1>12 DEF RetryPrepared
  <2>2. \/ Exists(t) /\ task[t].status = "cancelling" /\ CancelTask(t) /\ retry' = over
        \/ UNCHANGED <<task, attemptRow, pending, run>> /\ retry' \in {over, releasing}
        \/ /\ Exists(t) /\ task[t].attempt = i /\ task[t].status = "pending" /\ ~Busy(t) /\ retry' = over
           /\ Drain(Append(pending, [task |-> t, attempt |-> i]), run,
                    [task EXCEPT ![t] = [task[t] EXCEPT !.stage = "queued"]], attemptRow)
    BY <1>12 DEF RetryPrepared
  <2>3. CASE /\ Exists(t) /\ task[t].attempt = i /\ task[t].status = "pending" /\ ~Busy(t) /\ retry' = over
             /\ Drain(Append(pending, [task |-> t, attempt |-> i]), run,
                      [task EXCEPT ![t] = [task[t] EXCEPT !.stage = "queued"]], attemptRow)
    <3> DEFINE row == [task[t] EXCEPT !.stage = "queued"]
               ts2 == [task EXCEPT ![t] = row]
               q2 == Append(pending, NewEntry(t, i))
    <3>1. task[t] \in TaskRow /\ task[t] \notin {NoTask, GoneTask}
      BY <1>2, <1>5, <2>3 DEF Exists, TaskTable
    <3>2. /\ row \in TaskRow /\ row.account = task[t].account /\ row.status = "pending" /\ row.attempt = i
          /\ row.stage = "queued"
      <4> DEFINE old == task[t]
      <4>1. old \in TaskRow /\ old.attempt = i /\ old.status = "pending"
        BY <2>3, <3>1
      <4> HIDE DEF old, i
      <4>2. /\ [old EXCEPT !.stage = "queued"] \in TaskRow /\ [old EXCEPT !.stage = "queued"].account = old.account
            /\ [old EXCEPT !.stage = "queued"].status = old.status
            /\ [old EXCEPT !.stage = "queued"].attempt = old.attempt
            /\ [old EXCEPT !.stage = "queued"].stage = "queued"
        BY <4>1, TaskStage
      <4> QED
        BY <4>1, <4>2 DEF old
    <3>3. i \in Attempts /\ i # NoAttempt
      <4>1. i \in Attempts
        BY <2>3, <3>1 DEF TaskRow
      <4> QED
        BY <4>1, LoginAssumption
    <3>4. Drain(q2, run, ts2, attemptRow)
      BY <2>3 DEF NewEntry
    <3> HIDE DEF row
    <3> DEFINE arow == attemptRow[task[t].attempt]
    <3>5. arow \in AttemptRow /\ arow.task = t /\ arow.status = "pending"
      BY <1>2, <1>5, <2>3, <3>1, <3>3 DEF RowsAgree, RowTable
    <3>6. attemptRow = [attemptRow EXCEPT ![task[t].attempt] = arow]
      BY <1>2, <2>3, <3>3 DEF RowTable
    <3> HIDE DEF arow
    <3>7. Changed(task, attemptRow, t, row, arow, ts2, attemptRow)
      BY <1>5, <2>3, <3>1, <3>2, <3>5, <3>6 DEF Changed, Active
    <3>8. RowsSound(ts2, attemptRow)
      BY <1>1, <3>7, RowChanges
    <3>9. \A x \in Retriers : over[x] # NoRetry => over[x].attempt # i
      BY <1>1, <1>3, <1>4, <3>3 DEF RetriesAgree
    <3>10. Joined(pending, run, task, t, row, ts2)
      BY <1>5, <2>3, <3>2 DEF Joined, Busy
    <3>11. RetriesAgree(over, pending, run) /\ SubmissionsAgree(submission, over, attemptRow)
      BY <1>1, <1>6, RetriesGoOn
    <3> HIDE DEF ts2, over, i
    <3>12. /\ QueueSound(Append(pending, NewEntry(t, row.attempt)), run, ts2)
           /\ RetriesAgree(over, pending, run) => RetriesAgree(over, Append(pending, NewEntry(t, row.attempt)), run)
      BY <1>1, <1>2, <3>2, <3>9, <3>10, EntryJoins
    <3>13. TablesAgree(q2, run, ts2, attemptRow, over, submission)
      BY <3>2, <3>8, <3>11, <3>12 DEF TablesAgree
    <3> HIDE DEF q2
    <3>14. TablesAgree(pending', run', task', attemptRow', over, submission)
      BY <3>4, <3>13, DrainStep
    <3> QED
      BY <2>1, <2>3, <3>14
  <2> QED
    BY <1>9, <1>10, <2>1, <2>2, <2>3
<1>13. CASE RetryFails(r)
  <2>1. submission' = submission /\ retry[r].step \in {"prepare", "prepared", "refused"}
    BY <1>13 DEF RetryFails
  <2>2. \/ Exists(t) /\ task[t].status = "cancelling" /\ CancelTask(t) /\ retry' = over
        \/ UNCHANGED <<task, attemptRow, pending, run>> /\ retry' = over
        \/ /\ task' = FinishedTask(t, i, "failed") /\ attemptRow' = FinishedRow(t, i, "failed")
           /\ retry' = releasing /\ UNCHANGED <<pending, run>>
    BY <1>13 DEF RetryFails
  <2>3. CASE /\ task' = FinishedTask(t, i, "failed") /\ attemptRow' = FinishedRow(t, i, "failed")
             /\ retry' = releasing /\ UNCHANGED <<pending, run>>
    <3>1. /\ i \in Attempts
          /\ \A k \in DOMAIN pending : pending[k].attempt # i
          /\ \A u \in Tasks : run[u] # NoRun /\ run[u].step # "reporting" => run[u].attempt # i
      BY <1>1, <1>3, <1>5, <2>1 DEF RetriesAgree
    <3>2. "failed" \in Finished
      BY DEF Finished
    <3>3. CanFinish(t, i) => /\ run[t] # NoRun => run[t].step = "reporting"
                             /\ \A k \in DOMAIN pending : pending[k].task # t
      BY <1>2, <1>5, <3>1 DEF CanFinish, RunsAgree, QueueAgrees
    <3>4. t \in Tasks /\ RetriesMove(retry, releasing)
      BY <1>5, <1>7, <2>1
    <3> HIDE DEF t, i, releasing
    <3>5. TablesAgree(pending, run, FinishedTask(t, i, "failed"), FinishedRow(t, i, "failed"), retry, submission)
      BY <3>1, <3>2, <3>3, <3>4, CloseKeeps
    <3>6. TablesAgree(pending', run', task', attemptRow', retry, submission)
      BY <2>3, <3>5
    <3>7. TablesAgree(pending', run', task', attemptRow', releasing, submission)
      BY <1>8, <3>4, <3>6
    <3> QED
      BY <2>1, <2>3, <3>7
  <2> QED
    BY <1>9, <1>10, <2>1, <2>2, <2>3
<1> QED
  BY <1>11, <1>12, <1>13 DEF RetryNext
LEMMA RetryStarts ==
  ASSUME TablesAgree(pending, run, task, attemptRow, retry, submission), TypeOK, NEW r \in Retriers,
         (\E t \in Tasks : RetryAsks(r, t)) \/ (\E i \in Attempts : RetryReserves(r, i))
  PROVE  TablesAgree(pending', run', task', attemptRow', retry', submission')
<1>1. /\ RowsSound(task, attemptRow) /\ QueueSound(pending, run, task)
      /\ RetriesAgree(retry, pending, run) /\ SubmissionsAgree(submission, retry, attemptRow)
  BY DEF TablesAgree
<1>2. /\ task \in TaskTable /\ attemptRow \in RowTable /\ RowsAgree(task, attemptRow) /\ OneActive(task)
      /\ pending \in Seq(Entry) /\ run \in RunTable /\ RunsAgree(run, task) /\ QueueAgrees(pending, run, task)
  BY <1>1 DEF RowsSound, QueueSound
<1>3. retry \in [Retriers -> RetryCall \cup {NoRetry}]
  BY DEF TypeOK
<1>4. CASE \E t \in Tasks : RetryAsks(r, t)
  <2>1. PICK t \in Tasks : RetryAsks(r, t)
    BY <1>4
  <2> DEFINE call == [task |-> t, previous |-> task[t].attempt, attempt |-> NoAttempt, step |-> "asked"]
  <2>2. UNCHANGED <<pending, run, task, attemptRow, submission>>
    BY <2>1 DEF RetryAsks, callVars
  <2>3. retry'[r] = call /\ \A x \in Retriers : x # r => retry'[x] = retry[x]
    BY <1>3, <2>1 DEF RetryAsks
  <2>4. call.step = "asked" /\ call.attempt = NoAttempt
    OBVIOUS
  <2> HIDE DEF call
  <2>5. RetriesAgree(retry', pending, run)
    BY <1>1, <2>3, <2>4 DEF RetriesAgree
  <2>6. SubmissionsAgree(submission, retry', attemptRow)
    BY <1>1, <2>3, <2>4, LoginAssumption DEF SubmissionsAgree
  <2>7. TablesAgree(pending, run, task, attemptRow, retry', submission)
    BY <1>1, <2>5, <2>6 DEF TablesAgree
  <2> QED
    BY <2>2, <2>7
<1>5. ASSUME NEW i \in Attempts, RetryReserves(r, i)
      PROVE  TablesAgree(pending', run', task', attemptRow', retry', submission')
  <2> DEFINE t == retry[r].task
             row == [account |-> task[t].account, status |-> "pending", attempt |-> i, stage |-> "preparing"]
             call == [task |-> t, previous |-> retry[r].previous, attempt |-> i, step |-> "prepare"]
  <2>1. UNCHANGED <<pending, run, submission>> /\ retry[r] # NoRetry
    BY <1>5 DEF RetryReserves
  <2>2. retry[r] \in RetryCall /\ t \in Tasks
    <3>1. retry[r] \in RetryCall
      BY <1>3, <2>1
    <3> QED
      BY <3>1 DEF RetryCall
  <2>3. CASE UNCHANGED <<task, attemptRow>> /\ retry' = [retry EXCEPT ![r] = NoRetry]
    <3>1. RetriesMove(retry, retry')
      BY <1>3, <2>3 DEF RetriesMove
    <3>2. RetriesAgree(retry', pending, run) /\ SubmissionsAgree(submission, retry', attemptRow)
      BY <1>1, <3>1, RetriesGoOn
    <3>3. TablesAgree(pending, run, task, attemptRow, retry', submission)
      BY <1>1, <3>2 DEF TablesAgree
    <3> QED
      BY <2>1, <2>3, <3>3
  <2>4. CASE /\ CanReserve(t, retry[r].previous) /\ Unused(i) /\ AccountOf[i] = task[t].account
             /\ task' = [task EXCEPT ![t] = row] /\ attemptRow' = NextAttempt(t, i)
             /\ retry' = [retry EXCEPT ![r] = call]
    <3>1. /\ task[t] \notin {NoTask, GoneTask} /\ task[t].status = "failed"
          /\ \A u \in Tasks : task[u] \notin {NoTask, GoneTask} /\ task[u].status \in Active
               => task[u].account # task[t].account
      BY <2>4 DEF CanReserve, Exists, HasActiveTask
    <3>2. task[t] \in TaskRow
      BY <1>2, <2>2, <3>1 DEF TaskTable
    <3>3. /\ row \in TaskRow /\ row.account = AccountOf[i] /\ row.status = "pending" /\ row.attempt = i
          /\ row.stage = "preparing"
      BY <2>4, <3>2 DEF TaskRow, Active
    <3>4. attemptRow' = [attemptRow EXCEPT ![i] = [task |-> t, status |-> "pending"]]
      BY <2>4 DEF NextAttempt
    <3>5. /\ attemptRow[i] = NoRow /\ submission[i] = NoSubmission
          /\ \A x \in Retriers : retry[x] # NoRetry => retry[x].attempt # i
      BY <2>4 DEF Unused
    <3>6. task' = [task EXCEPT ![t] = row]
      BY <2>4
    <3>7. row.account = task[t].account
      OBVIOUS
    <3> HIDE DEF row
    <3>8. Begins(task, attemptRow, t, i, row, task', attemptRow')
      BY <2>2, <3>1, <3>3, <3>4, <3>5, <3>6, <3>7 DEF Begins, Finished
    <3>9. RowsSound(task', attemptRow') /\ \A j \in Attempts : j # i => attemptRow'[j] = attemptRow[j]
      BY <1>1, <3>8, AttemptBegins
    <3>10. Apart(pending, run, task, t, row, task')
      <4>1. row \notin {NoTask, GoneTask}
        BY <3>3, RowsAreRecords
      <4>2. (run[t] # NoRun => run[t].step = "reporting") /\ \A k \in DOMAIN pending : pending[k].task # t
        BY <1>2, <2>2, <3>1 DEF RunsAgree, QueueAgrees
      <4> QED
        BY <2>2, <3>1, <3>3, <3>6, <4>1, <4>2 DEF Apart
    <3>11. QueueSound(pending, run, task')
      <4>1. /\ RunsAgree(run, task) => RunsAgree(run, task')
            /\ QueueAgrees(pending, run, task) => QueueAgrees(pending, run, task')
            /\ QueueHolds(pending, task) => QueueHolds(pending, task')
        BY <1>2, <3>10, OthersStay
      <4> QED
        BY <1>1, <4>1 DEF QueueSound
    <3>12. call.attempt = i /\ call.step = "prepare" /\ i # NoAttempt
      BY LoginAssumption
    <3>13. retry'[r] = call /\ \A x \in Retriers : x # r => retry'[x] = retry[x]
      BY <1>3, <2>4
    <3> HIDE DEF call
    <3>14. \A k \in DOMAIN pending : pending[k].attempt # i
      <4> SUFFICES ASSUME NEW k \in DOMAIN pending, pending[k].attempt = i PROVE FALSE
        OBVIOUS
      <4>1. pending[k] \in Entry
        BY <1>2
      <4>2. pending[k].task \in Tasks
        BY <4>1 DEF Entry
      <4> QED
        BY <1>2, <3>5, <4>2 DEF QueueAgrees, RowsAgree
    <3>15. \A u \in Tasks : run[u] # NoRun /\ run[u].step # "reporting" => run[u].attempt # i
      BY <1>2, <3>5 DEF RunsAgree, RowsAgree
    <3>16. RetriesAgree(retry', pending, run)
      BY <1>1, <3>5, <3>12, <3>13, <3>14, <3>15 DEF RetriesAgree
    <3>17. SubmissionsAgree(submission, retry', attemptRow')
      BY <1>1, <3>5, <3>9, <3>12, <3>13 DEF SubmissionsAgree
    <3>18. TablesAgree(pending, run, task', attemptRow', retry', submission)
      BY <3>9, <3>11, <3>16, <3>17 DEF TablesAgree
    <3> QED
      BY <2>1, <3>18
  <2> QED
    BY <1>5, <2>3, <2>4 DEF RetryReserves
<1> QED
  BY <1>4, <1>5

(* Calls of the Proxy that do not reach the tables of Login. *)
LEMMA SubmissionsGoOn ==
  ASSUME NEW rt, NEW as, NEW sub, NEW sub2, SubmissionsAgree(sub, rt, as),
         \A i \in Attempts :
           sub2[i] # NoSubmission /\ sub[i] # NoSubmission /\ sub2[i].net = "sent" => sub[i].net = "sent",
         \A i \in Attempts : sub2[i] # NoSubmission /\ sub[i] = NoSubmission =>
           as[i] = NoRow /\ \A r \in Retriers : rt[r] # NoRetry => rt[r].attempt # i
  PROVE  SubmissionsAgree(sub2, rt, as)
BY DEF SubmissionsAgree

LEMMA SubmissionMoves ==
  ASSUME TypeOK, SubmissionsAgree(submission, retry, attemptRow), NEW i \in Attempts,
         Reauthorize(i) \/ DropSubmission(i) \/ SubmissionAnswered(i)
  PROVE  SubmissionsAgree(submission', retry, attemptRow)
<1>1. submission \in [Attempts -> Submission \cup {NoSubmission}]
  BY DEF TypeOK
<1>2. CASE Reauthorize(i)
  <2>1. submission' = [submission EXCEPT ![i] = [net |-> "sent", client |-> "waiting"]]
    BY <1>2 DEF Reauthorize
  <2>2. submission[i] = NoSubmission /\ attemptRow[i] = NoRow /\ \A r \in Retriers : retry[r] # NoRetry => retry[r].attempt # i
    BY <1>2 DEF Reauthorize, Unused
  <2> QED
    BY <1>1, <2>1, <2>2, SubmissionsGoOn
<1>3. CASE DropSubmission(i) \/ SubmissionAnswered(i)
  <2> DEFINE row == submission[i]
  <2>1. row # NoSubmission /\ row \in Submission
    BY <1>1, <1>3 DEF DropSubmission, SubmissionAnswered
  <2>2. \/ submission' = [submission EXCEPT ![i] = [row EXCEPT !.net = "dead"]]
        \/ \E c \in {"lookup", "rollback", "done"} : submission' = [submission EXCEPT ![i] = [row EXCEPT !.client = c]]
    BY <1>3 DEF DropSubmission, SubmissionAnswered
  <2>3. /\ [row EXCEPT !.net = "dead"].net = "dead"
        /\ \A c \in {"lookup", "rollback", "done"} : [row EXCEPT !.client = c].net = row.net
    <3> HIDE DEF row
    <3> QED
      BY <2>1, SubmissionRow
  <2>4. \A j \in Attempts : j # i => submission'[j] = submission[j]
    BY <1>1, <2>2
  <2>5. submission'[i].net \in {"dead", submission[i].net}
    BY <1>1, <2>2, <2>3
  <2> QED
    BY <2>1, <2>4, <2>5, SubmissionsGoOn
<1> QED
  BY <1>2, <1>3

LEMMA EnqueueStep ==
  ASSUME TablesAgree(pending, run, task, attemptRow, retry, submission), TypeOK, NEW i \in Attempts, Enqueue(i)
  PROVE  TablesAgree(pending', run', task', attemptRow', retry', submission')
<1>1. /\ RowsSound(task, attemptRow) /\ QueueSound(pending, run, task)
      /\ RetriesAgree(retry, pending, run) /\ SubmissionsAgree(submission, retry, attemptRow)
  BY DEF TablesAgree
<1>2. /\ task \in TaskTable /\ attemptRow \in RowTable /\ RowsAgree(task, attemptRow) /\ OneActive(task)
      /\ pending \in Seq(Entry) /\ run \in RunTable /\ RunsAgree(run, task) /\ QueueAgrees(pending, run, task)
  BY <1>1 DEF RowsSound, QueueSound
<1>3. submission \in [Attempts -> Submission \cup {NoSubmission}]
  BY DEF TypeOK
<1>4. submission[i] # NoSubmission /\ submission[i].net = "sent" /\ UNCHANGED retry
  BY DEF Enqueue
<1> DEFINE srow == submission[i]
<1>5. /\ [srow EXCEPT !.net = "accepted"].net = "accepted"
      /\ [srow EXCEPT !.net = "rejected"].net = "rejected"
  <2>1. srow \in Submission
    BY <1>3, <1>4
  <2> HIDE DEF srow
  <2> QED
    BY <2>1, SubmissionRow
<1>6. ASSUME NEW n \in {"accepted", "rejected"}, submission' = [submission EXCEPT ![i] = [srow EXCEPT !.net = n]]
      PROVE  submission'[i].net # "sent" /\ \A j \in Attempts : j # i => submission'[j] = submission[j]
  BY <1>3, <1>5, <1>6
<1>7. ASSUME submission'[i].net # "sent" /\ \A j \in Attempts : j # i => submission'[j] = submission[j]
      PROVE  SubmissionsAgree(submission', retry, attemptRow)
  BY <1>1, <1>4, <1>7, SubmissionsGoOn
<1>8. CASE UNCHANGED <<task, attemptRow, pending, run>> /\ submission' = [submission EXCEPT ![i] = [srow EXCEPT !.net = "rejected"]]
  <2>1. TablesAgree(pending, run, task, attemptRow, retry, submission')
    BY <1>1, <1>6, <1>7, <1>8 DEF TablesAgree
  <2> QED
    BY <1>4, <1>8, <2>1
<1>9. CASE /\ ~HasActiveTask(AccountOf[i])
           /\ submission' = [submission EXCEPT ![i] = [srow EXCEPT !.net = "accepted"]]
           /\ \E t \in Tasks :
                /\ task[t] = NoTask
                /\ Drain(Append(pending, [task |-> t, attempt |-> i]), run,
                         [task EXCEPT ![t] = NewTask(i)], NextAttempt(t, i))
  <2>1. PICK t \in Tasks : /\ task[t] = NoTask
                           /\ Drain(Append(pending, NewEntry(t, i)), run,
                                    [task EXCEPT ![t] = NewTask(i)], NextAttempt(t, i))
    BY <1>9 DEF NewEntry
  <2> DEFINE row == NewTask(i)
             ts2 == [task EXCEPT ![t] = row]
             as2 == NextAttempt(t, i)
             q2 == Append(pending, NewEntry(t, i))
  <2>2. /\ row \in TaskRow /\ row.account = AccountOf[i] /\ row.status = "pending" /\ row.attempt = i
        /\ row.stage = "queued"
    BY LoginAssumption DEF NewTask, TaskRow, Active
  <2>3. Drain(q2, run, ts2, as2)
    BY <2>1
  <2> HIDE DEF row
  <2>4. attemptRow[i] = NoRow /\ \A r \in Retriers : retry[r] # NoRetry => retry[r].attempt # i
    BY <1>1, <1>4 DEF SubmissionsAgree
  <2>5. Begins(task, attemptRow, t, i, row, ts2, as2)
    BY <1>9, <2>1, <2>2, <2>4, AbsenceAssumption DEF Begins, HasActiveTask, Exists, NextAttempt
  <2>6. RowsSound(ts2, as2) /\ \A j \in Attempts : j # i => as2[j] = attemptRow[j]
    BY <1>1, <2>5, AttemptBegins
  <2>7. Joined(pending, run, task, t, row, ts2)
    BY <1>2, <2>1, <2>2 DEF Joined, RunsAgree, QueueAgrees
  <2> HIDE DEF ts2, as2
  <2>8. /\ QueueSound(Append(pending, NewEntry(t, row.attempt)), run, ts2)
        /\ RetriesAgree(retry, pending, run) => RetriesAgree(retry, Append(pending, NewEntry(t, row.attempt)), run)
    BY <1>1, <1>2, <2>2, <2>4, <2>7, EntryJoins
  <2>9. submission'[i].net # "sent" /\ SubmissionsAgree(submission', retry, attemptRow)
    BY <1>6, <1>7, <1>9
  <2>10. SubmissionsAgree(submission', retry, as2)
    BY <2>6, <2>9, SubmissionsStay
  <2>11. TablesAgree(q2, run, ts2, as2, retry, submission')
    BY <1>1, <2>2, <2>6, <2>8, <2>10 DEF TablesAgree
  <2> HIDE DEF q2
  <2>12. TablesAgree(pending', run', task', attemptRow', retry, submission')
    BY <2>3, <2>11, DrainStep
  <2> QED
    BY <1>4, <2>12
<1> QED
  BY <1>8, <1>9 DEF Enqueue
(* recoverLoginOutcomes closes what the crash interrupted, and the claims of
   deletions. *)
LEMMA RecoverStep ==
  ASSUME RowsSound(task, attemptRow), SubmissionsAgree(submission, retry, attemptRow), Idle, run \in RunTable,
         Recover
  PROVE  TablesAgree(pending', run', task', attemptRow', retry', submission')
<1>1. task \in TaskTable /\ attemptRow \in RowTable /\ RowsAgree(task, attemptRow)
  BY DEF RowsSound
<1>2. /\ UNCHANGED <<pending, run, retry, submission>>
      /\ task' = [t \in Tasks |->
           IF t \in Unfinished THEN Closed(task[t], Interrupted(task[t].status))
           ELSE IF Exists(t) THEN ClaimReleased(task[t]) ELSE task[t]]
      /\ attemptRow' = [i \in Attempts |->
           IF \E t \in Unfinished : task[t].attempt = i
           THEN [attemptRow[i] EXCEPT !.status = Interrupted(attemptRow[i].status)]
           ELSE attemptRow[i]]
  BY DEF Recover
<1>3. ASSUME NEW t \in Tasks, Exists(t)
      PROVE  /\ task[t] \in TaskRow /\ task[t].attempt \in Attempts
             /\ attemptRow[task[t].attempt] \in AttemptRow /\ attemptRow[task[t].attempt].task = t
             /\ attemptRow[task[t].attempt].status = task[t].status
             /\ AccountOf[task[t].attempt] = task[t].account
  <2>1. task[t] \in TaskRow /\ task[t] \notin {NoTask, GoneTask}
    BY <1>1, <1>3 DEF Exists, TaskTable
  <2>2. task[t].attempt \in Attempts
    BY <2>1 DEF TaskRow
  <2> QED
    BY <1>1, <2>1, <2>2 DEF RowsAgree, RowTable
<1>4. ASSUME NEW t \in Tasks, Exists(t)
      PROVE  /\ task'[t] \in TaskRow /\ task'[t].account = task[t].account /\ task'[t].attempt = task[t].attempt
             /\ task'[t].status \in Finished /\ task'[t].stage # "deleting"
             /\ t \in Unfinished => task'[t].status = Interrupted(task[t].status)
             /\ t \notin Unfinished => task'[t].status = task[t].status
  <2>1. CASE t \in Unfinished
    <3>1. task'[t] = Closed(task[t], Interrupted(task[t].status)) /\ Interrupted(task[t].status) \in Finished
      BY <1>2, <2>1 DEF Interrupted, Finished
    <3> DEFINE row == task[t]
               s == Interrupted(task[t].status)
    <3>2. row \in TaskRow /\ s \in Finished
      BY <1>3, <1>4, <3>1
    <3> HIDE DEF row, s
    <3>3. /\ Closed(row, s) \in TaskRow /\ Closed(row, s).account = row.account /\ Closed(row, s).status = s
          /\ Closed(row, s).attempt = row.attempt /\ Closed(row, s).stage = "done"
      BY <3>2, ClosedRow
    <3> QED
      BY <2>1, <3>1, <3>2, <3>3 DEF row, s
  <2>2. CASE t \notin Unfinished
    <3>1. task'[t] = ClaimReleased(task[t])
      BY <1>2, <1>4, <2>2
    <3>2. task[t].status \in Finished
      BY <1>3, <1>4, <2>2 DEF Unfinished, TaskRow
    <3> DEFINE row == task[t]
    <3>3. row \in TaskRow
      BY <1>3, <1>4
    <3> HIDE DEF row
    <3>4. /\ ClaimReleased(row) \in TaskRow /\ ClaimReleased(row).account = row.account
          /\ ClaimReleased(row).status = row.status /\ ClaimReleased(row).attempt = row.attempt
          /\ ClaimReleased(row).stage # "deleting"
      <4>1. CASE row.stage = "deleting"
        <5>1. "done" \in {"queued", "done", "deleting"}
          OBVIOUS
        <5>2. /\ [row EXCEPT !.stage = "done"] \in TaskRow /\ [row EXCEPT !.stage = "done"].account = row.account
              /\ [row EXCEPT !.stage = "done"].status = row.status
              /\ [row EXCEPT !.stage = "done"].attempt = row.attempt /\ [row EXCEPT !.stage = "done"].stage = "done"
          BY <3>3, <5>1, TaskStage
        <5> QED
          BY <4>1, <5>2 DEF ClaimReleased
      <4>2. CASE row.stage # "deleting"
        BY <3>3, <4>2 DEF ClaimReleased
      <4> QED
        BY <4>1, <4>2
    <3> QED
      BY <2>2, <3>1, <3>2, <3>4 DEF row
  <2> QED
    BY <2>1, <2>2
<1>5. \A t \in Tasks : ~Exists(t) => task'[t] = task[t] /\ t \notin Unfinished
  BY <1>2 DEF Unfinished
<1>6. ASSUME NEW i \in Attempts
      PROVE  /\ attemptRow'[i] \in AttemptRow \cup {NoRow} /\ (attemptRow'[i] = NoRow <=> attemptRow[i] = NoRow)
             /\ attemptRow[i] # NoRow =>
                  /\ attemptRow'[i].task = attemptRow[i].task
                  /\ IF \E t \in Unfinished : task[t].attempt = i
                     THEN attemptRow'[i].status = Interrupted(attemptRow[i].status)
                     ELSE attemptRow'[i].status = attemptRow[i].status
  <2>1. CASE \E t \in Unfinished : task[t].attempt = i
    <3> DEFINE row == attemptRow[i]
               s == Interrupted(attemptRow[i].status)
    <3>1. row \in AttemptRow /\ attemptRow'[i] = [row EXCEPT !.status = s]
      BY <1>2, <1>3, <2>1 DEF Unfinished
    <3>2. s \in Active \cup Finished
      BY DEF Interrupted, Finished
    <3> HIDE DEF row, s
    <3>3. /\ [row EXCEPT !.status = s] \in AttemptRow
          /\ [row EXCEPT !.status = s].status = s /\ [row EXCEPT !.status = s].task = row.task
      BY <3>1, <3>2, AttemptStatus
    <3> QED
      BY <2>1, <3>1, <3>3, RowsAreRecords DEF row, s
  <2>2. CASE ~\E t \in Unfinished : task[t].attempt = i
    BY <1>1, <1>2, <2>2 DEF RowTable
  <2> QED
    BY <2>1, <2>2
<1>7. task' \in TaskTable
  <2>1. \A t \in Tasks : task'[t] \in TaskRow \cup {NoTask, GoneTask}
    BY <1>1, <1>4, <1>5 DEF TaskTable
  <2> QED
    BY <1>2, <2>1 DEF TaskTable
<1>8. attemptRow' \in RowTable
  BY <1>2, <1>6 DEF RowTable
<1>9. \A t \in Tasks : task'[t] \notin {NoTask, GoneTask} <=> Exists(t)
  BY <1>4, <1>5, RowsAreRecords DEF Exists
<1>10. ASSUME NEW i \in Attempts, attemptRow'[i] # NoRow
       PROVE  /\ task'[attemptRow'[i].task] \notin {NoTask, GoneTask}
              /\ IF task'[attemptRow'[i].task].attempt = i
                 THEN attemptRow'[i].status = task'[attemptRow'[i].task].status
                 ELSE attemptRow'[i].status \in Finished
  <2> DEFINE u == attemptRow[i].task
  <2>1. attemptRow[i] # NoRow /\ attemptRow'[i].task = u
    BY <1>6, <1>10
  <2>2. u \in Tasks
    BY <1>1, <2>1 DEF RowTable, AttemptRow
  <2>3. Exists(u) /\ IF task[u].attempt = i THEN attemptRow[i].status = task[u].status
                     ELSE attemptRow[i].status \in Finished
    BY <1>1, <2>1 DEF RowsAgree, Exists
  <2> HIDE DEF u
  <2>4. CASE task[u].attempt = i
    <3>1. (\E t \in Unfinished : task[t].attempt = i) <=> u \in Unfinished
      BY <1>3, <2>2, <2>3, <2>4 DEF Unfinished
    <3>2. attemptRow'[i].status = task'[u].status
      BY <1>4, <1>6, <2>1, <2>2, <2>3, <2>4, <3>1
    <3> QED
      BY <1>4, <1>9, <2>1, <2>2, <2>3, <2>4, <3>2
  <2>5. CASE task[u].attempt # i
    <3>1. ~\E t \in Unfinished : task[t].attempt = i
      BY <1>3, <2>1, <2>5 DEF Unfinished, u
    <3>2. attemptRow'[i].status = attemptRow[i].status
      BY <1>6, <2>1, <3>1
    <3> QED
      BY <1>4, <1>9, <2>1, <2>2, <2>3, <2>5, <3>2
  <2> QED
    BY <2>4, <2>5
<1>11. ASSUME NEW t \in Tasks, task'[t] \notin {NoTask, GoneTask}
       PROVE  /\ attemptRow'[task'[t].attempt] # NoRow /\ attemptRow'[task'[t].attempt].task = t
              /\ AccountOf[task'[t].attempt] = task'[t].account
              /\ task'[t].status = "pending" => task'[t].stage \in {"queued", "preparing"}
              /\ task'[t].stage = "deleting" => task'[t].status \in Finished
  <2>1. Exists(t)
    BY <1>9, <1>11
  <2>2. /\ attemptRow[task[t].attempt] # NoRow /\ attemptRow[task[t].attempt].task = t
        /\ task[t].attempt \in Attempts
    BY <1>3, <2>1, RowsAreRecords
  <2>3. task'[t].status # "pending"
    BY <1>4, <2>1 DEF Finished
  <2> QED
    BY <1>3, <1>4, <1>6, <2>1, <2>2, <2>3
<1>12. RowsAgree(task', attemptRow')
  BY <1>10, <1>11 DEF RowsAgree
<1>13. \A t \in Tasks : task'[t] \notin {NoTask, GoneTask} => task'[t].status \notin Active
  BY <1>4, <1>9 DEF Active, Finished
<1>14. RowsSound(task', attemptRow')
  BY <1>7, <1>8, <1>12, <1>13 DEF RowsSound, OneActive
<1>15. pending' = <<>> /\ (\A t \in Tasks : run'[t] = NoRun) /\ \A r \in Retriers : retry'[r] = NoRetry
  BY <1>2 DEF Idle
<1>16. QueueSound(pending', run', task')
  <2>1. pending' \in Seq(Entry) /\ DOMAIN pending' = {}
    BY <1>15
  <2>2. \A t \in Tasks : task'[t] \notin {NoTask, GoneTask} => task'[t].status # "pending"
    BY <1>13 DEF Active
  <2> QED
    BY <1>2, <1>15, <2>1, <2>2 DEF QueueSound, RunsAgree, QueueAgrees, QueueHolds
<1>17. RetriesAgree(retry', pending', run')
  BY <1>15 DEF RetriesAgree
<1>18. SubmissionsAgree(submission', retry', attemptRow')
  BY <1>2, <1>6 DEF SubmissionsAgree
<1> QED
  BY <1>14, <1>16, <1>17, <1>18 DEF TablesAgree

(* What the Proxy does with a prepare call, as the retry sees it. *)
LEMMA PrepareMoves ==
  ASSUME TypeOK, NEW p \in prepares, PrepareAttempt(p)
  PROVE  RetriesMove(retry, retry')
<1>1. retry' = retry \/ \E s \in {"prepared", "refused"} : retry' = Answered(p.attempt, s)
  BY DEF PrepareAttempt
<1>2. retry \in [Retriers -> RetryCall \cup {NoRetry}]
  BY DEF TypeOK
<1>3. CASE retry' = retry
  BY <1>3 DEF RetriesMove
<1>4. ASSUME NEW s \in {"prepared", "refused"}, retry' = Answered(p.attempt, s) PROVE RetriesMove(retry, retry')
  <2> DEFINE i == p.attempt
  <2> HIDE DEF i
  <2>1. \A r \in Retriers :
          /\ Answered(i, s)[r] = NoRetry <=> retry[r] = NoRetry
          /\ retry[r] # NoRetry =>
               /\ Answered(i, s)[r].attempt = retry[r].attempt
               /\ \/ Answered(i, s)[r].step = retry[r].step
                  \/ retry[r].step = "prepare" /\ Answered(i, s)[r].step = s
    BY <1>2, AnsweredTypes
  <2>2. retry' = Answered(i, s)
    BY <1>4 DEF i
  <2> QED
    BY <2>1, <2>2 DEF RetriesMove
<1> QED
  BY <1>1, <1>3, <1>4

-----------------------------------------------------------------------------
(* LoginInv is inductive. *)

LEMMA LoginInvInit ==
  ASSUME Init
  PROVE  LoginInv
<1>1. /\ \A t \in Tasks : task[t] = NoTask /\ run[t] = NoRun
      /\ \A i \in Attempts : attemptRow[i] = NoRow /\ submission[i] = NoSubmission
      /\ \A r \in Retriers : retry[r] = NoRetry
      /\ pending = <<>> /\ DOMAIN pending = {} /\ up
  BY DEF Init
<1>2. task \in TaskTable /\ attemptRow \in RowTable /\ pending \in Seq(Entry) /\ run \in RunTable
  BY DEF Init, TaskTable, RowTable, RunTable
<1>3. CallTypesOK
  <2>1. [status |-> "missing", attempt |-> NoAttempt, token |-> NoAttempt] \in OauthRow
    BY DEF OauthRow
  <2> QED
    BY <2>1 DEF Init, CallTypesOK
<1>4. TypeOK
  BY <1>2, <1>3, TypesSplit DEF TablesOK
<1>5. RowsSound(task, attemptRow)
  BY <1>1, <1>2 DEF RowsSound, RowsAgree, OneActive
<1>6. QueueSound(pending, run, task)
  BY <1>1, <1>2 DEF QueueSound, RunsAgree, QueueAgrees, QueueHolds
<1>7. RetriesAgree(retry, pending, run) /\ SubmissionsAgree(submission, retry, attemptRow)
  BY <1>1 DEF RetriesAgree, SubmissionsAgree
<1> QED
  BY <1>1, <1>4, <1>5, <1>6, <1>7 DEF LoginInv, StateAgrees, TablesAgree

LEMMA LoginInvStep ==
  ASSUME LoginInv, [Next]_vars
  PROVE  LoginInv'
<1>0. TypeOK /\ TablesOK /\ CallTypesOK
  BY TypesSplit DEF LoginInv
<1>1. CASE UNCHANGED vars
  <2>1. UNCHANGED <<oauth, task, attemptRow, pending, run, finisher, retry, submission, saveCall, prepares, reports,
                    up, accepting, crashes, losses, stored, released>>
    BY <1>1 DEF vars, loginVars, callVars, envVars
  <2>2. TypeOK'
    BY <1>0, <2>1 DEF TypeOK
  <2>3. StateAgrees'
    BY <2>1 DEF LoginInv, StateAgrees, Idle
  <2> QED
    BY <2>2, <2>3 DEF LoginInv
<1>2. CASE Next
  <2>1. RetriesAgree(retry, pending, run)
    BY DEF LoginInv, StateAgrees, TablesAgree, Idle, RetriesAgree
  <2>2. CallTypesOK'
    BY <1>0, <1>2, <2>1, CallTypesStep
  <2>3. /\ up => TablesAgree(pending, run, task, attemptRow, retry, submission)
        /\ RowsSound(task, attemptRow) /\ SubmissionsAgree(submission, retry, attemptRow)
        /\ ~up => Idle
    BY DEF LoginInv, StateAgrees, TablesAgree
  <2>4. SUFFICES StateAgrees'
    <3>1. up' => TablesOK'
      BY <2>4 DEF StateAgrees, TablesAgree, RowsSound, QueueSound, TablesOK
    <3>2. ~up' => TablesOK'
      BY <2>4 DEF StateAgrees, RowsSound, Idle, TablesOK
    <3>3. TypeOK'
      BY <2>2, <3>1, <3>2, TypesSplit, PTL
    <3> QED
      BY <2>4, <3>3 DEF LoginInv
  <2>5. ASSUME up, up' = up, TablesAgree(pending', run', task', attemptRow', retry', submission')
        PROVE  StateAgrees'
    BY <2>5 DEF StateAgrees
  <2>6. ASSUME UNCHANGED <<task, attemptRow, pending, run, finisher, up>>, RetriesMove(retry, retry'),
               SubmissionsAgree(submission', retry, attemptRow)
        PROVE  StateAgrees'
    <3>1. RetriesAgree(retry', pending, run) /\ SubmissionsAgree(submission', retry', attemptRow)
      BY <2>1, <2>6, RetriesGoOn
    <3>2. up' => TablesAgree(pending', run', task', attemptRow', retry', submission')
      BY <2>3, <2>6, <3>1 DEF TablesAgree
    <3>3. ~up => \A r \in Retriers : retry'[r] = NoRetry
      BY <2>3, <2>6 DEF Idle, RetriesMove
    <3>4. ~up' => Idle'
      BY <2>3, <2>6, <3>3 DEF Idle
    <3>5. run' \in RunTable /\ RowsSound(task', attemptRow') /\ SubmissionsAgree(submission', retry', attemptRow')
      BY <1>0, <2>3, <2>6, <3>1 DEF TablesOK
    <3> QED
      BY <3>2, <3>4, <3>5 DEF StateAgrees
  <2>7. RetriesMove(retry, retry)
    BY DEF RetriesMove
  <2>8. ASSUME NEW i \in Attempts, Reauthorize(i) \/ DropSubmission(i) \/ SubmissionAnswered(i)
        PROVE  StateAgrees'
    <3>1. SubmissionsAgree(submission', retry, attemptRow)
      BY <1>0, <2>3, <2>8, SubmissionMoves
    <3>2. UNCHANGED <<task, attemptRow, pending, run, finisher, up, retry>>
      BY <2>8 DEF Reauthorize, DropSubmission, SubmissionAnswered, loginVars, envVars
    <3> QED
      BY <2>6, <2>7, <3>1, <3>2
  <2>9. ASSUME UNCHANGED <<loginVars, submission, up>>
        PROVE  StateAgrees'
    BY <2>3, <2>6, <2>7, <2>9 DEF loginVars
  <2>10. ASSUME NEW i \in Attempts,
                SaveChecked(i) \/ SaveToken(i) \/ SubjectFails(i) \/ MarkFailed(i) \/ DropReport(i)
         PROVE  StateAgrees'
    <3>1. UNCHANGED <<loginVars, submission, up>>
      BY <2>10 DEF SaveChecked, SaveToken, SubjectFails, MarkFailed, DropReport, envVars
    <3> QED
      BY <2>9, <3>1
  <2>11. ASSUME (\E a \in Accounts : Invalidate(a)) \/ StopAccepting
         PROVE  StateAgrees'
    <3>1. UNCHANGED <<loginVars, submission, up>>
      BY <2>11 DEF Invalidate, StopAccepting, callVars, envVars
    <3> QED
      BY <2>9, <3>1
  <2>12. ASSUME NEW p \in prepares, PrepareAttempt(p)
         PROVE  StateAgrees'
    <3>1. RetriesMove(retry, retry')
      BY <1>0, <2>12, PrepareMoves
    <3>2. UNCHANGED <<task, attemptRow, pending, run, finisher, up, submission>>
      BY <2>12 DEF PrepareAttempt, envVars
    <3> QED
      BY <2>3, <2>6, <3>1, <3>2
  <2>13. ASSUME NEW i \in Attempts, Enqueue(i)
         PROVE  StateAgrees'
    <3>1. up /\ up' = up
      BY <2>13 DEF Enqueue, envVars
    <3> QED
      BY <1>0, <2>3, <2>5, <2>13, <3>1, EnqueueStep
  <2>14. ASSUME NEW t \in Tasks, RunNext(t) \/ Cancel(t) \/ FinishCancellation(t) \/ ClaimDeletion(t) \/ EndDeletion(t)
         PROVE  StateAgrees'
    <3>1. up' = up
      BY <2>14 DEF RunNext, FlowSucceeds, FlowFails, SaveSucceeds, SaveFails, ReportEnds, Cancel, FinishCancellation,
                   ClaimDeletion, EndDeletion, envVars
    <3>2. up
      <4>1. CASE RunNext(t)
        BY <2>3, <4>1 DEF RunNext, FlowSucceeds, FlowFails, SaveSucceeds, SaveFails, ReportEnds, Idle
      <4>2. CASE FinishCancellation(t)
        BY <2>3, <4>2 DEF FinishCancellation, Idle
      <4> QED
        BY <2>14, <4>1, <4>2 DEF Cancel, ClaimDeletion, EndDeletion
    <3>3. TablesAgree(pending, run, task, attemptRow, retry, submission)
      BY <2>3, <3>2
    <3>4. TablesAgree(pending', run', task', attemptRow', retry', submission')
      <4>1. CASE RunNext(t)
        BY <3>3, <4>1, RunSteps
      <4>2. CASE Cancel(t) \/ FinishCancellation(t)
        BY <1>0, <3>3, <4>2, CancelSteps
      <4>3. CASE ClaimDeletion(t) \/ EndDeletion(t)
        BY <3>3, <4>3, DeletionSteps
      <4> QED
        BY <2>14, <4>1, <4>2, <4>3
    <3> QED
      BY <2>5, <3>1, <3>2, <3>4
  <2>15. ASSUME NEW r \in Retriers,
                \/ RetryNext(r)
                \/ \E t \in Tasks : RetryAsks(r, t)
                \/ \E i \in Attempts : RetryReserves(r, i)
         PROVE  StateAgrees'
    <3>1. up' = up
      BY <2>15 DEF RetryNext, RetryPrepared, RetryFails, RetryReleased, RetryAsks, RetryReserves, envVars
    <3>2. up
      BY <2>3, <2>15 DEF RetryNext, RetryPrepared, RetryFails, RetryReleased, RetryAsks, RetryReserves, Idle
    <3>3. TablesAgree(pending, run, task, attemptRow, retry, submission)
      BY <2>3, <3>2
    <3>4. TablesAgree(pending', run', task', attemptRow', retry', submission')
      BY <1>0, <2>15, <3>3, RetrySteps, RetryStarts
    <3> QED
      BY <2>5, <3>1, <3>2, <3>4
  <2>16. ASSUME Crash
         PROVE  StateAgrees'
    <3>1. ~up' /\ UNCHANGED <<task, attemptRow, submission>> /\ run' \in RunTable
      BY <2>16 DEF Crash, callVars, RunTable
    <3>2. Idle' /\ \A r \in Retriers : retry'[r] = NoRetry
      BY <2>16 DEF Crash, Idle
    <3>3. SubmissionsAgree(submission', retry', attemptRow')
      BY <2>3, <3>1, <3>2 DEF SubmissionsAgree
    <3> QED
      BY <2>3, <3>1, <3>2, <3>3 DEF StateAgrees
  <2>17. ASSUME Recover
         PROVE  StateAgrees'
    <3>1. ~up /\ up' = TRUE
      BY <2>17 DEF Recover
    <3>2. TablesAgree(pending', run', task', attemptRow', retry', submission')
      BY <1>0, <2>3, <2>17, <3>1, RecoverStep DEF TablesOK
    <3> QED
      BY <3>1, <3>2 DEF StateAgrees
  <2> QED
    BY <1>2, <2>8, <2>10, <2>11, <2>12, <2>13, <2>14, <2>15, <2>16, <2>17 DEF Next
<1> QED
  BY <1>1, <1>2
-----------------------------------------------------------------------------
(* The properties *)

(* A pending task has the row of its attempt. *)
PendingHasRow(ts, as) ==
  \A t \in Tasks : ts[t] \notin {NoTask, GoneTask} /\ ts[t].status = "pending" =>
    ts[t].attempt \in Attempts /\ as[ts[t].attempt] \in AttemptRow

LEMMA RowsOfPending ==
  ASSUME NEW ts, NEW as, RowsSound(ts, as)
  PROVE  PendingHasRow(ts, as)
<1>1. ts \in TaskTable /\ as \in RowTable /\ RowsAgree(ts, as)
  BY DEF RowsSound
<1>2. ASSUME NEW t \in Tasks, ts[t] \notin {NoTask, GoneTask}
      PROVE  ts[t].attempt \in Attempts /\ as[ts[t].attempt] \in AttemptRow
  <2>1. ts[t].attempt \in Attempts
    BY <1>1, <1>2 DEF TaskTable, TaskRow
  <2>2. as[ts[t].attempt] # NoRow
    BY <1>1, <1>2 DEF RowsAgree
  <2> QED
    BY <1>1, <2>1, <2>2 DEF RowTable
<1> QED
  BY <1>2 DEF PendingHasRow

(* drain() only marks attempts as running. *)
LEMMA DrainedRows ==
  ASSUME NEW q \in Seq(Entry), NEW rs, NEW ts, NEW as, Drain(q, rs, ts, as), PendingHasRow(ts, as)
  PROVE  \A i \in Attempts : attemptRow'[i] = as[i] \/ attemptRow'[i].status = "running"
<1>1. PICK n, S : Drained(q, rs, ts, as, pending', run', task', attemptRow', n, S)
  BY DrainStarts
<1>2. ASSUME NEW i \in Attempts PROVE attemptRow'[i] = as[i] \/ attemptRow'[i].status = "running"
  <2>1. CASE \E t \in S : ts[t].attempt = i
    <3>1. PICK t \in S : ts[t].attempt = i
      BY <2>1
    <3>2. t \in Tasks /\ ts[t] \notin {NoTask, GoneTask} /\ ts[t].status = "pending"
      BY <1>1 DEF Drained, Runnable
    <3>3. attemptRow'[i] = [as[i] EXCEPT !.status = "running"]
      BY <1>1, <2>1 DEF Drained
    <3> DEFINE row == as[i]
    <3>4. row \in AttemptRow
      BY <3>1, <3>2 DEF PendingHasRow
    <3>5. "running" \in Active \cup Finished
      BY DEF Active
    <3> HIDE DEF row
    <3>6. [row EXCEPT !.status = "running"].status = "running"
      BY <3>4, <3>5, AttemptStatus
    <3> QED
      BY <3>3, <3>6 DEF row
  <2>2. CASE ~\E t \in S : ts[t].attempt = i
    BY <1>1, <2>2 DEF Drained
  <2> QED
    BY <2>1, <2>2
<1> QED
  BY <1>2

(* finishAttempt changes the row of its attempt alone. *)
LEMMA FinishedRows ==
  ASSUME RowsSound(task, attemptRow), NEW t \in Tasks, NEW i \in Attempts, NEW s \in Finished
  PROVE  \A j \in Attempts : \/ FinishedRow(t, i, s)[j] = attemptRow[j]
                             \/ j = i /\ FinishedRow(t, i, s)[j].status = s
<1>1. CASE ~CanFinish(t, i)
  BY <1>1 DEF FinishedRow
<1>2. CASE CanFinish(t, i)
  <2> DEFINE row == attemptRow[i]
  <2>1. row \in AttemptRow /\ attemptRow \in RowTable
    <3>1. task[t].attempt = i /\ task[t] \notin {NoTask, GoneTask}
      BY <1>2 DEF CanFinish, Exists
    <3>2. attemptRow \in RowTable /\ attemptRow[task[t].attempt] # NoRow
      BY <3>1 DEF RowsSound, RowsAgree
    <3> QED
      BY <3>1, <3>2 DEF RowTable
  <2>2. s \in Active \cup Finished
    OBVIOUS
  <2>3. FinishedRow(t, i, s) = [attemptRow EXCEPT ![i] = [row EXCEPT !.status = s]]
    BY <1>2 DEF FinishedRow
  <2>4. \A j \in Attempts : FinishedRow(t, i, s)[j] = IF j = i THEN [row EXCEPT !.status = s] ELSE attemptRow[j]
    BY <2>1, <2>3 DEF RowTable
  <2> HIDE DEF row
  <2>5. [row EXCEPT !.status = s].status = s
    BY <2>1, <2>2, AttemptStatus
  <2> QED
    BY <2>4, <2>5
<1> QED
  BY <1>1, <1>2

(* No attempt becomes a success but one whose token was stored. *)
NoFalseSuccess ==
  \A i \in Attempts : attemptRow'[i] # NoRow /\ attemptRow'[i].status = "success" =>
    (attemptRow[i] # NoRow /\ attemptRow[i].status = "success") \/ i \in stored

LEMMA RunSuccess ==
  ASSUME TablesAgree(pending, run, task, attemptRow, retry, submission), StoreInv, NEW t \in Tasks, RunNext(t)
  PROVE  NoFalseSuccess
<1>1. /\ RowsSound(task, attemptRow) /\ pending \in Seq(Entry) /\ run \in RunTable
      /\ PendingHasRow(task, attemptRow)
  BY RowsOfPending DEF TablesAgree, QueueSound
<1>2. run[t] # NoRun
  BY DEF RunNext, FlowSucceeds, FlowFails, SaveSucceeds, SaveFails, ReportEnds
<1> DEFINE i == run[t].attempt
<1>3. i \in Attempts
  <2>1. run[t] \in Run
    BY <1>1, <1>2 DEF RunTable
  <2> QED
    BY <2>1 DEF Run
<1>4. ASSUME UNCHANGED attemptRow PROVE NoFalseSuccess
  BY <1>4 DEF NoFalseSuccess
<1>5. ASSUME EndRun(t, task, attemptRow) PROVE NoFalseSuccess
  <2>1. Drain(pending, [run EXCEPT ![t] = NoRun], task, attemptRow)
    BY <1>5 DEF EndRun
  <2>2. \A j \in Attempts : attemptRow'[j] = attemptRow[j] \/ attemptRow'[j].status = "running"
    BY <1>1, <2>1, DrainedRows
  <2> QED
    BY <2>2 DEF NoFalseSuccess
<1>6. ASSUME FailRun(t) PROVE NoFalseSuccess
  <2>1. attemptRow' = FinishedRow(t, i, "failed")
    BY <1>6 DEF FailRun
  <2>2. "failed" \in Finished
    BY DEF Finished
  <2> HIDE DEF i
  <2>3. \A j \in Attempts : attemptRow'[j] = attemptRow[j] \/ (j = i /\ attemptRow'[j].status = "failed")
    BY <1>1, <1>3, <2>1, <2>2, FinishedRows
  <2> QED
    BY <2>3 DEF NoFalseSuccess
<1>7. CASE SaveSucceeds(t)
  <2>1. Drain(pending, [run EXCEPT ![t] = NoRun], FinishedTask(t, i, "success"), FinishedRow(t, i, "success"))
    BY <1>7 DEF SaveSucceeds, EndRun
  <2>2. i \in stored
    BY <1>3, <1>7 DEF SaveSucceeds, StoreInv
  <2>3. "success" \in Finished
    BY DEF Finished
  <2> HIDE DEF i
  <2>4. \A j \in Attempts : \/ FinishedRow(t, i, "success")[j] = attemptRow[j]
                            \/ j = i /\ FinishedRow(t, i, "success")[j].status = "success"
    BY <1>1, <1>3, <2>3, FinishedRows
  <2> DEFINE ts2 == FinishedTask(t, i, "success")
             as2 == FinishedRow(t, i, "success")
  <2>5. RowsSound(ts2, as2)
    BY <1>1, <1>3, <2>3, FinishKeeps
  <2>6. Drain(pending, [run EXCEPT ![t] = NoRun], ts2, as2)
    BY <2>1
  <2>7. \A j \in Attempts : as2[j] = attemptRow[j] \/ j = i
    BY <2>4
  <2> HIDE DEF ts2, as2
  <2>8. PendingHasRow(ts2, as2)
    BY <2>5, RowsOfPending
  <2>9. \A j \in Attempts : attemptRow'[j] = as2[j] \/ attemptRow'[j].status = "running"
    BY <1>1, <2>6, <2>8, DrainedRows
  <2> QED
    BY <2>2, <2>7, <2>9 DEF NoFalseSuccess
<1> QED
  BY <1>4, <1>5, <1>6, <1>7 DEF RunNext, FlowSucceeds, FlowFails, SaveFails, ReportEnds

LEMMA CancelSuccess ==
  ASSUME RowsSound(task, attemptRow), NEW t \in Tasks, Exists(t), CancelTask(t)
  PROVE  NoFalseSuccess
<1>1. attemptRow' = CancellingRow(t)
  BY DEF CancelTask
<1>2. task[t] \notin {NoTask, GoneTask} /\ task \in TaskTable /\ attemptRow \in RowTable
  BY DEF Exists, RowsSound
<1>3. task[t].attempt \in Attempts
  BY <1>2 DEF TaskTable, TaskRow
<1> DEFINE row == attemptRow[task[t].attempt]
<1>4. row \in AttemptRow
  BY <1>2, <1>3 DEF RowsSound, RowsAgree, RowTable
<1>5. \A j \in Attempts : attemptRow'[j] = attemptRow[j] \/ attemptRow'[j] = [row EXCEPT !.status = "cancelling"]
  BY <1>1, <1>2, <1>3 DEF CancellingRow, RowTable
<1>6. "cancelling" \in Active \cup Finished
  BY DEF Active
<1> HIDE DEF row
<1>7. [row EXCEPT !.status = "cancelling"].status = "cancelling"
  BY <1>4, <1>6, AttemptStatus
<1> QED
  BY <1>5, <1>7 DEF NoFalseSuccess

LEMMA RetrySuccess ==
  ASSUME RowsSound(task, attemptRow), TypeOK, NEW r \in Retriers,
         RetryNext(r) \/ \E i \in Attempts : RetryReserves(r, i)
  PROVE  NoFalseSuccess
<1>1. retry[r] # NoRetry
  BY DEF RetryNext, RetryPrepared, RetryFails, RetryReleased, RetryReserves
<1> DEFINE t == retry[r].task
           i == retry[r].attempt
<1>2. t \in Tasks /\ i \in Attempts \cup {NoAttempt} /\ pending \in Seq(Entry)
  <2>1. retry[r] \in RetryCall /\ pending \in Seq(Entry)
    BY <1>1 DEF TypeOK
  <2> QED
    BY <2>1 DEF RetryCall
<1>3. ASSUME UNCHANGED attemptRow PROVE NoFalseSuccess
  BY <1>3 DEF NoFalseSuccess
<1>4. ASSUME Exists(t), CancelTask(t) PROVE NoFalseSuccess
  BY <1>2, <1>4, CancelSuccess
<1>5. ASSUME NEW j \in Attempts, RetryReserves(r, j) PROVE NoFalseSuccess
  <2>1. attemptRow' = attemptRow \/ attemptRow' = [attemptRow EXCEPT ![j] = [task |-> t, status |-> "pending"]]
    BY <1>5 DEF RetryReserves, NextAttempt
  <2>2. \A k \in Attempts : attemptRow'[k] = attemptRow[k] \/ attemptRow'[k].status = "pending"
    BY <2>1 DEF RowsSound, RowTable
  <2> QED
    BY <2>2 DEF NoFalseSuccess
<1>6. ASSUME Exists(t), task[t].attempt = i, task[t].status = "pending",
             Drain(Append(pending, [task |-> t, attempt |-> i]), run,
                   [task EXCEPT ![t] = [task[t] EXCEPT !.stage = "queued"]], attemptRow)
      PROVE  NoFalseSuccess
  <2> DEFINE row == [task[t] EXCEPT !.stage = "queued"]
             ts2 == [task EXCEPT ![t] = row]
             q2 == Append(pending, NewEntry(t, i))
  <2>1. task \in TaskTable /\ task[t] \in TaskRow /\ task[t] \notin {NoTask, GoneTask}
    BY <1>2, <1>6 DEF Exists, RowsSound, TaskTable
  <2>2. i \in Attempts
    BY <1>6, <2>1 DEF TaskRow
  <2>3. row.attempt = i
    <3> DEFINE old == task[t]
    <3>1. old \in TaskRow /\ old.attempt = i
      BY <1>6, <2>1
    <3> HIDE DEF old, i
    <3>2. [old EXCEPT !.stage = "queued"].attempt = old.attempt
      BY <3>1, TaskStage
    <3> QED
      BY <3>1, <3>2 DEF old
  <2>4. Drain(q2, run, ts2, attemptRow)
    BY <1>6 DEF NewEntry
  <2>5. PendingHasRow(task, attemptRow)
    BY RowsOfPending
  <2> HIDE DEF row
  <2>6. \A u \in Tasks : IF u = t THEN ts2[u] = row ELSE ts2[u] = task[u]
    BY <2>1 DEF TaskTable
  <2>7. attemptRow[i] \in AttemptRow
    BY <1>2, <1>6, <2>1, <2>5 DEF PendingHasRow
  <2> HIDE DEF ts2
  <2>8. PendingHasRow(ts2, attemptRow)
    BY <2>2, <2>3, <2>5, <2>6, <2>7 DEF PendingHasRow
  <2>9. q2 \in Seq(Entry)
    <3> HIDE DEF t, i
    <3> QED
      BY <1>2, <2>2, Appended
  <2> HIDE DEF q2
  <2>10. \A j \in Attempts : attemptRow'[j] = attemptRow[j] \/ attemptRow'[j].status = "running"
    BY <2>4, <2>8, <2>9, DrainedRows
  <2> QED
    BY <2>10 DEF NoFalseSuccess
<1>7. CASE RetryPrepared(r)
  BY <1>3, <1>4, <1>6, <1>7 DEF RetryPrepared
<1>8. CASE RetryFails(r)
  <2>1. ASSUME attemptRow' = FinishedRow(t, i, "failed") PROVE NoFalseSuccess
    <3>1. CASE i \in Attempts
      <4>1. "failed" \in Finished
        BY DEF Finished
      <4> HIDE DEF t, i
      <4>2. \A j \in Attempts : attemptRow'[j] = attemptRow[j] \/ (j = i /\ attemptRow'[j].status = "failed")
        BY <1>2, <2>1, <3>1, <4>1, FinishedRows
      <4> QED
        BY <4>2 DEF NoFalseSuccess
    <3>2. CASE i \notin Attempts
      <4>1. Exists(t) => task[t].attempt \in Attempts
        BY <1>2 DEF Exists, RowsSound, TaskTable, TaskRow
      <4>2. attemptRow' = attemptRow
        BY <2>1, <3>2, <4>1 DEF FinishedRow, CanFinish
      <4> QED
        BY <1>3, <4>2
    <3> QED
      BY <3>1, <3>2
  <2> QED
    BY <1>3, <1>4, <1>8, <2>1 DEF RetryFails
<1>9. CASE RetryReleased(r)
  BY <1>3, <1>9 DEF RetryReleased
<1> QED
  BY <1>5, <1>7, <1>8, <1>9 DEF RetryNext

LEMMA TaskSuccess ==
  ASSUME LoginInv, NEW t \in Tasks, Cancel(t) \/ FinishCancellation(t) \/ ClaimDeletion(t) \/ EndDeletion(t)
  PROVE  NoFalseSuccess
<1>1. RowsSound(task, attemptRow) /\ TypeOK
  BY DEF LoginInv, StateAgrees, TablesAgree
<1>2. ASSUME UNCHANGED attemptRow PROVE NoFalseSuccess
  BY <1>2 DEF NoFalseSuccess
<1>3. CASE Cancel(t)
  BY <1>1, <1>3, CancelSuccess DEF Cancel
<1>4. CASE ClaimDeletion(t) \/ EndDeletion(t)
  <2>1. \A i \in Attempts : attemptRow'[i] \in {attemptRow[i], NoRow}
    BY <1>4 DEF ClaimDeletion, EndDeletion, Deleted
  <2> QED
    BY <2>1 DEF NoFalseSuccess
<1>5. CASE FinishCancellation(t)
  <2> DEFINE i == finisher[t].attempt
  <2>1. finisher[t] \in Finisher
    BY <1>1, <1>5 DEF FinishCancellation, TypeOK
  <2>2. i \in Attempts /\ "cancelled" \in Finished
    BY <2>1 DEF Finisher, Finished
  <2>3. attemptRow' = attemptRow \/ attemptRow' = FinishedRow(t, i, "cancelled")
    BY <1>5 DEF FinishCancellation
  <2> HIDE DEF i
  <2>4. \A j \in Attempts : attemptRow'[j] = attemptRow[j] \/ attemptRow'[j].status = "cancelled"
    BY <1>1, <2>2, <2>3, FinishedRows
  <2> QED
    BY <2>4 DEF NoFalseSuccess
<1> QED
  BY <1>3, <1>4, <1>5

LEMMA RecoverSuccess ==
  ASSUME LoginInv, Recover
  PROVE  NoFalseSuccess
<1>1. RowsSound(task, attemptRow)
  BY DEF LoginInv, StateAgrees, TablesAgree
<1>2. ASSUME NEW i \in Attempts
      PROVE  attemptRow'[i] = attemptRow[i] \/ attemptRow'[i].status \in {"cancelled", "failed"}
  <2>1. CASE \E t \in Unfinished : task[t].attempt = i
    <3> DEFINE row == attemptRow[i]
               s == Interrupted(attemptRow[i].status)
    <3>1. attemptRow'[i] = [row EXCEPT !.status = s]
      BY <2>1 DEF Recover
    <3>2. s \in {"cancelled", "failed"} /\ s \in Active \cup Finished
      BY DEF Interrupted, Finished
    <3>3. row \in AttemptRow
      BY <1>1, <2>1 DEF RowsSound, RowsAgree, RowTable, Unfinished, Exists
    <3> HIDE DEF row, s
    <3>4. [row EXCEPT !.status = s].status = s
      BY <3>2, <3>3, AttemptStatus
    <3> QED
      BY <3>1, <3>2, <3>4
  <2>2. CASE ~\E t \in Unfinished : task[t].attempt = i
    BY <2>2 DEF Recover
  <2> QED
    BY <2>1, <2>2
<1> QED
  BY <1>2 DEF NoFalseSuccess

LEMMA EnqueueSuccess ==
  ASSUME LoginInv, NEW i \in Attempts, Enqueue(i)
  PROVE  NoFalseSuccess
<1>1. /\ RowsSound(task, attemptRow) /\ pending \in Seq(Entry)
      /\ SubmissionsAgree(submission, retry, attemptRow)
  BY DEF LoginInv, StateAgrees, TablesAgree, TypeOK
<1>2. CASE UNCHANGED attemptRow
  BY <1>2 DEF NoFalseSuccess
<1>3. ASSUME NEW t \in Tasks, task[t] = NoTask, ~HasActiveTask(AccountOf[i]),
             Drain(Append(pending, NewEntry(t, i)), run, [task EXCEPT ![t] = NewTask(i)], NextAttempt(t, i))
      PROVE  NoFalseSuccess
  <2> DEFINE row == NewTask(i)
             ts2 == [task EXCEPT ![t] = row]
             as2 == NextAttempt(t, i)
             q2 == Append(pending, NewEntry(t, i))
  <2>1. /\ row \in TaskRow /\ row.account = AccountOf[i] /\ row.status = "pending" /\ row.attempt = i
        /\ row.stage = "queued"
    BY LoginAssumption DEF NewTask, TaskRow, Active
  <2>2. Drain(q2, run, ts2, as2)
    BY <1>3
  <2> HIDE DEF row
  <2>3. attemptRow[i] = NoRow
    BY <1>1 DEF Enqueue, SubmissionsAgree
  <2>4. Begins(task, attemptRow, t, i, row, ts2, as2)
    BY <1>3, <2>1, <2>3, AbsenceAssumption DEF Begins, HasActiveTask, Exists, NextAttempt
  <2>5. RowsSound(ts2, as2)
    BY <1>1, <2>4, AttemptBegins
  <2>6. q2 \in Seq(Entry)
    BY <1>1, Appended
  <2>7. \A j \in Attempts : as2[j] = attemptRow[j] \/ as2[j].status = "pending"
    BY <1>1 DEF NextAttempt, RowsSound, RowTable
  <2> HIDE DEF ts2, as2, q2
  <2>8. PendingHasRow(ts2, as2)
    BY <2>5, RowsOfPending
  <2>9. \A j \in Attempts : attemptRow'[j] = as2[j] \/ attemptRow'[j].status = "running"
    BY <2>2, <2>6, <2>8, DrainedRows
  <2> QED
    BY <2>7, <2>9 DEF NoFalseSuccess
<1> QED
  BY <1>2, <1>3 DEF Enqueue, NewEntry

LEMMA StoreInvStep ==
  ASSUME LoginInv, StoreInv, [Next]_vars
  PROVE  StoreInv'
<1>1. TypeOK /\ RowsSound(task, attemptRow)
  BY DEF LoginInv, StateAgrees, TablesAgree
<1>2. ASSUME NoFalseSuccess, \A i \in Attempts : saveCall'[i] = "saved" => saveCall[i] = "saved" \/ i \in stored',
             stored \subseteq stored'
      PROVE  StoreInv'
  BY <1>2 DEF StoreInv, SuccessMeansStored, NoFalseSuccess
<1>3. ASSUME UNCHANGED attemptRow PROVE NoFalseSuccess
  BY <1>3 DEF NoFalseSuccess
<1>4. CASE UNCHANGED vars
  BY <1>2, <1>3, <1>4 DEF vars, loginVars, callVars, envVars
<1>5. ASSUME NEW i \in Attempts,
             \/ Reauthorize(i) \/ DropSubmission(i) \/ SubmissionAnswered(i)
             \/ SaveChecked(i) \/ SaveToken(i) \/ SubjectFails(i) \/ MarkFailed(i) \/ DropReport(i)
      PROVE  StoreInv'
  <2>1. UNCHANGED attemptRow /\ stored \subseteq stored'
    BY <1>5 DEF Reauthorize, DropSubmission, SubmissionAnswered, SaveChecked, SaveToken, SubjectFails, MarkFailed,
                DropReport, loginVars
  <2>2. \A j \in Attempts : saveCall'[j] = "saved" => saveCall[j] = "saved" \/ j \in stored'
    BY <1>1, <1>5 DEF Reauthorize, DropSubmission, SubmissionAnswered, SaveChecked, SaveToken, SubjectFails,
                      MarkFailed, DropReport, TypeOK
  <2> QED
    BY <1>2, <1>3, <2>1, <2>2
<1>6. ASSUME NEW i \in Attempts, Enqueue(i) PROVE StoreInv'
  <2>1. UNCHANGED <<saveCall, stored>>
    BY <1>6 DEF Enqueue
  <2> QED
    BY <1>2, <1>6, <2>1, EnqueueSuccess
<1>7. ASSUME NEW t \in Tasks, RunNext(t) PROVE StoreInv'
  <2>1. run[t] # NoRun
    BY <1>7 DEF RunNext, FlowSucceeds, FlowFails, SaveSucceeds, SaveFails, ReportEnds
  <2>2. up
    BY <2>1 DEF LoginInv, StateAgrees, Idle
  <2>3. NoFalseSuccess
    BY <1>7, <2>2, RunSuccess DEF LoginInv, StateAgrees
  <2>4. stored' = stored /\ \A j \in Attempts : saveCall'[j] = "saved" => saveCall[j] = "saved"
    BY <1>1, <1>7 DEF RunNext, FlowSucceeds, FlowFails, SaveSucceeds, SaveFails, ReportEnds, callVars, TypeOK
  <2> QED
    BY <1>2, <2>3, <2>4
<1>8. ASSUME NEW t \in Tasks, Cancel(t) \/ FinishCancellation(t) \/ ClaimDeletion(t) \/ EndDeletion(t) PROVE StoreInv'
  <2>1. UNCHANGED <<saveCall, stored>>
    BY <1>8 DEF Cancel, FinishCancellation, ClaimDeletion, EndDeletion, callVars
  <2> QED
    BY <1>2, <1>8, <2>1, TaskSuccess
<1>9. ASSUME NEW r \in Retriers, RetryNext(r) \/ \E i \in Attempts : RetryReserves(r, i) PROVE StoreInv'
  <2>1. UNCHANGED <<saveCall, stored>>
    BY <1>9 DEF RetryNext, RetryPrepared, RetryFails, RetryReleased, RetryReserves, callVars
  <2> QED
    BY <1>1, <1>2, <1>9, <2>1, RetrySuccess
<1>10. ASSUME NEW r \in Retriers, NEW t \in Tasks, RetryAsks(r, t) PROVE StoreInv'
  BY <1>2, <1>3, <1>10 DEF RetryAsks, callVars
<1>11. ASSUME NEW p \in prepares, PrepareAttempt(p) PROVE StoreInv'
  BY <1>2, <1>3, <1>11 DEF PrepareAttempt
<1>12. ASSUME NEW a \in Accounts, Invalidate(a) PROVE StoreInv'
  BY <1>2, <1>3, <1>12 DEF Invalidate, loginVars, callVars
<1>13. CASE StopAccepting \/ Crash
  BY <1>2, <1>3, <1>13 DEF StopAccepting, Crash, loginVars, callVars
<1>14. CASE Recover
  <2>1. UNCHANGED <<saveCall, stored>>
    BY <1>14 DEF Recover
  <2> QED
    BY <1>2, <1>14, <2>1, RecoverSuccess
<1> QED
  BY <1>4, <1>5, <1>6, <1>7, <1>8, <1>9, <1>10, <1>11, <1>12, <1>13, <1>14 DEF Next

-----------------------------------------------------------------------------
(* The fence *)

(* An attempt the Proxy fails is neither current nor about to be prepared:
   no call is preparing the attempt its account waits for. *)
LEMMA FailKeepsFence ==
  ASSUME TypeOK, FenceInv, NEW i \in Attempts, Fail(i) \/ UNCHANGED <<oauth, released>>, UNCHANGED prepares
  PROVE  FenceInv'
<1>1. AccountOf \in [Attempts -> Accounts] /\ oauth \in OauthTable /\ released \subseteq Attempts
  BY LoginAssumption DEF TypeOK, OauthTable
<1>2. \A p \in prepares : p.attempt \in Attempts
  BY DEF TypeOK, Prepare
<1>3. CASE UNCHANGED <<oauth, released>>
  BY <1>3 DEF FenceInv, Current
<1>4. CASE oauth[AccountOf[i]].attempt = i /\ Fail(i)
  <2> DEFINE old == oauth[AccountOf[i]]
             row == [old EXCEPT !.status = "failed"]
  <2>1. oauth' = [oauth EXCEPT ![AccountOf[i]] = row] /\ released' = released \cup {i}
    BY <1>4 DEF Fail
  <2>2. old \in OauthRow /\ AccountOf[i] \in Accounts
    BY <1>1 DEF OauthTable
  <2>3. row.status = "failed" /\ row.attempt = i
    <3>1. old.attempt = i
      BY <1>4
    <3> HIDE DEF old
    <3> QED
      BY <2>2, <3>1 DEF OauthRow
  <2> HIDE DEF row
  <2>4. \A a \in Accounts : oauth'[a] = IF a = AccountOf[i] THEN row ELSE oauth[a]
    BY <1>1, <2>1 DEF OauthTable
  <2>5. \A j \in released' : ~(oauth'[AccountOf[j]].attempt = j /\ oauth'[AccountOf[j]].status = "refreshing")
    BY <1>1, <2>1, <2>3, <2>4 DEF FenceInv, Current
  <2>6. \A p \in prepares : p.attempt # i
    BY <1>4 DEF FenceInv
  <2>7. \A p \in prepares : p.attempt \notin released' /\ oauth'[AccountOf[p.attempt]].attempt # p.attempt
    BY <1>1, <1>2, <2>1, <2>3, <2>4, <2>6 DEF FenceInv
  <2> QED
    BY <2>5, <2>7 DEF FenceInv, Current
<1> QED
  BY <1>3, <1>4 DEF Fail

(* An account that begins an attempt nobody failed or is preparing keeps
   the fence. *)
LEMMA BeginKeepsFence ==
  ASSUME TypeOK, FenceInv, NEW i \in Attempts, oauth' = Begun(i), i \notin released, UNCHANGED released,
         prepares' \subseteq prepares, \A p \in prepares' : p.attempt # i
  PROVE  FenceInv'
<1>1. AccountOf \in [Attempts -> Accounts] /\ oauth \in OauthTable /\ released \subseteq Attempts
  BY LoginAssumption DEF TypeOK, OauthTable
<1>2. \A p \in prepares : p.attempt \in Attempts
  BY DEF TypeOK, Prepare
<1>3. \A a \in Accounts : /\ a # AccountOf[i] => oauth'[a] = oauth[a]
                          /\ a = AccountOf[i] => oauth'[a].attempt = i
  BY <1>1 DEF Begun, OauthTable
<1>4. \A j \in released : ~(oauth'[AccountOf[j]].attempt = j /\ oauth'[AccountOf[j]].status = "refreshing")
  BY <1>1, <1>3 DEF FenceInv, Current
<1>5. \A p \in prepares' : p.attempt \notin released /\ oauth'[AccountOf[p.attempt]].attempt # p.attempt
  BY <1>1, <1>2, <1>3 DEF FenceInv
<1> QED
  BY <1>4, <1>5 DEF FenceInv, Current

(* An account that forgets its attempt keeps the fence. *)
LEMMA ForgetKeepsFence ==
  ASSUME TypeOK, FenceInv, NEW a \in Accounts, NEW row, row.attempt = NoAttempt,
         oauth' = [oauth EXCEPT ![a] = row], UNCHANGED <<released, prepares>>
  PROVE  FenceInv'
<1>1. AccountOf \in [Attempts -> Accounts] /\ oauth \in OauthTable /\ released \subseteq Attempts
  BY LoginAssumption DEF TypeOK, OauthTable
<1>2. \A p \in prepares : p.attempt \in Attempts
  BY DEF TypeOK, Prepare
<1>3. \A b \in Accounts : oauth'[b] = IF b = a THEN row ELSE oauth[b]
  BY <1>1 DEF OauthTable
<1>4. \A j \in released : ~(oauth'[AccountOf[j]].attempt = j /\ oauth'[AccountOf[j]].status = "refreshing")
  BY <1>1, <1>3, LoginAssumption DEF FenceInv, Current
<1>5. \A p \in prepares : oauth'[AccountOf[p.attempt]].attempt # p.attempt
  BY <1>1, <1>2, <1>3, LoginAssumption DEF FenceInv
<1> QED
  BY <1>4, <1>5 DEF FenceInv, Current

(* A prepare call keeps the fence: it is checked, refused, or begins its
   attempt and is gone. *)
LEMMA PrepareKeepsFence ==
  ASSUME TypeOK, FenceInv, NEW p \in prepares, PrepareAttempt(p)
  PROVE  FenceInv'
<1>1. p \in Prepare /\ UNCHANGED released
  BY DEF TypeOK, PrepareAttempt
<1>2. p.attempt \in Attempts
  BY <1>1 DEF Prepare
<1> DEFINE q == [p EXCEPT !.checked = TRUE]
<1>3. q.attempt = p.attempt
  BY <1>1 DEF Prepare
<1>4. CASE prepares' = (prepares \ {p}) \cup {q} /\ UNCHANGED oauth
  <2> HIDE DEF q
  <2> QED
    BY <1>1, <1>3, <1>4 DEF FenceInv, Current
<1>5. CASE prepares' = prepares \ {p} /\ UNCHANGED oauth
  BY <1>1, <1>5 DEF FenceInv, Current
<1>6. CASE prepares' = prepares \ {p} /\ oauth' = Begun(p.attempt)
  <2>1. p.attempt \notin released /\ \A s \in prepares' : s.attempt # p.attempt
    BY <1>6 DEF FenceInv
  <2> QED
    BY <1>1, <1>2, <1>6, <2>1, BeginKeepsFence
<1> QED
  BY <1>4, <1>5, <1>6 DEF PrepareAttempt

LEMMA FenceInvStep ==
  ASSUME TypeOK, FenceInv, [Next]_vars
  PROVE  FenceInv'
<1>1. ASSUME UNCHANGED <<oauth, released, prepares>> PROVE FenceInv'
  BY <1>1 DEF FenceInv, Current
<1>2. CASE UNCHANGED vars
  BY <1>1, <1>2 DEF vars, callVars
<1>3. ASSUME NEW i \in Attempts, Reauthorize(i) PROVE FenceInv'
  BY <1>3, BeginKeepsFence DEF Reauthorize, Unused
<1>4. ASSUME NEW i \in Attempts, SubmissionAnswered(i) \/ SubjectFails(i) \/ MarkFailed(i) PROVE FenceInv'
  <2>1. (Fail(i) \/ UNCHANGED <<oauth, released>>) /\ UNCHANGED prepares
    BY <1>4 DEF SubmissionAnswered, SubjectFails, MarkFailed
  <2> QED
    BY <2>1, FailKeepsFence
<1>5. ASSUME NEW i \in Attempts, SaveToken(i) PROVE FenceInv'
  <2> DEFINE row == [status |-> "valid", attempt |-> NoAttempt, token |-> i]
  <2>1. UNCHANGED oauth \/ oauth' = [oauth EXCEPT ![AccountOf[i]] = row]
    BY <1>5 DEF SaveToken
  <2>2. UNCHANGED <<released, prepares>>
    BY <1>5 DEF SaveToken
  <2>3. AccountOf[i] \in Accounts /\ row.attempt = NoAttempt
    BY LoginAssumption
  <2> HIDE DEF row
  <2> QED
    BY <1>1, <2>1, <2>2, <2>3, ForgetKeepsFence
<1>6. ASSUME NEW a \in Accounts, Invalidate(a) PROVE FenceInv'
  <2> DEFINE row == [status |-> "expired", attempt |-> NoAttempt, token |-> NoAttempt]
  <2>1. oauth' = [oauth EXCEPT ![a] = row] /\ UNCHANGED <<released, prepares>> /\ row.attempt = NoAttempt
    BY <1>6 DEF Invalidate, callVars
  <2> HIDE DEF row
  <2> QED
    BY <2>1, ForgetKeepsFence
<1>7. ASSUME NEW r \in Retriers, NEW i \in Attempts, RetryReserves(r, i) PROVE FenceInv'
  <2>1. UNCHANGED <<oauth, released>>
    BY <1>7 DEF RetryReserves
  <2>2. CASE UNCHANGED prepares
    BY <1>1, <2>1, <2>2
  <2>3. CASE ~UNCHANGED prepares
    <3> DEFINE q == [attempt |-> i, previous |-> retry[r].previous, checked |-> FALSE]
    <3>1. prepares' = prepares \cup {q} /\ Unused(i)
      BY <1>7, <2>3 DEF RetryReserves
    <3>2. q.attempt = i
      OBVIOUS
    <3> HIDE DEF q
    <3>3. i \notin released /\ oauth[AccountOf[i]].attempt # i /\ \A p \in prepares : p.attempt # i
      BY <3>1 DEF Unused
    <3> QED
      BY <2>1, <3>1, <3>2, <3>3 DEF FenceInv, Current
  <2> QED
    BY <2>2, <2>3
<1>8. ASSUME NEW p \in prepares, PrepareAttempt(p) PROVE FenceInv'
  BY <1>8, PrepareKeepsFence
<1>9. ASSUME NEW i \in Attempts, Enqueue(i) \/ DropSubmission(i) \/ SaveChecked(i) \/ DropReport(i) PROVE FenceInv'
  BY <1>1, <1>9 DEF Enqueue, DropSubmission, SaveChecked, DropReport
<1>10. ASSUME NEW t \in Tasks,
              RunNext(t) \/ Cancel(t) \/ FinishCancellation(t) \/ ClaimDeletion(t) \/ EndDeletion(t)
       PROVE  FenceInv'
  BY <1>1, <1>10 DEF RunNext, FlowSucceeds, FlowFails, SaveSucceeds, SaveFails, ReportEnds, Cancel,
                     FinishCancellation, ClaimDeletion, EndDeletion, callVars
<1>11. ASSUME NEW r \in Retriers, RetryNext(r) \/ \E t \in Tasks : RetryAsks(r, t) PROVE FenceInv'
  BY <1>1, <1>11 DEF RetryNext, RetryPrepared, RetryFails, RetryReleased, RetryAsks, callVars
<1>12. CASE StopAccepting \/ Crash \/ Recover
  BY <1>1, <1>12 DEF StopAccepting, Crash, Recover, callVars
<1> QED
  BY <1>2, <1>3, <1>4, <1>5, <1>6, <1>7, <1>8, <1>9, <1>10, <1>11, <1>12 DEF Next

(* Nothing but a save call of the current attempt stores a token. *)
LEMMA StoresCurrent ==
  ASSUME FenceInv, [Next]_vars
  PROVE  \A i \in released : i \in stored' => i \in stored
<1>1. CASE UNCHANGED stored
  BY <1>1
<1>2. ASSUME NEW i \in Attempts, SaveToken(i) PROVE \A j \in released : j \in stored' => j \in stored
  <2>1. UNCHANGED stored \/ (Current(i) /\ stored' = stored \cup {i})
    BY <1>2 DEF SaveToken
  <2> QED
    BY <2>1 DEF FenceInv
<1>3. ASSUME NEW i \in Attempts,
             \/ Reauthorize(i) \/ Enqueue(i) \/ DropSubmission(i) \/ SubmissionAnswered(i)
             \/ SaveChecked(i) \/ SubjectFails(i) \/ MarkFailed(i) \/ DropReport(i)
      PROVE  UNCHANGED stored
  BY <1>3 DEF Reauthorize, Enqueue, DropSubmission, SubmissionAnswered, SaveChecked, SubjectFails, MarkFailed, DropReport
<1>4. ASSUME NEW t \in Tasks,
             RunNext(t) \/ Cancel(t) \/ FinishCancellation(t) \/ ClaimDeletion(t) \/ EndDeletion(t)
      PROVE  UNCHANGED stored
  BY <1>4 DEF RunNext, FlowSucceeds, FlowFails, SaveSucceeds, SaveFails, ReportEnds, Cancel, FinishCancellation,
              ClaimDeletion, EndDeletion
<1>5. ASSUME NEW r \in Retriers,
             \/ RetryNext(r) \/ \E t \in Tasks : RetryAsks(r, t)
             \/ \E i \in Attempts : RetryReserves(r, i)
      PROVE  UNCHANGED stored
  BY <1>5 DEF RetryNext, RetryPrepared, RetryFails, RetryReleased, RetryAsks, RetryReserves
<1>6. ASSUME NEW p \in prepares, PrepareAttempt(p) PROVE UNCHANGED stored
  BY <1>6 DEF PrepareAttempt
<1>7. ASSUME NEW a \in Accounts, Invalidate(a) PROVE UNCHANGED stored
  BY <1>7 DEF Invalidate
<1>8. CASE StopAccepting \/ Crash \/ Recover
  BY <1>1, <1>8 DEF StopAccepting, Crash, Recover
<1>9. CASE UNCHANGED vars
  BY <1>1, <1>9 DEF vars
<1> QED
  BY <1>1, <1>2, <1>3, <1>4, <1>5, <1>6, <1>7, <1>8, <1>9 DEF Next

-----------------------------------------------------------------------------
(* Theorems *)

(* The rows, the queue, the runs and the retries of Login agree with one
   another at every cut, whatever crashes and recoveries came before. *)
THEOREM LoginStaysConsistent == Spec => []LoginInv
<1>1. Init => LoginInv
  BY LoginInvInit
<1>2. LoginInv /\ [Next]_vars => LoginInv'
  BY LoginInvStep
<1> QED
  BY <1>1, <1>2, PTL DEF Spec

(* Success is reported only of a stored token, the history of a task agrees
   with it, and no queued task is forgotten while Login is up. *)
THEOREM QueueStaysSound == Spec => []QueueIsSound
<1>1. Init => StoreInv
  BY DEF Init, StoreInv, SuccessMeansStored
<1>2. LoginInv /\ StoreInv /\ [Next]_vars => StoreInv'
  BY StoreInvStep
<1>3. LoginInv /\ StoreInv => QueueIsSound
  <2> SUFFICES ASSUME LoginInv, StoreInv PROVE QueueIsSound
    OBVIOUS
  <2>1. RowsAgree(task, attemptRow)
    BY DEF LoginInv, StateAgrees, TablesAgree, RowsSound
  <2>2. HistoryAgrees
    BY <2>1 DEF RowsAgree, HistoryAgrees, Exists
  <2>3. QueuedIsQueued
    BY DEF LoginInv, StateAgrees, TablesAgree, QueueSound, QueueHolds, QueuedIsQueued, Exists
  <2> QED
    BY <2>2, <2>3 DEF StoreInv, QueueIsSound
<1> QED
  BY <1>1, <1>2, <1>3, LoginStaysConsistent, PTL DEF Spec

(* Two browsers never work on the same account, however many slots, retries
   and crashes there are. *)
THEOREM OneBrowserAtATime == Spec => []OneBrowserPerAccount
<1>1. LoginInv => OneBrowserPerAccount
  <2> SUFFICES ASSUME LoginInv, NEW t \in Tasks, NEW u \in Tasks,
                      run[t] # NoRun, run[t].step # "reporting", run[u] # NoRun, run[u].step # "reporting",
                      AccountOf[run[t].attempt] = AccountOf[run[u].attempt]
               PROVE  t = u
    BY DEF OneBrowserPerAccount
  <2>1. up
    BY DEF LoginInv, StateAgrees, Idle
  <2>2. RowsAgree(task, attemptRow) /\ OneActive(task) /\ RunsAgree(run, task)
    BY <2>1 DEF LoginInv, StateAgrees, TablesAgree, RowsSound, QueueSound
  <2>3. \A v \in {t, u} : /\ task[v] \notin {NoTask, GoneTask} /\ task[v].attempt = run[v].attempt
                          /\ task[v].status \in Active
    BY <2>2 DEF RunsAgree, Active
  <2>4. task[t].account = task[u].account
    BY <2>2, <2>3 DEF RowsAgree
  <2> QED
    BY <2>2, <2>3, <2>4 DEF OneActive
<1> QED
  BY <1>1, LoginStaysConsistent, PTL

(* A token whose attempt the Proxy has marked failed is never stored: the
   callback that was verifying it finds another attempt, or a failed one. *)
THEOREM CancelAlwaysWins == Spec => CancelWins
<1>1. Init => FenceInv
  BY DEF Init, FenceInv
<1>2. TypeOK /\ FenceInv /\ [Next]_vars => FenceInv'
  BY FenceInvStep
<1>3. FenceInv /\ [Next]_vars => [\A i \in released : i \in stored' => i \in stored]_vars
  BY StoresCurrent
<1>4. LoginInv => TypeOK
  BY DEF LoginInv
<1> QED
  BY <1>1, <1>2, <1>3, <1>4, LoginStaysConsistent, PTL DEF Spec, CancelWins

-----------------------------------------------------------------------------
(* The attempts accounts wait for.  While nothing was lost, whoever works on
   an attempt hands it on: the submission to the queue, the queue to a run, a
   run to the report, a cancellation and a refused retry to the report, a
   prepared retry to the queue.  AttendInv says who holds it. *)

(* Nothing was lost yet: no crash of Login, no call or answer. *)
Calm == crashes = 0 /\ losses = 0

(* A submission that is not decided, or refused and not rolled back. *)
Undecided(s) == s.net = "sent" \/ (s.net = "rejected" /\ s.client \in {"waiting", "rollback"})

SubmissionsAnswered ==
  \A i \in Attempts : submission[i] # NoSubmission =>
    /\ submission[i].net # "dead" /\ submission[i].client # "lookup"
    /\ submission[i].net = "sent" => submission[i].client = "waiting"
    /\ submission[i].client = "rollback" => submission[i].net = "rejected"

(* A save call under way has its run; a stored attempt is not the one its
   account waits for. *)
SavesRun ==
  \A i \in Attempts :
    /\ saveCall[i] = "saved" => oauth[AccountOf[i]].attempt # i
    /\ saveCall[i] \in {"sent", "verifying"} =>
         \E t \in Tasks : run[t] # NoRun /\ run[t].attempt = i /\ run[t].step = "saving"

(* A prepare call has its retry waiting, and its attempt never had a browser. *)
PreparesAwaited ==
  \A p \in prepares :
    /\ saveCall[p.attempt] = "none"
    /\ \E r \in Retriers : retry[r] # NoRetry /\ retry[r].attempt = p.attempt /\ retry[r].step = "prepare"

(* Until the Proxy has answered a retry, its task is the retry's own. *)
Preparing == {"prepare", "prepared", "refused"}

OwnTask(row, i) ==
  row # NoTask /\ (row # GoneTask => row.attempt = i /\ row.status \in {"pending", "cancelling", "cancelled"})

RetriesOwn ==
  \A r \in Retriers : retry[r] # NoRetry =>
    /\ retry[r].step \in Preparing => OwnTask(task[retry[r].task], retry[r].attempt)
    /\ retry[r].step \in {"prepare", "refused"} => ~Current(retry[r].attempt)

(* Somebody works on the attempt i, or its account is about to be told. *)
CaredFor(i) ==
  \/ submission[i] # NoSubmission /\ Undecided(submission[i])
  \/ \E t \in Tasks : Exists(t) /\ task[t].attempt = i /\ task[t].status \in Active
  \/ i \in reports
  \/ \E r \in Retriers : retry[r] # NoRetry /\ retry[r].attempt = i /\ retry[r].step = "prepared"

AccountsWait == \A a \in Accounts : oauth[a].status = "refreshing" =>
                  oauth[a].attempt \in Attempts /\ AccountOf[oauth[a].attempt] = a

AttendInv ==
  Calm => /\ up /\ SubmissionsAnswered /\ SavesRun /\ PreparesAwaited /\ RetriesOwn
          /\ \A i \in Attempts : Current(i) => CaredFor(i)

-----------------------------------------------------------------------------
(* A run whose browser works on the task's attempt. *)
OfRun(u) == run[u] # NoRun /\ run[u].step # "reporting" /\ run[u].attempt = task[u].attempt

(* What a step makes of a task: it goes on under its attempt, closed only when
   its attempt is reported or stored, or it is finished and deleted or retried. *)
TaskKept(u) ==
  /\ Exists(u) /\ task'[u] \notin {NoTask, GoneTask} /\ task'[u].attempt = task[u].attempt
  /\ \/ task'[u].status = task[u].status
     \/ task'[u].status = "cancelling" /\ task[u].status \in Active
     \/ task'[u].status = "cancelled" /\ task[u].status \in Active /\ task[u].attempt \in reports'
     \/ /\ task'[u].status = "running" /\ task[u].status = "pending"
        /\ run'[u] # NoRun /\ run'[u].step = "flow" /\ run'[u].attempt = task[u].attempt
     \/ /\ task'[u].status = "failed" /\ task[u].attempt \in reports'
        /\ \/ OfRun(u)
           \/ \E r \in Retriers : /\ retry[r] # NoRetry /\ retry[r].attempt = task[u].attempt
                                  /\ retry[r].step \in Preparing
                                  /\ retry'[r] # NoRetry /\ retry'[r].step = "release"
     \/ task'[u].status = "success" /\ saveCall[task[u].attempt] = "saved" /\ OfRun(u)

TaskMoved(u) ==
  \/ task'[u] = task[u] \/ task[u] = NoTask
  \/ Exists(u) /\ task'[u] = GoneTask /\ task[u].status \in Finished
  \/ Exists(u) /\ task[u].status = "failed" /\ task'[u] # NoTask
  \/ TaskKept(u)

(* A run stays at its save call until the call is answered. *)
RunKept(u) ==
  run[u] # NoRun /\ run[u].step = "saving" /\ saveCall[run[u].attempt] \in {"sent", "verifying"} =>
    run'[u] # NoRun /\ run'[u].step = "saving" /\ run'[u].attempt = run[u].attempt

StepMoves == \A u \in Tasks : TaskMoved(u) /\ RunKept(u)

(* drain() starts pending tasks that have an entry, and leaves the others. *)
Started(q, ts, u) ==
  /\ \E k \in DOMAIN q : q[k].task = u /\ q[k].attempt = ts[u].attempt
  /\ ts[u] \notin {NoTask, GoneTask} /\ ts[u].status = "pending"
  /\ task'[u] \notin {NoTask, GoneTask} /\ task'[u].attempt = ts[u].attempt /\ task'[u].status = "running"
  /\ run'[u] # NoRun /\ run'[u].step = "flow" /\ run'[u].attempt = ts[u].attempt

LEMMA DrainedTasks ==
  ASSUME NEW q \in Seq(Entry), NEW ts \in TaskTable, NEW rs, NEW as, Drain(q, rs, ts, as)
  PROVE  \A u \in Tasks : (task'[u] = ts[u] /\ run'[u] = rs[u]) \/ Started(q, ts, u)
<1>1. PICK n, S : Drained(q, rs, ts, as, pending', run', task', attemptRow', n, S)
  BY DrainStarts
<1>2. ASSUME NEW u \in Tasks, u \notin S PROVE task'[u] = ts[u] /\ run'[u] = rs[u]
  BY <1>1, <1>2 DEF Drained
<1>3. ASSUME NEW u \in Tasks, u \in S PROVE Started(q, ts, u)
  <2>1. PICK k \in 1..n : q[k].task = u /\ Runnable(ts, q[k])
    BY <1>1, <1>3 DEF Drained
  <2>2. k \in DOMAIN q
    BY <1>1, <2>1 DEF Drained
  <2>3. ts[u] \notin {NoTask, GoneTask} /\ ts[u].status = "pending" /\ q[k].attempt = ts[u].attempt
    BY <2>1 DEF Runnable
  <2> DEFINE row == ts[u]
  <2>4. row \in TaskRow
    BY <2>3 DEF TaskTable
  <2>5. row.attempt \in Attempts
    BY <2>4 DEF TaskRow
  <2>6. task'[u] = Running(row) /\ run'[u] = [attempt |-> row.attempt, step |-> "flow", aborted |-> FALSE]
    BY <1>1, <1>3 DEF Drained
  <2> HIDE DEF row
  <2>7. /\ Running(row) \notin {NoTask, GoneTask} /\ Running(row).attempt = row.attempt
        /\ Running(row).status = "running"
    BY <2>4, RunningRow, RowsAreRecords
  <2> DEFINE new == [attempt |-> row.attempt, step |-> "flow", aborted |-> FALSE]
  <2>8. new \in Run /\ new.attempt = row.attempt /\ new.step = "flow"
    BY <2>5 DEF Run
  <2>9. new # NoRun
    BY <2>8, RowsAreRecords
  <2> QED BY <2>1, <2>2, <2>3, <2>6, <2>7, <2>8, <2>9 DEF Started, row
<1> QED BY <1>2, <1>3

(* What finishAttempt makes of the tasks. *)
LEMMA FinishedTasks ==
  ASSUME task \in TaskTable, NEW t \in Tasks, NEW i, NEW s \in Finished
  PROVE  /\ FinishedTask(t, i, s) \in TaskTable
         /\ \A u \in Tasks :
              \/ FinishedTask(t, i, s)[u] = task[u]
              \/ /\ u = t /\ CanFinish(t, i) /\ Exists(u) /\ task[u].attempt = i
                 /\ FinishedTask(t, i, s)[u] \notin {NoTask, GoneTask}
                 /\ FinishedTask(t, i, s)[u].status = s /\ FinishedTask(t, i, s)[u].attempt = i
<1>1. CASE ~CanFinish(t, i)
  BY <1>1 DEF FinishedTask
<1>2. CASE CanFinish(t, i)
  <2> DEFINE old == task[t]
             row == Closed(old, s)
  <2>1. old \in TaskRow /\ old.attempt = i /\ Exists(t)
    BY <1>2 DEF CanFinish, Exists, TaskTable
  <2>2. FinishedTask(t, i, s) = [task EXCEPT ![t] = row]
    BY <1>2 DEF FinishedTask
  <2> HIDE DEF old
  <2>3. row \in TaskRow /\ row.attempt = i /\ row.status = s
    BY <2>1, ClosedRow
  <2> HIDE DEF row
  <2>4. row \notin {NoTask, GoneTask}
    BY <2>3, RowsAreRecords
  <2> QED BY <1>2, <2>1, <2>2, <2>3, <2>4 DEF TaskTable, old
<1> QED BY <1>1, <1>2

(* What the proofs of the steps take from the invariant. *)
LEMMA CalmTables ==
  ASSUME LoginInv, up
  PROVE  /\ task \in TaskTable /\ run \in RunTable /\ pending \in Seq(Entry)
         /\ RowsAgree(task, attemptRow) /\ RunsAgree(run, task) /\ QueueAgrees(pending, run, task)
         /\ RetriesAgree(retry, pending, run)
         /\ \A t \in Tasks : run[t] # NoRun => run[t] \in Run /\ run[t].attempt \in Attempts
<1>1. /\ task \in TaskTable /\ run \in RunTable /\ pending \in Seq(Entry)
      /\ RowsAgree(task, attemptRow) /\ RunsAgree(run, task) /\ QueueAgrees(pending, run, task)
      /\ RetriesAgree(retry, pending, run)
  BY DEF LoginInv, StateAgrees, TablesAgree, RowsSound, QueueSound
<1>2. \A t \in Tasks : run[t] # NoRun => run[t] \in Run
  BY <1>1 DEF RunTable
<1> QED BY <1>1, <1>2 DEF Run

(* The end of a run: its slot is free, and the queue drained. *)
LEMMA EndMoves ==
  ASSUME LoginInv, up, NEW t \in Tasks, NEW as, EndRun(t, task, as),
         run[t] # NoRun /\ (run[t].step = "saving" => saveCall[run[t].attempt] \notin {"sent", "verifying"})
  PROVE  StepMoves
<1> DEFINE rs == [run EXCEPT ![t] = NoRun]
<1>1. /\ task \in TaskTable /\ run \in RunTable /\ pending \in Seq(Entry) /\ QueueAgrees(pending, run, task)
  BY CalmTables
<1>2. Drain(pending, rs, task, as)
  BY DEF EndRun
<1>3. \A u \in Tasks : u # t => rs[u] = run[u]
  BY <1>1 DEF RunTable
<1> HIDE DEF rs
<1>4. \A u \in Tasks : (task'[u] = task[u] /\ run'[u] = rs[u]) \/ Started(pending, task, u)
  BY <1>1, <1>2, DrainedTasks
<1>5. ASSUME NEW u \in Tasks PROVE TaskMoved(u) /\ RunKept(u)
  <2>1. CASE task'[u] = task[u] /\ run'[u] = rs[u]
    BY <1>3, <2>1 DEF TaskMoved, RunKept
  <2>2. CASE Started(pending, task, u)
    <3>1. run[u] = NoRun
      BY <1>1, <2>2 DEF Started, QueueAgrees
    <3> QED BY <2>2, <3>1 DEF Started, TaskMoved, TaskKept, RunKept, Exists
  <2> QED BY <1>4, <2>1, <2>2
<1> QED BY <1>5 DEF StepMoves

LEMMA FailMoves ==
  ASSUME LoginInv, up, NEW t \in Tasks, FailRun(t), run[t] # NoRun, run[t].step # "reporting",
         run[t].step = "saving" => saveCall[run[t].attempt] \notin {"sent", "verifying"}
  PROVE  StepMoves
<1> DEFINE i == run[t].attempt
<1>1. task \in TaskTable /\ run \in RunTable
  BY CalmTables
<1>2. /\ task' = FinishedTask(t, i, "failed") /\ reports' = reports \cup {i}
      /\ \A u \in Tasks : u # t => run'[u] = run[u]
  BY <1>1 DEF FailRun, RunTable
<1>3. "failed" \in Finished
  BY DEF Finished
<1>4. i = run[t].attempt
  OBVIOUS
<1> HIDE DEF i
<1>5. \A u \in Tasks :
        \/ task'[u] = task[u]
        \/ /\ u = t /\ Exists(u) /\ task[u].attempt = i
           /\ task'[u] \notin {NoTask, GoneTask} /\ task'[u].status = "failed" /\ task'[u].attempt = i
  BY <1>1, <1>2, <1>3, FinishedTasks
<1> QED BY <1>2, <1>4, <1>5 DEF StepMoves, TaskMoved, TaskKept, RunKept, OfRun

LEMMA RunMovesTasks ==
  ASSUME LoginInv, up, losses = 0, losses' = 0, NEW t \in Tasks, RunNext(t)
  PROVE  StepMoves
<1>0. losses' # losses + 1 /\ TypeOK
  BY DEF LoginInv
<1>1. run[t] # NoRun /\ run \in RunTable /\ task \in TaskTable /\ pending \in Seq(Entry)
      /\ QueueAgrees(pending, run, task)
  BY CalmTables DEF RunNext, FlowSucceeds, FlowFails, SaveSucceeds, SaveFails, ReportEnds
<1>2. CASE FlowSucceeds(t)
  <2>1. UNCHANGED task /\ run[t].step = "flow" /\ \A u \in Tasks : u # t => run'[u] = run[u]
    BY <1>1, <1>2 DEF FlowSucceeds, RunTable
  <2> QED BY <2>1 DEF StepMoves, TaskMoved, RunKept
<1>3. CASE FlowFails(t)
  <2>1. run[t].step = "flow" /\ (EndRun(t, task, attemptRow) \/ FailRun(t))
    BY <1>3 DEF FlowFails
  <2> QED BY <1>1, <2>1, EndMoves, FailMoves
<1>4. CASE ReportEnds(t)
  <2>1. run[t].step = "reporting" /\ EndRun(t, task, attemptRow)
    BY <1>4 DEF ReportEnds
  <2> QED BY <1>1, <2>1, EndMoves
<1>5. CASE SaveFails(t)
  <2>1. run[t].step = "saving" /\ saveCall[run[t].attempt] = "refused"
        /\ (EndRun(t, task, attemptRow) \/ FailRun(t))
    BY <1>0, <1>5 DEF SaveFails
  <2> QED BY <1>1, <2>1, EndMoves, FailMoves
<1>6. CASE SaveSucceeds(t)
  <2> DEFINE i == run[t].attempt
             rs == [run EXCEPT ![t] = NoRun]
             ts == FinishedTask(t, i, "success")
             as == FinishedRow(t, i, "success")
  <2>1. run[t].step = "saving" /\ saveCall[i] = "saved" /\ Drain(pending, rs, ts, as)
    BY <1>6 DEF SaveSucceeds, EndRun
  <2>2. \A u \in Tasks : u # t => rs[u] = run[u]
    BY <1>1 DEF RunTable
  <2>3. "success" \in Finished
    BY DEF Finished
  <2>4. i = run[t].attempt
    OBVIOUS
  <2> HIDE DEF i, rs, as
  <2>5. /\ ts \in TaskTable
        /\ \A u \in Tasks :
             \/ ts[u] = task[u]
             \/ /\ u = t /\ Exists(u) /\ task[u].attempt = i
                /\ ts[u] \notin {NoTask, GoneTask} /\ ts[u].status = "success" /\ ts[u].attempt = i
    BY <1>1, <2>3, FinishedTasks
  <2> HIDE DEF ts
  <2>6. \A u \in Tasks : (task'[u] = ts[u] /\ run'[u] = rs[u]) \/ Started(pending, ts, u)
    BY <1>1, <2>1, <2>5, DrainedTasks
  <2>7. ASSUME NEW u \in Tasks PROVE TaskMoved(u) /\ RunKept(u)
    <3>1. CASE task'[u] = ts[u] /\ run'[u] = rs[u]
      <4>1. RunKept(u)
        BY <2>1, <2>2, <2>4, <3>1 DEF RunKept
      <4>2. CASE ts[u] = task[u]
        BY <3>1, <4>1, <4>2 DEF TaskMoved
      <4>3. CASE ts[u] # task[u]
        BY <1>1, <2>1, <2>4, <2>5, <3>1, <4>1, <4>3 DEF TaskMoved, TaskKept, OfRun
      <4> QED BY <4>2, <4>3
    <3>2. CASE Started(pending, ts, u)
      <4>1. ts[u] = task[u]
        BY <2>5, <3>2 DEF Started
      <4>2. run[u] = NoRun
        BY <1>1, <3>2 DEF Started, QueueAgrees
      <4> QED BY <3>2, <4>1, <4>2 DEF Started, TaskMoved, TaskKept, RunKept, Exists
    <3> QED BY <2>6, <3>1, <3>2
  <2> QED BY <2>7 DEF StepMoves
<1> QED BY <1>2, <1>3, <1>4, <1>5, <1>6 DEF RunNext

LEMMA AbortedRun ==
  ASSUME NEW r \in Run
  PROVE  /\ [r EXCEPT !.aborted = TRUE] \in Run
         /\ [r EXCEPT !.aborted = TRUE].step = r.step /\ [r EXCEPT !.aborted = TRUE].attempt = r.attempt
BY DEF Run

LEMMA CancelMoves ==
  ASSUME LoginInv, up, NEW t \in Tasks, Exists(t), CancelTask(t)
  PROVE  StepMoves
<1>1. task \in TaskTable /\ run \in RunTable /\ \A u \in Tasks : run[u] # NoRun => run[u] \in Run
  BY CalmTables
<1>2. CASE task[t].status \notin Active
  BY <1>2 DEF CancelTask, StopWork, StepMoves, TaskMoved, RunKept
<1>3. CASE task[t].status \in Active
  <2> DEFINE old == task[t]
             row == [old EXCEPT !.status = "cancelling"]
             x == [run[t] EXCEPT !.aborted = TRUE]
  <2>1. task' = [task EXCEPT ![t] = row] /\ run' = IF run[t] # NoRun THEN [run EXCEPT ![t] = x] ELSE run
    BY <1>3 DEF CancelTask, StopWork
  <2>2. old \in TaskRow
    BY <1>1 DEF Exists, TaskTable
  <2>3. "cancelling" \in Active \cup Finished
    BY DEF Active
  <2>4. run[t] # NoRun => x # NoRun /\ x.step = run[t].step /\ x.attempt = run[t].attempt
    <3> DEFINE r == run[t]
    <3> SUFFICES ASSUME r # NoRun PROVE x # NoRun /\ x.step = r.step /\ x.attempt = r.attempt
      OBVIOUS
    <3>1. r \in Run
      BY <1>1
    <3> HIDE DEF r
    <3>2. x \in Run /\ x.step = r.step /\ x.attempt = r.attempt
      BY <3>1, AbortedRun DEF r
    <3> HIDE DEF x
    <3> QED BY <3>2, RowsAreRecords
  <2> HIDE DEF old, x
  <2>5. row \in TaskRow /\ row.attempt = old.attempt /\ row.status = "cancelling"
    BY <2>2, <2>3, TaskStatus
  <2> HIDE DEF row
  <2>6. row \notin {NoTask, GoneTask}
    BY <2>5, RowsAreRecords
  <2>7. task'[t] = row /\ \A u \in Tasks : u # t => task'[u] = task[u]
    BY <1>1, <2>1 DEF TaskTable
  <2>8. /\ \A u \in Tasks : u # t => run'[u] = run[u]
        /\ run[t] # NoRun => run'[t] = x
    BY <1>1, <2>1 DEF RunTable
  <2>9. TaskMoved(t)
    BY <1>3, <2>5, <2>6, <2>7 DEF TaskMoved, TaskKept, old
  <2>10. \A u \in Tasks : RunKept(u)
    BY <2>4, <2>8 DEF RunKept
  <2> QED BY <2>7, <2>9, <2>10 DEF StepMoves, TaskMoved
<1> QED BY <1>2, <1>3

LEMMA FinishMoves ==
  ASSUME LoginInv, up, NEW t \in Tasks, FinishCancellation(t)
  PROVE  StepMoves
<1>1. task \in TaskTable
  BY CalmTables
<1> DEFINE i == finisher[t].attempt
<1>2. UNCHANGED run
  BY DEF FinishCancellation
<1>3. UNCHANGED task \/ (task' = FinishedTask(t, i, "cancelled") /\ reports' = reports \cup {i})
  BY DEF FinishCancellation
<1>4. "cancelled" \in Finished
  BY DEF Finished
<1> HIDE DEF i
<1>5. \A u \in Tasks : RunKept(u)
  BY <1>2 DEF RunKept
<1>6. CASE UNCHANGED task
  BY <1>5, <1>6 DEF StepMoves, TaskMoved
<1>7. CASE task' = FinishedTask(t, i, "cancelled") /\ reports' = reports \cup {i}
  <2>1. \A u \in Tasks :
          \/ task'[u] = task[u]
          \/ /\ u = t /\ CanFinish(t, i) /\ Exists(u) /\ task[u].attempt = i
             /\ task'[u] \notin {NoTask, GoneTask} /\ task'[u].status = "cancelled" /\ task'[u].attempt = i
    BY <1>1, <1>4, <1>7, FinishedTasks
  <2> QED BY <1>5, <1>7, <2>1 DEF StepMoves, TaskMoved, TaskKept, CanFinish
<1> QED BY <1>3, <1>6, <1>7

LEMMA DeletionMoves ==
  ASSUME LoginInv, up, NEW t \in Tasks, ClaimDeletion(t) \/ EndDeletion(t)
  PROVE  StepMoves
<1>1. task \in TaskTable /\ RowsAgree(task, attemptRow)
  BY CalmTables
<1> DEFINE old == task[t]
           claimed == [old EXCEPT !.stage = "deleting"]
           given == [old EXCEPT !.stage = "done"]
<1>2. Exists(t) /\ UNCHANGED run
  BY DEF ClaimDeletion, EndDeletion
<1>3. \/ task' = [task EXCEPT ![t] = claimed]
      \/ task' = [task EXCEPT ![t] = GoneTask] /\ old.stage = "deleting"
      \/ task' = [task EXCEPT ![t] = given]
  BY DEF ClaimDeletion, EndDeletion, ClaimReleased
<1>4. old \in TaskRow /\ (old.stage = "deleting" => old.status \in Finished)
  BY <1>1, <1>2 DEF TaskTable, Exists, RowsAgree
<1> HIDE DEF old
<1>5. claimed \in TaskRow /\ claimed.status = old.status /\ claimed.attempt = old.attempt
  BY <1>4, TaskStage
<1>6. given \in TaskRow /\ given.status = old.status /\ given.attempt = old.attempt
  BY <1>4, TaskStage
<1> HIDE DEF claimed, given
<1>10. claimed \notin {NoTask, GoneTask} /\ given \notin {NoTask, GoneTask}
  BY <1>5, <1>6, RowsAreRecords
<1>7. \A u \in Tasks : u # t => task'[u] = task[u]
  BY <1>1, <1>3 DEF TaskTable
<1>8. \/ task'[t] \in {claimed, given}
      \/ task'[t] = GoneTask /\ old.stage = "deleting"
  BY <1>1, <1>3 DEF TaskTable
<1>9. TaskMoved(t)
  BY <1>2, <1>4, <1>5, <1>6, <1>8, <1>10 DEF TaskMoved, TaskKept, old
<1> QED BY <1>2, <1>7, <1>9 DEF StepMoves, TaskMoved, RunKept

(* A pending task joins the queue, which is drained. *)
LEMMA JoinMoves ==
  ASSUME LoginInv, up, NEW t \in Tasks, NEW i \in Attempts, NEW row \in TaskRow, NEW as,
         Drain(Append(pending, NewEntry(t, i)), run, [task EXCEPT ![t] = row], as),
         run[t] = NoRun,
         task[t] = NoTask \/ (Exists(t) /\ row.attempt = task[t].attempt /\ row.status = task[t].status)
  PROVE  StepMoves
<1>1. task \in TaskTable /\ pending \in Seq(Entry) /\ QueueAgrees(pending, run, task)
  BY CalmTables
<1> DEFINE q == Append(pending, NewEntry(t, i))
           ts == [task EXCEPT ![t] = row]
<1>2. q \in Seq(Entry) /\ \A k \in DOMAIN q : (k \in DOMAIN pending /\ q[k] = pending[k]) \/ q[k] = NewEntry(t, i)
  BY <1>1 DEF NewEntry, Entry
<1>3. ts \in TaskTable /\ ts[t] = row /\ \A u \in Tasks : u # t => ts[u] = task[u]
  BY <1>1 DEF TaskTable
<1>4. Drain(q, run, ts, as)
  OBVIOUS
<1> HIDE DEF q, ts
<1>5. \A u \in Tasks : (task'[u] = ts[u] /\ run'[u] = run[u]) \/ Started(q, ts, u)
  BY <1>2, <1>3, <1>4, DrainedTasks
<1>6. row \notin {NoTask, GoneTask}
  BY RowsAreRecords
<1>7. ASSUME NEW u \in Tasks PROVE TaskMoved(u) /\ RunKept(u)
  <2>1. CASE task'[u] = ts[u] /\ run'[u] = run[u]
    BY <1>3, <1>6, <2>1 DEF TaskMoved, TaskKept, RunKept
  <2>2. CASE Started(q, ts, u)
    <3>1. run[u] = NoRun
      <4>1. PICK k \in DOMAIN q : q[k].task = u
        BY <2>2 DEF Started
      <4> QED BY <1>1, <1>2, <4>1 DEF QueueAgrees, NewEntry
    <3>2. TaskMoved(u)
      BY <1>3, <2>2 DEF Started, TaskMoved, TaskKept, Exists
    <3> QED BY <3>1, <3>2 DEF RunKept
  <2> QED BY <1>5, <2>1, <2>2
<1> QED BY <1>7 DEF StepMoves

LEMMA EnqueueMoves ==
  ASSUME LoginInv, up, NEW i \in Attempts, Enqueue(i)
  PROVE  StepMoves
<1>1. RunsAgree(run, task)
  BY CalmTables
<1>2. CASE UNCHANGED <<task, run>>
  BY <1>2 DEF StepMoves, TaskMoved, RunKept
<1>3. ASSUME NEW t \in Tasks, task[t] = NoTask,
             Drain(Append(pending, NewEntry(t, i)), run, [task EXCEPT ![t] = NewTask(i)], NextAttempt(t, i))
      PROVE  StepMoves
  <2>1. NewTask(i) \in TaskRow
    BY LoginAssumption DEF NewTask, TaskRow, Active
  <2>2. run[t] = NoRun
    BY <1>1, <1>3 DEF RunsAgree
  <2> QED BY <1>3, <2>1, <2>2, JoinMoves
<1> QED BY <1>2, <1>3 DEF Enqueue, NewEntry

LEMMA RetryMovesTasks ==
  ASSUME LoginInv, up, losses = 0, losses' = 0, NEW r \in Retriers, RetryNext(r)
  PROVE  StepMoves
<1> DEFINE t == retry[r].task
           i == retry[r].attempt
<1>1. /\ task \in TaskTable /\ run \in RunTable /\ QueueAgrees(pending, run, task) /\ losses' # losses + 1
      /\ retry \in [Retriers -> RetryCall \cup {NoRetry}]
  BY CalmTables DEF LoginInv, TypeOK
<1>2. retry[r] # NoRetry
  BY DEF RetryNext, RetryPrepared, RetryFails, RetryReleased
<1>3. retry[r] \in RetryCall
  BY <1>1, <1>2
<1>4. t \in Tasks
  BY <1>3 DEF RetryCall
<1>5. ASSUME UNCHANGED <<task, run>> PROVE StepMoves
  BY <1>5 DEF StepMoves, TaskMoved, RunKept
<1>6. ASSUME Exists(t), CancelTask(t) PROVE StepMoves
  BY <1>4, <1>6, CancelMoves
<1>7. CASE RetryReleased(r)
  BY <1>5, <1>7 DEF RetryReleased
<1>8. CASE RetryPrepared(r)
  <2>1. \/ Exists(t) /\ CancelTask(t)
        \/ UNCHANGED <<task, run>>
        \/ /\ Exists(t) /\ task[t].attempt = i /\ task[t].status = "pending" /\ ~Busy(t)
           /\ Drain(Append(pending, [task |-> t, attempt |-> i]), run,
                    [task EXCEPT ![t] = [task[t] EXCEPT !.stage = "queued"]], attemptRow)
    BY <1>8 DEF RetryPrepared
  <2>2. CASE /\ Exists(t) /\ task[t].attempt = i /\ task[t].status = "pending" /\ ~Busy(t)
             /\ Drain(Append(pending, [task |-> t, attempt |-> i]), run,
                      [task EXCEPT ![t] = [task[t] EXCEPT !.stage = "queued"]], attemptRow)
    <3> DEFINE old == task[t]
               row == [old EXCEPT !.stage = "queued"]
    <3>1. old \in TaskRow /\ old.attempt = i
      BY <1>1, <1>4, <2>2 DEF Exists, TaskTable
    <3>2. i \in Attempts /\ run[t] = NoRun
      BY <2>2, <3>1 DEF TaskRow, Busy
    <3>3. Drain(Append(pending, NewEntry(t, i)), run, [task EXCEPT ![t] = row], attemptRow)
      BY <2>2 DEF NewEntry
    <3> HIDE DEF old
    <3>4. row \in TaskRow /\ row.attempt = old.attempt /\ row.status = old.status
      BY <3>1, TaskStage
    <3> HIDE DEF row, t, i
    <3> QED BY <1>4, <2>2, <3>2, <3>3, <3>4, JoinMoves DEF old
  <2> QED BY <1>5, <1>6, <2>1, <2>2
<1>9. CASE RetryFails(r)
  <2> DEFINE row == [retry[r] EXCEPT !.step = "release"]
  <2>1. retry[r].step = "refused"
    BY <1>1, <1>9 DEF RetryFails
  <2>2. \/ Exists(t) /\ CancelTask(t)
        \/ UNCHANGED <<task, run>>
        \/ /\ task' = FinishedTask(t, i, "failed") /\ reports' = reports \cup {i} /\ UNCHANGED run
           /\ retry' = [retry EXCEPT ![r] = row]
    BY <1>9 DEF RetryFails
  <2>3. row # NoRetry /\ row.step = "release"
    <3> DEFINE x == retry[r]
    <3> HIDE DEF x
    <3> SUFFICES ASSUME x \in RetryCall PROVE [x EXCEPT !.step = "release"] # NoRetry /\ [x EXCEPT !.step = "release"].step = "release"
      BY <1>3 DEF x
    <3>1. [x EXCEPT !.step = "release"] \in RetryCall /\ [x EXCEPT !.step = "release"].step = "release"
      BY RetryRow
    <3> QED BY <3>1, AbsenceAssumption
  <2>4. CASE /\ task' = FinishedTask(t, i, "failed") /\ reports' = reports \cup {i} /\ UNCHANGED run
             /\ retry' = [retry EXCEPT ![r] = row]
    <3>1. retry'[r] = row
      BY <1>1, <2>4
    <3>2. "failed" \in Finished
      BY DEF Finished
    <3>3. i = retry[r].attempt
      OBVIOUS
    <3> HIDE DEF row, t, i
    <3>4. \A u \in Tasks :
            \/ task'[u] = task[u]
            \/ /\ Exists(u) /\ task[u].attempt = i /\ task'[u] \notin {NoTask, GoneTask}
               /\ task'[u].status = "failed" /\ task'[u].attempt = i
      BY <1>1, <1>4, <2>4, <3>2, FinishedTasks
    <3>5. ASSUME NEW u \in Tasks PROVE TaskMoved(u) /\ RunKept(u)
      <4>1. RunKept(u)
        BY <2>4 DEF RunKept
      <4>2. CASE task'[u] # task[u]
        <5>1. i \in reports'
          BY <2>4
        <5>2. TaskKept(u)
          BY <1>2, <2>1, <2>3, <3>1, <3>3, <3>4, <4>2, <5>1 DEF TaskKept, Preparing
        <5> QED BY <4>1, <5>2 DEF TaskMoved
      <4> QED BY <4>1, <4>2 DEF TaskMoved
    <3> QED BY <3>5 DEF StepMoves
  <2> QED BY <1>5, <1>6, <2>2, <2>4
<1> QED BY <1>7, <1>8, <1>9 DEF RetryNext

LEMMA ReserveMoves ==
  ASSUME LoginInv, up, NEW r \in Retriers, NEW i \in Attempts, RetryReserves(r, i)
  PROVE  StepMoves
<1> DEFINE t == retry[r].task
           row == [account |-> task[t].account, status |-> "pending", attempt |-> i, stage |-> "preparing"]
<1>1. task \in TaskTable /\ retry \in [Retriers -> RetryCall \cup {NoRetry}] /\ retry[r] # NoRetry
  BY CalmTables DEF LoginInv, TypeOK, RetryReserves
<1>2. UNCHANGED run /\ (UNCHANGED task \/ (CanReserve(t, retry[r].previous) /\ task' = [task EXCEPT ![t] = row]))
  BY DEF RetryReserves
<1>3. CASE UNCHANGED task
  BY <1>2, <1>3 DEF StepMoves, TaskMoved, RunKept
<1>4. CASE CanReserve(t, retry[r].previous) /\ task' = [task EXCEPT ![t] = row]
  <2>1. Exists(t) /\ task[t].status = "failed"
    BY <1>4 DEF CanReserve
  <2>2. retry[r] \in RetryCall
    BY <1>1
  <2>3. t \in Tasks
    BY <2>2 DEF RetryCall
  <2>4. task[t] \in TaskRow
    BY <1>1, <2>1, <2>3 DEF TaskTable, Exists
  <2>5. row \in TaskRow
    BY <2>4 DEF TaskRow, Active
  <2>6. row # NoTask
    BY <2>5, RowsAreRecords
  <2> HIDE DEF row
  <2>7. \A u \in Tasks : (u # t => task'[u] = task[u]) /\ task'[t] = row
    BY <1>1, <1>4, <2>3 DEF TaskTable
  <2> QED BY <1>2, <2>1, <2>6, <2>7 DEF StepMoves, TaskMoved, RunKept
<1> QED BY <1>2, <1>3, <1>4

LEMMA CalmMoves ==
  ASSUME LoginInv, up, Calm, Calm', [Next]_vars
  PROVE  StepMoves
<1>1. losses = 0 /\ losses' = 0 /\ crashes' # crashes + 1
  BY DEF Calm
<1>2. ASSUME UNCHANGED <<task, run>> PROVE StepMoves
  BY <1>2 DEF StepMoves, TaskMoved, RunKept
<1>3. ASSUME NEW i \in Attempts,
             \/ Reauthorize(i) \/ Enqueue(i) \/ DropSubmission(i) \/ SubmissionAnswered(i)
             \/ SaveChecked(i) \/ SaveToken(i) \/ SubjectFails(i) \/ MarkFailed(i) \/ DropReport(i)
      PROVE  StepMoves
  <2>1. Enqueue(i) \/ UNCHANGED <<task, run>>
    BY <1>3 DEF Reauthorize, DropSubmission, SubmissionAnswered, SaveChecked, SaveToken, SubjectFails,
                MarkFailed, DropReport, loginVars
  <2> QED BY <1>2, <2>1, EnqueueMoves
<1>4. ASSUME NEW t \in Tasks,
             RunNext(t) \/ Cancel(t) \/ FinishCancellation(t) \/ ClaimDeletion(t) \/ EndDeletion(t)
      PROVE  StepMoves
  BY <1>1, <1>4, RunMovesTasks, CancelMoves, FinishMoves, DeletionMoves DEF Cancel
<1>5. ASSUME NEW r \in Retriers,
             \/ RetryNext(r) \/ \E t \in Tasks : RetryAsks(r, t)
             \/ \E i \in Attempts : RetryReserves(r, i)
      PROVE  StepMoves
  <2>1. CASE \E t \in Tasks : RetryAsks(r, t)
    BY <1>2, <2>1 DEF RetryAsks
  <2> QED BY <1>1, <1>5, <2>1, RetryMovesTasks, ReserveMoves
<1>6. ASSUME NEW p \in prepares, PrepareAttempt(p) PROVE StepMoves
  BY <1>2, <1>6 DEF PrepareAttempt
<1>7. ASSUME NEW a \in Accounts, Invalidate(a) PROVE StepMoves
  BY <1>2, <1>7 DEF Invalidate, loginVars
<1>8. CASE StopAccepting \/ Crash \/ Recover
  BY <1>1, <1>2, <1>8 DEF StopAccepting, Crash, Recover, loginVars
<1>9. CASE UNCHANGED vars
  BY <1>2, <1>9 DEF vars, loginVars
<1> QED BY <1>3, <1>4, <1>5, <1>6, <1>7, <1>8, <1>9 DEF Next

-----------------------------------------------------------------------------
(* Which actions move the calls and the account rows. *)

(* The submissions. *)
LEMMA SubmissionMovers ==
  ASSUME [Next]_vars
  PROVE  \/ UNCHANGED submission
         \/ \E i \in Attempts : Reauthorize(i) \/ Enqueue(i) \/ DropSubmission(i) \/ SubmissionAnswered(i)
<1>1. ASSUME NEW i \in Attempts,
             \/ SaveChecked(i) \/ SaveToken(i) \/ SubjectFails(i) \/ MarkFailed(i)
             \/ DropReport(i)
      PROVE  UNCHANGED submission
  BY <1>1 DEF SaveChecked, SaveToken, SubjectFails, MarkFailed, DropReport, loginVars, callVars, envVars
<1>2. ASSUME NEW t \in Tasks,
             \/ FlowSucceeds(t) \/ FlowFails(t) \/ SaveSucceeds(t) \/ SaveFails(t)
             \/ ReportEnds(t) \/ Cancel(t) \/ FinishCancellation(t) \/ ClaimDeletion(t)
             \/ EndDeletion(t)
      PROVE  UNCHANGED submission
  BY <1>2 DEF FlowSucceeds, FlowFails, SaveSucceeds, SaveFails, ReportEnds, Cancel, FinishCancellation,
              ClaimDeletion, EndDeletion, loginVars, callVars, envVars
<1>3. ASSUME NEW r \in Retriers,
             \/ RetryPrepared(r) \/ RetryFails(r) \/ RetryReleased(r) \/ (\E t \in Tasks : RetryAsks(r, t))
             \/ (\E i \in Attempts : RetryReserves(r, i))
      PROVE  UNCHANGED submission
  BY <1>3 DEF RetryPrepared, RetryFails, RetryReleased, RetryAsks, RetryReserves, loginVars, callVars, envVars
<1>4. ASSUME NEW p \in prepares, PrepareAttempt(p)
      PROVE  UNCHANGED submission
  BY <1>4 DEF PrepareAttempt, loginVars, callVars, envVars
<1>5. ASSUME NEW a \in Accounts, Invalidate(a)
      PROVE  UNCHANGED submission
  BY <1>5 DEF Invalidate, loginVars, callVars, envVars
<1>6. CASE StopAccepting \/ Crash \/ Recover \/ UNCHANGED vars
  BY <1>6 DEF StopAccepting, Crash, Recover, vars, loginVars, callVars, envVars
<1> QED BY <1>1, <1>2, <1>3, <1>4, <1>5, <1>6 DEF Next, RunNext, RetryNext

(* The reports. *)
LEMMA ReportMovers ==
  ASSUME [Next]_vars
  PROVE  \/ UNCHANGED reports
         \/ \E i \in Attempts : MarkFailed(i) \/ DropReport(i)
         \/ \E t \in Tasks : FlowFails(t) \/ SaveFails(t) \/ FinishCancellation(t)
         \/ \E r \in Retriers : RetryPrepared(r) \/ RetryFails(r)
         \/ Recover
<1>1. ASSUME NEW i \in Attempts,
             \/ Reauthorize(i) \/ Enqueue(i) \/ DropSubmission(i) \/ SubmissionAnswered(i)
             \/ SaveChecked(i) \/ SaveToken(i) \/ SubjectFails(i)
      PROVE  UNCHANGED reports
  BY <1>1 DEF Reauthorize, Enqueue, DropSubmission, SubmissionAnswered, SaveChecked, SaveToken,
              SubjectFails, loginVars, callVars, envVars
<1>2. ASSUME NEW t \in Tasks,
             \/ FlowSucceeds(t) \/ SaveSucceeds(t) \/ ReportEnds(t) \/ Cancel(t)
             \/ ClaimDeletion(t) \/ EndDeletion(t)
      PROVE  UNCHANGED reports
  BY <1>2 DEF FlowSucceeds, SaveSucceeds, ReportEnds, Cancel, ClaimDeletion, EndDeletion, loginVars,
              callVars, envVars
<1>3. ASSUME NEW r \in Retriers,
             \/ RetryReleased(r) \/ (\E t \in Tasks : RetryAsks(r, t)) \/ (\E i \in Attempts : RetryReserves(r, i))
      PROVE  UNCHANGED reports
  BY <1>3 DEF RetryReleased, RetryAsks, RetryReserves, loginVars, callVars, envVars
<1>4. ASSUME NEW p \in prepares, PrepareAttempt(p)
      PROVE  UNCHANGED reports
  BY <1>4 DEF PrepareAttempt, loginVars, callVars, envVars
<1>5. ASSUME NEW a \in Accounts, Invalidate(a)
      PROVE  UNCHANGED reports
  BY <1>5 DEF Invalidate, loginVars, callVars, envVars
<1>6. CASE StopAccepting \/ Crash \/ UNCHANGED vars
  BY <1>6 DEF StopAccepting, Crash, vars, loginVars, callVars, envVars
<1> QED BY <1>1, <1>2, <1>3, <1>4, <1>5, <1>6 DEF Next, RunNext, RetryNext

(* The save calls. *)
LEMMA SaveMovers ==
  ASSUME [Next]_vars
  PROVE  \/ UNCHANGED saveCall
         \/ \E i \in Attempts : SaveChecked(i) \/ SaveToken(i) \/ SubjectFails(i)
         \/ \E t \in Tasks : FlowSucceeds(t)
<1>1. ASSUME NEW i \in Attempts,
             \/ Reauthorize(i) \/ Enqueue(i) \/ DropSubmission(i) \/ SubmissionAnswered(i)
             \/ MarkFailed(i) \/ DropReport(i)
      PROVE  UNCHANGED saveCall
  BY <1>1 DEF Reauthorize, Enqueue, DropSubmission, SubmissionAnswered, MarkFailed, DropReport, loginVars,
              callVars, envVars
<1>2. ASSUME NEW t \in Tasks,
             \/ FlowFails(t) \/ SaveSucceeds(t) \/ SaveFails(t) \/ ReportEnds(t)
             \/ Cancel(t) \/ FinishCancellation(t) \/ ClaimDeletion(t) \/ EndDeletion(t)
      PROVE  UNCHANGED saveCall
  BY <1>2 DEF FlowFails, SaveSucceeds, SaveFails, ReportEnds, Cancel, FinishCancellation, ClaimDeletion,
              EndDeletion, loginVars, callVars, envVars
<1>3. ASSUME NEW r \in Retriers,
             \/ RetryPrepared(r) \/ RetryFails(r) \/ RetryReleased(r) \/ (\E t \in Tasks : RetryAsks(r, t))
             \/ (\E i \in Attempts : RetryReserves(r, i))
      PROVE  UNCHANGED saveCall
  BY <1>3 DEF RetryPrepared, RetryFails, RetryReleased, RetryAsks, RetryReserves, loginVars, callVars, envVars
<1>4. ASSUME NEW p \in prepares, PrepareAttempt(p)
      PROVE  UNCHANGED saveCall
  BY <1>4 DEF PrepareAttempt, loginVars, callVars, envVars
<1>5. ASSUME NEW a \in Accounts, Invalidate(a)
      PROVE  UNCHANGED saveCall
  BY <1>5 DEF Invalidate, loginVars, callVars, envVars
<1>6. CASE StopAccepting \/ Crash \/ Recover \/ UNCHANGED vars
  BY <1>6 DEF StopAccepting, Crash, Recover, vars, loginVars, callVars, envVars
<1> QED BY <1>1, <1>2, <1>3, <1>4, <1>5, <1>6 DEF Next, RunNext, RetryNext

(* The prepare calls. *)
LEMMA PrepareMovers ==
  ASSUME [Next]_vars
  PROVE  \/ UNCHANGED prepares
         \/ \E r \in Retriers : (\E i \in Attempts : RetryReserves(r, i))
         \/ \E p \in prepares : PrepareAttempt(p)
<1>1. ASSUME NEW i \in Attempts,
             \/ Reauthorize(i) \/ Enqueue(i) \/ DropSubmission(i) \/ SubmissionAnswered(i)
             \/ SaveChecked(i) \/ SaveToken(i) \/ SubjectFails(i) \/ MarkFailed(i)
             \/ DropReport(i)
      PROVE  UNCHANGED prepares
  BY <1>1 DEF Reauthorize, Enqueue, DropSubmission, SubmissionAnswered, SaveChecked, SaveToken,
              SubjectFails, MarkFailed, DropReport, loginVars, callVars, envVars
<1>2. ASSUME NEW t \in Tasks,
             \/ FlowSucceeds(t) \/ FlowFails(t) \/ SaveSucceeds(t) \/ SaveFails(t)
             \/ ReportEnds(t) \/ Cancel(t) \/ FinishCancellation(t) \/ ClaimDeletion(t)
             \/ EndDeletion(t)
      PROVE  UNCHANGED prepares
  BY <1>2 DEF FlowSucceeds, FlowFails, SaveSucceeds, SaveFails, ReportEnds, Cancel, FinishCancellation,
              ClaimDeletion, EndDeletion, loginVars, callVars, envVars
<1>3. ASSUME NEW r \in Retriers,
             \/ RetryPrepared(r) \/ RetryFails(r) \/ RetryReleased(r) \/ (\E t \in Tasks : RetryAsks(r, t))
      PROVE  UNCHANGED prepares
  BY <1>3 DEF RetryPrepared, RetryFails, RetryReleased, RetryAsks, loginVars, callVars, envVars
<1>4. ASSUME NEW a \in Accounts, Invalidate(a)
      PROVE  UNCHANGED prepares
  BY <1>4 DEF Invalidate, loginVars, callVars, envVars
<1>5. CASE StopAccepting \/ Crash \/ Recover \/ UNCHANGED vars
  BY <1>5 DEF StopAccepting, Crash, Recover, vars, loginVars, callVars, envVars
<1> QED BY <1>1, <1>2, <1>3, <1>4, <1>5 DEF Next, RunNext, RetryNext

(* The retries. *)
LEMMA RetryMovers ==
  ASSUME [Next]_vars
  PROVE  \/ UNCHANGED retry
         \/ \E r \in Retriers :
             \/ RetryPrepared(r) \/ RetryFails(r) \/ RetryReleased(r)
             \/ (\E t \in Tasks : RetryAsks(r, t)) \/ (\E i \in Attempts : RetryReserves(r, i))
         \/ \E p \in prepares : PrepareAttempt(p)
         \/ Crash
<1>1. ASSUME NEW i \in Attempts,
             \/ Reauthorize(i) \/ Enqueue(i) \/ DropSubmission(i) \/ SubmissionAnswered(i)
             \/ SaveChecked(i) \/ SaveToken(i) \/ SubjectFails(i) \/ MarkFailed(i)
             \/ DropReport(i)
      PROVE  UNCHANGED retry
  BY <1>1 DEF Reauthorize, Enqueue, DropSubmission, SubmissionAnswered, SaveChecked, SaveToken,
              SubjectFails, MarkFailed, DropReport, loginVars, callVars, envVars
<1>2. ASSUME NEW t \in Tasks,
             \/ FlowSucceeds(t) \/ FlowFails(t) \/ SaveSucceeds(t) \/ SaveFails(t)
             \/ ReportEnds(t) \/ Cancel(t) \/ FinishCancellation(t) \/ ClaimDeletion(t)
             \/ EndDeletion(t)
      PROVE  UNCHANGED retry
  BY <1>2 DEF FlowSucceeds, FlowFails, SaveSucceeds, SaveFails, ReportEnds, Cancel, FinishCancellation,
              ClaimDeletion, EndDeletion, loginVars, callVars, envVars
<1>3. ASSUME NEW a \in Accounts, Invalidate(a)
      PROVE  UNCHANGED retry
  BY <1>3 DEF Invalidate, loginVars, callVars, envVars
<1>4. CASE StopAccepting \/ Recover \/ UNCHANGED vars
  BY <1>4 DEF StopAccepting, Recover, vars, loginVars, callVars, envVars
<1> QED BY <1>1, <1>2, <1>3, <1>4 DEF Next, RunNext, RetryNext

(* The account rows. *)
LEMMA AccountMovers ==
  ASSUME [Next]_vars
  PROVE  \/ UNCHANGED oauth
         \/ \E i \in Attempts :
             \/ Reauthorize(i) \/ SubmissionAnswered(i) \/ SaveToken(i)
             \/ SubjectFails(i) \/ MarkFailed(i)
         \/ \E p \in prepares : PrepareAttempt(p)
         \/ \E a \in Accounts : Invalidate(a)
<1>1. ASSUME NEW i \in Attempts, Enqueue(i) \/ DropSubmission(i) \/ SaveChecked(i) \/ DropReport(i)
      PROVE  UNCHANGED oauth
  BY <1>1 DEF Enqueue, DropSubmission, SaveChecked, DropReport, loginVars, callVars, envVars
<1>2. ASSUME NEW t \in Tasks,
             \/ FlowSucceeds(t) \/ FlowFails(t) \/ SaveSucceeds(t) \/ SaveFails(t)
             \/ ReportEnds(t) \/ Cancel(t) \/ FinishCancellation(t) \/ ClaimDeletion(t)
             \/ EndDeletion(t)
      PROVE  UNCHANGED oauth
  BY <1>2 DEF FlowSucceeds, FlowFails, SaveSucceeds, SaveFails, ReportEnds, Cancel, FinishCancellation,
              ClaimDeletion, EndDeletion, loginVars, callVars, envVars
<1>3. ASSUME NEW r \in Retriers,
             \/ RetryPrepared(r) \/ RetryFails(r) \/ RetryReleased(r) \/ (\E t \in Tasks : RetryAsks(r, t))
             \/ (\E i \in Attempts : RetryReserves(r, i))
      PROVE  UNCHANGED oauth
  BY <1>3 DEF RetryPrepared, RetryFails, RetryReleased, RetryAsks, RetryReserves, loginVars, callVars, envVars
<1>4. CASE StopAccepting \/ Crash \/ Recover \/ UNCHANGED vars
  BY <1>4 DEF StopAccepting, Crash, Recover, vars, loginVars, callVars, envVars
<1> QED BY <1>1, <1>2, <1>3, <1>4 DEF Next, RunNext, RetryNext

(* The crashes. *)
LEMMA CrashMovers ==
  ASSUME [Next]_vars
  PROVE  \/ UNCHANGED <<crashes, up>>
         \/ Crash \/ Recover
<1>1. ASSUME NEW i \in Attempts,
             \/ Reauthorize(i) \/ Enqueue(i) \/ DropSubmission(i) \/ SubmissionAnswered(i)
             \/ SaveChecked(i) \/ SaveToken(i) \/ SubjectFails(i) \/ MarkFailed(i)
             \/ DropReport(i)
      PROVE  UNCHANGED <<crashes, up>>
  BY <1>1 DEF Reauthorize, Enqueue, DropSubmission, SubmissionAnswered, SaveChecked, SaveToken,
              SubjectFails, MarkFailed, DropReport, loginVars, callVars, envVars
<1>2. ASSUME NEW t \in Tasks,
             \/ FlowSucceeds(t) \/ FlowFails(t) \/ SaveSucceeds(t) \/ SaveFails(t)
             \/ ReportEnds(t) \/ Cancel(t) \/ FinishCancellation(t) \/ ClaimDeletion(t)
             \/ EndDeletion(t)
      PROVE  UNCHANGED <<crashes, up>>
  BY <1>2 DEF FlowSucceeds, FlowFails, SaveSucceeds, SaveFails, ReportEnds, Cancel, FinishCancellation,
              ClaimDeletion, EndDeletion, loginVars, callVars, envVars
<1>3. ASSUME NEW r \in Retriers,
             \/ RetryPrepared(r) \/ RetryFails(r) \/ RetryReleased(r) \/ (\E t \in Tasks : RetryAsks(r, t))
             \/ (\E i \in Attempts : RetryReserves(r, i))
      PROVE  UNCHANGED <<crashes, up>>
  BY <1>3 DEF RetryPrepared, RetryFails, RetryReleased, RetryAsks, RetryReserves, loginVars, callVars, envVars
<1>4. ASSUME NEW p \in prepares, PrepareAttempt(p)
      PROVE  UNCHANGED <<crashes, up>>
  BY <1>4 DEF PrepareAttempt, loginVars, callVars, envVars
<1>5. ASSUME NEW a \in Accounts, Invalidate(a)
      PROVE  UNCHANGED <<crashes, up>>
  BY <1>5 DEF Invalidate, loginVars, callVars, envVars
<1>6. CASE StopAccepting \/ UNCHANGED vars
  BY <1>6 DEF StopAccepting, vars, loginVars, callVars, envVars
<1> QED BY <1>1, <1>2, <1>3, <1>4, <1>5, <1>6 DEF Next, RunNext, RetryNext

(* The losses. *)
LEMMA LossMovers ==
  ASSUME [Next]_vars
  PROVE  \/ UNCHANGED losses
         \/ \E i \in Attempts : DropSubmission(i) \/ SubmissionAnswered(i) \/ DropReport(i)
         \/ \E t \in Tasks : SaveFails(t)
         \/ \E r \in Retriers : RetryFails(r)
<1>1. ASSUME NEW i \in Attempts,
             \/ Reauthorize(i) \/ Enqueue(i) \/ SaveChecked(i) \/ SaveToken(i)
             \/ SubjectFails(i) \/ MarkFailed(i)
      PROVE  UNCHANGED losses
  BY <1>1 DEF Reauthorize, Enqueue, SaveChecked, SaveToken, SubjectFails, MarkFailed, loginVars, callVars,
              envVars
<1>2. ASSUME NEW t \in Tasks,
             \/ FlowSucceeds(t) \/ FlowFails(t) \/ SaveSucceeds(t) \/ ReportEnds(t)
             \/ Cancel(t) \/ FinishCancellation(t) \/ ClaimDeletion(t) \/ EndDeletion(t)
      PROVE  UNCHANGED losses
  BY <1>2 DEF FlowSucceeds, FlowFails, SaveSucceeds, ReportEnds, Cancel, FinishCancellation, ClaimDeletion,
              EndDeletion, loginVars, callVars, envVars
<1>3. ASSUME NEW r \in Retriers,
             \/ RetryPrepared(r) \/ RetryReleased(r) \/ (\E t \in Tasks : RetryAsks(r, t)) \/ (\E i \in Attempts : RetryReserves(r, i))
      PROVE  UNCHANGED losses
  BY <1>3 DEF RetryPrepared, RetryReleased, RetryAsks, RetryReserves, loginVars, callVars, envVars
<1>4. ASSUME NEW p \in prepares, PrepareAttempt(p)
      PROVE  UNCHANGED losses
  BY <1>4 DEF PrepareAttempt, loginVars, callVars, envVars
<1>5. ASSUME NEW a \in Accounts, Invalidate(a)
      PROVE  UNCHANGED losses
  BY <1>5 DEF Invalidate, loginVars, callVars, envVars
<1>6. CASE StopAccepting \/ Crash \/ Recover \/ UNCHANGED vars
  BY <1>6 DEF StopAccepting, Crash, Recover, vars, loginVars, callVars, envVars
<1> QED BY <1>1, <1>2, <1>3, <1>4, <1>5, <1>6 DEF Next, RunNext, RetryNext

(* Nothing was lost before a step after which nothing is. *)
LEMMA CalmBefore ==
  ASSUME TypeOK, [Next]_vars, Calm'
  PROVE  Calm
<1>1. crashes \in Nat /\ losses \in Nat
  BY DEF TypeOK
<1>2. crashes' = crashes \/ crashes' = crashes + 1
  BY CrashMovers DEF Crash, Recover
<1>3. losses' = losses \/ losses' = losses + 1
  BY LossMovers DEF DropSubmission, SubmissionAnswered, DropReport, SaveFails, RetryFails
<1> QED BY <1>1, <1>2, <1>3 DEF Calm

(* What a step makes of an account row. *)
BeginsAt(i, a) ==
  /\ AccountOf[i] = a /\ oauth'[a].status = "refreshing" /\ oauth'[a].attempt = i
  /\ \/ Reauthorize(i)
     \/ \E p \in prepares : PrepareAttempt(p) /\ p.attempt = i /\ retry' = Answered(i, "prepared")

AccountMoved(a) ==
  \/ oauth'[a] = oauth[a]
  \/ oauth'[a].status = "failed" /\ oauth'[a].attempt = oauth[a].attempt
  \/ oauth'[a].status \in {"valid", "expired"} /\ oauth'[a].attempt = NoAttempt
  \/ \E i \in Attempts : BeginsAt(i, a)

(* An attempt that fails is not the current one. *)
LEMMA FailEnds ==
  ASSUME oauth \in OauthTable, NEW i \in Attempts, Fail(i)
  PROVE  /\ ~(oauth'[AccountOf[i]].attempt = i /\ oauth'[AccountOf[i]].status = "refreshing")
         /\ \A a \in Accounts : \/ oauth'[a] = oauth[a]
                              \/ (oauth'[a].status = "failed" /\ oauth'[a].attempt = oauth[a].attempt)
<1> DEFINE b == AccountOf[i]
           old == oauth[b]
           row == [old EXCEPT !.status = "failed"]
<1>1. b \in Accounts
  BY LoginAssumption
<1>2. old \in OauthRow
  BY <1>1 DEF OauthTable
<1>3. row.status = "failed" /\ row.attempt = old.attempt
  <2> HIDE DEF old
  <2> QED BY <1>2 DEF OauthRow
<1>4. CASE old.attempt # i
  BY <1>4 DEF Fail
<1>5. CASE old.attempt = i
  <2>1. oauth' = [oauth EXCEPT ![b] = row]
    BY <1>5 DEF Fail
  <2> HIDE DEF row
  <2>2. \A a \in Accounts : oauth'[a] = IF a = b THEN row ELSE oauth[a]
    BY <2>1 DEF OauthTable
  <2> QED BY <1>1, <1>3, <2>2
<1> QED BY <1>4, <1>5

LEMMA AccountMoves ==
  ASSUME TypeOK, [Next]_vars, NEW a \in Accounts
  PROVE  AccountMoved(a)
<1>1. oauth \in OauthTable /\ prepares \subseteq Prepare /\ AccountOf \in [Attempts -> Accounts]
  BY LoginAssumption DEF TypeOK, OauthTable
<1>2. CASE UNCHANGED oauth
  BY <1>2 DEF AccountMoved
<1>3. ASSUME NEW i \in Attempts, Fail(i) PROVE AccountMoved(a)
  BY <1>1, <1>3, FailEnds DEF AccountMoved
<1>4. ASSUME NEW i \in Attempts, oauth' = Begun(i)
      PROVE  oauth'[a] = oauth[a] \/ (AccountOf[i] = a /\ oauth'[a].status = "refreshing" /\ oauth'[a].attempt = i)
  BY <1>1, <1>4 DEF Begun, OauthTable
<1>5. ASSUME NEW i \in Attempts, Reauthorize(i) PROVE AccountMoved(a)
  <2>1. oauth' = Begun(i)
    BY <1>5 DEF Reauthorize
  <2> QED BY <1>4, <1>5, <2>1 DEF AccountMoved, BeginsAt
<1>6. ASSUME NEW i \in Attempts, SubmissionAnswered(i) \/ SubjectFails(i) \/ MarkFailed(i) PROVE AccountMoved(a)
  <2>1. UNCHANGED oauth \/ Fail(i)
    BY <1>6 DEF SubmissionAnswered, SubjectFails, MarkFailed
  <2> QED BY <1>2, <1>3, <2>1
<1>7. ASSUME NEW i \in Attempts, SaveToken(i) PROVE AccountMoved(a)
  <2>1. UNCHANGED oauth \/ oauth' = [oauth EXCEPT ![AccountOf[i]] = [status |-> "valid", attempt |-> NoAttempt, token |-> i]]
    BY <1>7 DEF SaveToken
  <2> QED BY <1>1, <1>2, <2>1 DEF AccountMoved, OauthTable
<1>8. ASSUME NEW p \in prepares, PrepareAttempt(p) PROVE AccountMoved(a)
  <2>1. p.attempt \in Attempts
    BY <1>1 DEF Prepare
  <2>2. UNCHANGED oauth \/ (oauth' = Begun(p.attempt) /\ retry' = Answered(p.attempt, "prepared"))
    BY <1>8 DEF PrepareAttempt
  <2> QED BY <1>2, <1>4, <1>8, <2>1, <2>2 DEF AccountMoved, BeginsAt
<1>9. ASSUME NEW b \in Accounts, Invalidate(b) PROVE AccountMoved(a)
  BY <1>1, <1>9 DEF AccountMoved, Invalidate, OauthTable
<1> QED BY <1>2, <1>5, <1>6, <1>7, <1>8, <1>9, AccountMovers

LEMMA AccountsWaitStep ==
  ASSUME TypeOK, AccountsWait, [Next]_vars
  PROVE  AccountsWait'
<1> SUFFICES ASSUME NEW a \in Accounts, oauth'[a].status = "refreshing"
             PROVE  oauth'[a].attempt \in Attempts /\ AccountOf[oauth'[a].attempt] = a
  BY DEF AccountsWait
<1>1. AccountMoved(a)
  BY AccountMoves
<1> QED BY <1>1 DEF AccountMoved, AccountsWait, BeginsAt

-----------------------------------------------------------------------------
(* What a step makes of a retry while nothing is lost. *)

Reserved(r, i) ==
  /\ retry[r].task \in Tasks /\ Unused(i) /\ UNCHANGED oauth
  /\ retry'[r].step = "prepare" /\ retry'[r].attempt = i /\ retry'[r].task = retry[r].task
  /\ task'[retry[r].task] \notin {NoTask, GoneTask}
  /\ task'[retry[r].task].attempt = i /\ task'[retry[r].task].status = "pending"

Answering(r, p) ==
  /\ PrepareAttempt(p) /\ p.attempt = retry[r].attempt /\ p \notin prepares'
  /\ retry[r].step = "prepare"
  /\ retry'[r] # NoRetry /\ retry'[r].attempt = retry[r].attempt /\ retry'[r].task = retry[r].task
  /\ retry'[r].step = "prepared" \/ (retry'[r].step = "refused" /\ UNCHANGED oauth)

RetryMoved(r) ==
  \/ retry'[r] = retry[r]
  \/ retry[r] = NoRetry /\ retry'[r].step = "asked"
  \/ retry[r] # NoRetry /\ retry[r].step = "asked" /\ retry'[r] = NoRetry
  \/ /\ retry[r] # NoRetry /\ retry[r].step = "asked"
     /\ \E i \in Attempts : RetryReserves(r, i) /\ Reserved(r, i)
  \/ /\ retry[r] # NoRetry /\ retry[r].step \in {"refused", "release"}
     /\ retry'[r] = NoRetry \/ retry'[r].step = "release"
  \/ RetryPrepared(r) /\ (retry'[r] = NoRetry \/ retry'[r].step = "release")
  \/ retry[r] # NoRetry /\ \E p \in prepares : Answering(r, p)

(* The answer to a retry. *)
LEMMA AnsweredRetry ==
  ASSUME retry \in [Retriers -> RetryCall \cup {NoRetry}], NEW i, NEW s \in {"prepared", "refused"},
         NEW r \in Retriers, Answered(i, s)[r] # retry[r]
  PROVE  /\ retry[r] # NoRetry /\ retry[r].attempt = i /\ retry[r].step = "prepare"
         /\ Answered(i, s)[r] # NoRetry /\ Answered(i, s)[r].step = s
         /\ Answered(i, s)[r].attempt = retry[r].attempt /\ Answered(i, s)[r].task = retry[r].task
<1> DEFINE row == retry[r]
<1>1. row # NoRetry /\ row.attempt = i /\ row.step = "prepare" /\ Answered(i, s)[r] = [row EXCEPT !.step = s]
  BY DEF Answered
<1>2. row \in RetryCall
  BY <1>1
<1> HIDE DEF row
<1>5. s \in {"asked", "prepare", "prepared", "refused", "release"}
  OBVIOUS
<1>3. [row EXCEPT !.step = s] \in RetryCall /\ [row EXCEPT !.step = s].step = s
      /\ [row EXCEPT !.step = s].attempt = row.attempt /\ [row EXCEPT !.step = s].task = row.task
  BY <1>2, <1>5, RetryRow
<1>4. [row EXCEPT !.step = s] # NoRetry
  BY <1>3, AbsenceAssumption
<1> QED BY <1>1, <1>3, <1>4 DEF row

LEMMA RetryMovedAlways ==
  ASSUME TypeOK, Calm, Calm', [Next]_vars, NEW r \in Retriers
  PROVE  RetryMoved(r)
<1>1. /\ retry \in [Retriers -> RetryCall \cup {NoRetry}] /\ task \in TaskTable /\ prepares \subseteq Prepare
      /\ losses' # losses + 1 /\ crashes' # crashes + 1
  BY DEF TypeOK, Calm, TaskTable
<1>2. CASE retry'[r] = retry[r]
  BY <1>2 DEF RetryMoved
<1>3. CASE UNCHANGED retry
  BY <1>2, <1>3
<1>4. ASSUME NEW x \in Retriers, RetryNext(x) PROVE RetryMoved(r)
  <2> DEFINE y == retry[x]
             row == [y EXCEPT !.step = "release"]
  <2>1. y # NoRetry
    BY <1>4 DEF RetryNext, RetryPrepared, RetryFails, RetryReleased
  <2>2. y \in RetryCall
    BY <1>1, <2>1
  <2>3. /\ retry' = [retry EXCEPT ![x] = NoRetry] \/ retry' = [retry EXCEPT ![x] = row]
        /\ RetryPrepared(x) \/ y.step \in {"refused", "release"}
    BY <1>1, <1>4 DEF RetryNext, RetryPrepared, RetryFails, RetryReleased
  <2> HIDE DEF y
  <2>4. row.step = "release"
    BY <2>2, RetryRow
  <2> HIDE DEF row
  <2>5. retry'[r] = IF r = x THEN retry'[x] ELSE retry[r]
    BY <1>1, <2>3
  <2>6. retry'[x] = NoRetry \/ retry'[x] = row
    BY <1>1, <2>3
  <2> QED BY <1>2, <2>1, <2>3, <2>4, <2>5, <2>6 DEF RetryMoved, y
<1>5. ASSUME NEW x \in Retriers, NEW t \in Tasks, RetryAsks(x, t) PROVE RetryMoved(r)
  BY <1>1, <1>5 DEF RetryAsks, RetryMoved
<1>6. ASSUME NEW x \in Retriers, NEW i \in Attempts, RetryReserves(x, i) PROVE RetryMoved(r)
  <2> DEFINE t == retry[x].task
             row == [account |-> task[t].account, status |-> "pending", attempt |-> i, stage |-> "preparing"]
             new == [task |-> t, previous |-> retry[x].previous, attempt |-> i, step |-> "prepare"]
  <2>1. retry[x] # NoRetry /\ retry[x].step = "asked" /\ UNCHANGED oauth
    BY <1>6 DEF RetryReserves
  <2>2. retry[x] \in RetryCall
    BY <1>1, <2>1
  <2>3. t \in Tasks
    BY <2>2 DEF RetryCall
  <2>4. \/ retry' = [retry EXCEPT ![x] = NoRetry]
        \/ /\ CanReserve(t, retry[x].previous) /\ Unused(i)
           /\ retry' = [retry EXCEPT ![x] = new] /\ task' = [task EXCEPT ![t] = row]
    BY <1>6 DEF RetryReserves
  <2>5. CASE retry' = [retry EXCEPT ![x] = NoRetry]
    BY <1>1, <2>1, <2>5 DEF RetryMoved
  <2>6. CASE /\ CanReserve(t, retry[x].previous) /\ Unused(i)
             /\ retry' = [retry EXCEPT ![x] = new] /\ task' = [task EXCEPT ![t] = row]
    <3>1. task[t] \in TaskRow
      BY <1>1, <2>3, <2>6 DEF CanReserve, Exists, TaskTable
    <3>2. row \in TaskRow /\ row.attempt = i /\ row.status = "pending"
      BY <3>1 DEF TaskRow, Active
    <3>3. new.step = "prepare" /\ new.attempt = i /\ new.task = t
      OBVIOUS
    <3> HIDE DEF row, new
    <3>4. row \notin {NoTask, GoneTask}
      BY <3>2, RowsAreRecords
    <3>5. task'[t] = row /\ retry'[x] = new /\ (r # x => retry'[r] = retry[r])
      BY <1>1, <2>3, <2>6 DEF TaskTable
    <3>6. Reserved(x, i)
      BY <2>1, <2>3, <2>6, <3>2, <3>3, <3>4, <3>5 DEF Reserved
    <3> QED BY <1>2, <1>6, <2>1, <3>5, <3>6 DEF RetryMoved
  <2> QED BY <2>4, <2>5, <2>6
<1>7. ASSUME NEW p \in prepares, PrepareAttempt(p) PROVE RetryMoved(r)
  <2> DEFINE i == p.attempt
  <2>1. \/ UNCHANGED retry
        \/ retry' = Answered(i, "prepared") /\ prepares' = prepares \ {p}
        \/ retry' = Answered(i, "refused") /\ prepares' = prepares \ {p} /\ UNCHANGED oauth
    BY <1>7 DEF PrepareAttempt
  <2>2. i = p.attempt
    OBVIOUS
  <2> HIDE DEF i
  <2>3. CASE retry' = Answered(i, "prepared") /\ prepares' = prepares \ {p}
    <3>1. CASE retry'[r] # retry[r]
      <4>1. /\ retry[r] # NoRetry /\ retry[r].attempt = i /\ retry[r].step = "prepare"
            /\ retry'[r] # NoRetry /\ retry'[r].step = "prepared"
            /\ retry'[r].attempt = retry[r].attempt /\ retry'[r].task = retry[r].task
        BY <1>1, <2>3, <3>1, AnsweredRetry
      <4> QED BY <1>7, <2>2, <2>3, <4>1 DEF RetryMoved, Answering
    <3> QED BY <1>2, <3>1
  <2>4. CASE retry' = Answered(i, "refused") /\ prepares' = prepares \ {p} /\ UNCHANGED oauth
    <3>1. CASE retry'[r] # retry[r]
      <4>1. /\ retry[r] # NoRetry /\ retry[r].attempt = i /\ retry[r].step = "prepare"
            /\ retry'[r] # NoRetry /\ retry'[r].step = "refused"
            /\ retry'[r].attempt = retry[r].attempt /\ retry'[r].task = retry[r].task
        BY <1>1, <2>4, <3>1, AnsweredRetry
      <4> QED BY <1>7, <2>2, <2>4, <4>1 DEF RetryMoved, Answering
    <3> QED BY <1>2, <3>1
  <2> QED BY <1>3, <2>1, <2>3, <2>4
<1>8. CASE Crash
  BY <1>1, <1>8 DEF Crash
<1> QED BY <1>3, <1>4, <1>5, <1>6, <1>7, <1>8, RetryMovers DEF RetryNext

(* Everything that is known before a step, and after it of the types. *)
CalmStep ==
  /\ LoginInv /\ LoginInv' /\ FenceInv /\ AccountsWait /\ AttendInv
  /\ Calm /\ Calm' /\ [Next]_vars

LEMMA CalmFacts ==
  ASSUME CalmStep
  PROVE  /\ TypeOK /\ up /\ up' /\ losses' # losses + 1
         /\ SubmissionsAnswered /\ SavesRun /\ PreparesAwaited /\ RetriesOwn
         /\ \A i \in Attempts : Current(i) => CaredFor(i)
         /\ StepMoves /\ \A r \in Retriers : RetryMoved(r)
         /\ RetriesAgree(retry, pending, run) /\ RetriesAgree(retry', pending', run')
         /\ RunsAgree(run, task) /\ RowsAgree(task, attemptRow)
<1>1. TypeOK /\ LoginInv /\ LoginInv' /\ up
  BY DEF CalmStep, LoginInv, AttendInv
<1>2. up'
  <2>1. crashes' # crashes + 1
    BY DEF CalmStep, Calm
  <2> QED BY <1>1, <2>1, CrashMovers DEF CalmStep, Crash, Recover
<1>3. StepMoves /\ \A r \in Retriers : RetryMoved(r)
  BY <1>1, CalmMoves, RetryMovedAlways DEF CalmStep
<1>4. RetriesAgree(retry, pending, run) /\ RunsAgree(run, task) /\ RowsAgree(task, attemptRow)
  BY <1>1, CalmTables
<1>5. RetriesAgree(retry', pending', run')
  BY <1>1, <1>2 DEF LoginInv, StateAgrees, TablesAgree
<1>6. losses' # losses + 1
  BY DEF CalmStep, Calm
<1> QED BY <1>1, <1>2, <1>3, <1>4, <1>5, <1>6 DEF CalmStep, AttendInv

(* Submissions. *)
LEMMA SubmissionsStep ==
  ASSUME CalmStep
  PROVE  SubmissionsAnswered'
<1>1. /\ submission \in [Attempts -> Submission \cup {NoSubmission}] /\ SubmissionsAnswered /\ losses' # losses + 1
  BY CalmFacts DEF TypeOK
<1> SUFFICES ASSUME NEW i \in Attempts, submission'[i] # NoSubmission
             PROVE  /\ submission'[i].net # "dead" /\ submission'[i].client # "lookup"
                    /\ submission'[i].net = "sent" => submission'[i].client = "waiting"
                    /\ submission'[i].client = "rollback" => submission'[i].net = "rejected"
  BY DEF SubmissionsAnswered
<1>2. CASE submission'[i] = submission[i]
  BY <1>1, <1>2 DEF SubmissionsAnswered
<1>3. ASSUME NEW j \in Attempts, Reauthorize(j) \/ DropSubmission(j)
      PROVE  submission' = [submission EXCEPT ![j] = [net |-> "sent", client |-> "waiting"]]
  BY <1>1, <1>3 DEF Reauthorize, DropSubmission
<1>4. ASSUME NEW j \in Attempts, Enqueue(j) \/ SubmissionAnswered(j)
      PROVE  \E x \in Submission :
               /\ submission' = [submission EXCEPT ![j] = x]
               /\ x.net # "dead" /\ x.client # "lookup" /\ (x.net = "sent" => x.client = "waiting")
               /\ x.client = "rollback" => x.net = "rejected"
  <2> DEFINE s == submission[j]
  <2>1. s # NoSubmission
    BY <1>4 DEF Enqueue, SubmissionAnswered
  <2>2. /\ s \in Submission /\ s.net # "dead" /\ s.client # "lookup"
        /\ s.net = "sent" => s.client = "waiting"
        /\ s.client = "rollback" => s.net = "rejected"
    BY <1>1, <2>1 DEF SubmissionsAnswered
  <2>3. \/ s.net = "sent" /\ submission' = [submission EXCEPT ![j] = [s EXCEPT !.net = "accepted"]]
        \/ s.net = "sent" /\ submission' = [submission EXCEPT ![j] = [s EXCEPT !.net = "rejected"]]
        \/ s.net = "accepted" /\ submission' = [submission EXCEPT ![j] = [s EXCEPT !.client = "done"]]
        \/ s.net = "rejected" /\ submission' = [submission EXCEPT ![j] = [s EXCEPT !.client = "rollback"]]
        \/ s.net = "rejected" /\ submission' = [submission EXCEPT ![j] = [s EXCEPT !.client = "done"]]
    BY <1>1, <1>4, <2>2 DEF Enqueue, SubmissionAnswered
  <2> HIDE DEF s
  <2> QED BY <2>2, <2>3 DEF Submission
<1>5. ASSUME NEW j \in Attempts, NEW x, submission' = [submission EXCEPT ![j] = x]
      PROVE  submission'[i] = submission[i] \/ submission'[i] = x
  BY <1>1, <1>5
<1>6. CASE \E j \in Attempts : Reauthorize(j) \/ DropSubmission(j)
  BY <1>2, <1>3, <1>5, <1>6
<1>7. CASE \E j \in Attempts : Enqueue(j) \/ SubmissionAnswered(j)
  BY <1>2, <1>4, <1>5, <1>7
<1> QED BY <1>2, <1>6, <1>7, SubmissionMovers DEF CalmStep

(* Save calls. *)
LEMMA SavesStep ==
  ASSUME CalmStep
  PROVE  SavesRun'
<1>1. /\ TypeOK /\ SavesRun /\ PreparesAwaited /\ StepMoves
      /\ saveCall \in [Attempts -> {"none", "sent", "verifying", "saved", "refused"}] /\ oauth \in OauthTable
      /\ run \in RunTable /\ prepares \subseteq Prepare /\ AccountOf \in [Attempts -> Accounts]
  BY CalmFacts, LoginAssumption DEF TypeOK, OauthTable, RunTable
<1>2. ASSUME NEW i \in Attempts, saveCall'[i] = "saved"
      PROVE  oauth'[AccountOf[i]].attempt # i
  <2> DEFINE a == AccountOf[i]
  <2>1. AccountMoved(a) /\ a \in Accounts
    BY <1>1, AccountMoves DEF CalmStep
  <2>2. CASE saveCall[i] = "saved"
    <3>1. oauth[a].attempt # i
      BY <1>1, <2>2 DEF SavesRun
    <3>2. ~Reauthorize(i)
      BY <2>2 DEF Reauthorize, Unused
    <3>3. \A p \in prepares : p.attempt # i
      BY <1>1, <2>2 DEF PreparesAwaited
    <3> QED BY <2>1, <3>1, <3>2, <3>3, LoginAssumption DEF AccountMoved, BeginsAt
  <2>3. CASE saveCall[i] # "saved"
    <3>1. PICK j \in Attempts : SaveChecked(j) \/ SaveToken(j) \/ SubjectFails(j) \/ \E t \in Tasks : FlowSucceeds(t)
      BY <1>2, <2>3, SaveMovers DEF CalmStep
    <3> QED BY <1>1, <1>2, <2>3, <3>1, LoginAssumption DEF SaveChecked, SaveToken, SubjectFails, FlowSucceeds, OauthTable
  <2> QED BY <2>2, <2>3
<1>3. ASSUME NEW i \in Attempts, saveCall'[i] \in {"sent", "verifying"}
      PROVE  \E t \in Tasks : run'[t] # NoRun /\ run'[t].attempt = i /\ run'[t].step = "saving"
  <2>1. CASE saveCall[i] \in {"sent", "verifying"}
    <3>1. PICK t \in Tasks : run[t] # NoRun /\ run[t].attempt = i /\ run[t].step = "saving"
      BY <1>1, <2>1 DEF SavesRun
    <3>2. RunKept(t)
      BY <1>1 DEF StepMoves
    <3> QED BY <2>1, <3>1, <3>2 DEF RunKept
  <2>2. CASE saveCall[i] \notin {"sent", "verifying"}
    <3>1. ASSUME NEW j \in Attempts, SaveChecked(j) \/ SaveToken(j) \/ SubjectFails(j) PROVE FALSE
      BY <1>1, <1>3, <2>2, <3>1 DEF SaveChecked, SaveToken, SubjectFails
    <3>2. PICK t \in Tasks : FlowSucceeds(t)
      BY <1>3, <2>2, <3>1, SaveMovers DEF CalmStep
    <3> DEFINE r == run[t]
               x == [r EXCEPT !.step = "saving"]
    <3>3. r # NoRun /\ run' = [run EXCEPT ![t] = x] /\ saveCall' = [saveCall EXCEPT ![r.attempt] = "sent"]
      BY <3>2 DEF FlowSucceeds
    <3>4. r \in Run
      BY <1>1, <3>3 DEF RunTable
    <3> HIDE DEF r
    <3>5. x \in Run /\ x.step = "saving" /\ x.attempt = r.attempt
      BY <3>4, RunRow
    <3> HIDE DEF x
    <3>6. r.attempt = i
      BY <1>1, <1>3, <2>2, <3>3
    <3>7. run'[t] = x /\ x # NoRun
      BY <1>1, <3>3, <3>5, RowsAreRecords DEF RunTable
    <3> QED BY <3>5, <3>6, <3>7
  <2> QED BY <2>1, <2>2
<1> QED BY <1>2, <1>3 DEF SavesRun

(* Prepare calls. *)
LEMMA PreparesStep ==
  ASSUME CalmStep
  PROVE  PreparesAwaited'
<1>1. /\ TypeOK /\ PreparesAwaited /\ RetriesAgree(retry, pending, run)
      /\ saveCall \in [Attempts -> {"none", "sent", "verifying", "saved", "refused"}]
      /\ retry \in [Retriers -> RetryCall \cup {NoRetry}]
      /\ prepares \subseteq Prepare /\ \A r \in Retriers : RetryMoved(r)
  BY CalmFacts DEF TypeOK
<1>2. \A p, q \in prepares : p.attempt = q.attempt => p = q
  BY DEF CalmStep, FenceInv
<1>3. ASSUME NEW i \in Attempts, saveCall[i] = "none",
             \E r \in Retriers : retry[r] # NoRetry /\ retry[r].attempt = i /\ retry[r].step = "prepare"
      PROVE  saveCall'[i] = "none"
  <2>1. ASSUME NEW j \in Attempts, SaveChecked(j) \/ SaveToken(j) \/ SubjectFails(j) PROVE saveCall'[i] = "none"
    BY <1>1, <1>3, <2>1 DEF SaveChecked, SaveToken, SubjectFails
  <2>2. ASSUME NEW t \in Tasks, FlowSucceeds(t) PROVE saveCall'[i] = "none"
    <3>1. run[t] # NoRun /\ run[t].step = "flow" /\ saveCall' = [saveCall EXCEPT ![run[t].attempt] = "sent"]
      BY <2>2 DEF FlowSucceeds
    <3>2. run[t].attempt # i
      BY <1>1, <1>3, <3>1 DEF RetriesAgree
    <3> QED BY <1>1, <1>3, <3>1, <3>2
  <2> QED BY <1>3, <2>1, <2>2, SaveMovers DEF CalmStep
<1>4. ASSUME NEW p \in prepares, \E q \in prepares' : q.attempt = p.attempt
      PROVE  /\ saveCall'[p.attempt] = "none"
             /\ p \in prepares' => \E r \in Retriers : retry'[r] # NoRetry /\ retry'[r].attempt = p.attempt /\ retry'[r].step = "prepare"
  <2>1. PICK r \in Retriers : retry[r] # NoRetry /\ retry[r].attempt = p.attempt /\ retry[r].step = "prepare"
    BY <1>1 DEF PreparesAwaited
  <2>2. p.attempt \in Attempts /\ saveCall[p.attempt] = "none"
    BY <1>1 DEF Prepare, PreparesAwaited
  <2>3. saveCall'[p.attempt] = "none"
    BY <1>3, <2>1, <2>2
  <2>4. ASSUME p \in prepares' PROVE retry'[r] = retry[r]
    <3>1. \A q \in prepares : ~Answering(r, q)
      BY <1>2, <2>1, <2>4 DEF Answering
    <3>2. RetryMoved(r)
      BY <1>1
    <3>3. ~RetryPrepared(r)
      BY <2>1 DEF RetryPrepared
    <3> QED BY <2>1, <3>1, <3>2, <3>3 DEF RetryMoved
  <2> QED BY <2>1, <2>3, <2>4
<1> SUFFICES ASSUME NEW q \in prepares'
             PROVE  /\ saveCall'[q.attempt] = "none"
                    /\ \E r \in Retriers : retry'[r] # NoRetry /\ retry'[r].attempt = q.attempt /\ retry'[r].step = "prepare"
  BY DEF PreparesAwaited
<1>5. CASE q \in prepares
  BY <1>4, <1>5
<1>6. CASE q \notin prepares
  <2>1. ASSUME NEW p \in prepares, PrepareAttempt(p)
        PROVE  /\ saveCall'[q.attempt] = "none"
               /\ \E r \in Retriers : retry'[r] # NoRetry /\ retry'[r].attempt = q.attempt /\ retry'[r].step = "prepare"
    <3>1. q = [p EXCEPT !.checked = TRUE] /\ UNCHANGED <<retry, saveCall>>
      BY <1>6, <2>1 DEF PrepareAttempt
    <3>2. p \in Prepare
      BY <1>1
    <3>3. q.attempt = p.attempt
      BY <3>1, <3>2 DEF Prepare
    <3> QED BY <1>1, <3>1, <3>3 DEF PreparesAwaited
  <2>2. ASSUME NEW r \in Retriers, NEW i \in Attempts, RetryReserves(r, i)
        PROVE  /\ saveCall'[q.attempt] = "none"
               /\ \E x \in Retriers : retry'[x] # NoRetry /\ retry'[x].attempt = q.attempt /\ retry'[x].step = "prepare"
    <3> DEFINE new == [task |-> retry[r].task, previous |-> retry[r].previous, attempt |-> i, step |-> "prepare"]
               call == [attempt |-> i, previous |-> retry[r].previous, checked |-> FALSE]
    <3>1. /\ prepares' = prepares \cup {call} /\ retry' = [retry EXCEPT ![r] = new] /\ Unused(i) /\ UNCHANGED saveCall
          /\ retry[r] # NoRetry
      BY <1>6, <2>2 DEF RetryReserves
    <3>2. q.attempt = i
      BY <1>6, <3>1
    <3>3. retry[r] \in RetryCall
      BY <1>1, <3>1
    <3>4. new \in RetryCall /\ new.attempt = i /\ new.step = "prepare"
      BY <3>3 DEF RetryCall
    <3>5. new # NoRetry
      BY <3>4, AbsenceAssumption
    <3> HIDE DEF new
    <3>6. retry'[r] = new
      BY <1>1, <3>1
    <3> QED BY <3>1, <3>2, <3>4, <3>5, <3>6 DEF Unused
  <2> QED BY <1>6, <2>1, <2>2, PrepareMovers DEF CalmStep
<1> QED BY <1>5, <1>6

(* Retries. *)
LEMMA OwnTaskKept ==
  ASSUME CalmStep, NEW r \in Retriers, retry[r] # NoRetry, retry[r].step \in Preparing, retry[r].attempt \in Attempts,
         retry'[r] # NoRetry, retry'[r].step \in Preparing, retry'[r].attempt = retry[r].attempt,
         NEW u \in Tasks, OwnTask(task[u], retry[r].attempt)
  PROVE  OwnTask(task'[u], retry[r].attempt)
<1> DEFINE i == retry[r].attempt
<1>1. /\ StepMoves /\ RetriesAgree(retry, pending, run) /\ RetriesAgree(retry', pending', run')
  BY CalmFacts
<1>2. TaskMoved(u)
  BY <1>1 DEF StepMoves
<1>3. i # NoAttempt
  BY LoginAssumption
<1>4. /\ run[u] # NoRun /\ run[u].step # "reporting" => run[u].attempt # i
      /\ run'[u] # NoRun /\ run'[u].step # "reporting" => run'[u].attempt # i
  BY <1>1 DEF RetriesAgree, Preparing
<1>5. \A x \in Retriers : retry[x] # NoRetry /\ retry[x].attempt = i => x = r
  BY <1>1, <1>3 DEF RetriesAgree
<1>6. task[u] # NoTask
  BY DEF OwnTask
<1>7. CASE task[u] = GoneTask \/ task'[u] = task[u] \/ task'[u] = GoneTask
  BY <1>2, <1>6, <1>7, AbsenceAssumption DEF TaskMoved, TaskKept, OwnTask, Exists
<1>8. CASE task[u] # GoneTask /\ task'[u] # task[u] /\ task'[u] # GoneTask
  <2>1. task[u].attempt = i /\ task[u].status \in {"pending", "cancelling", "cancelled"}
    BY <1>8 DEF OwnTask
  <2>2. TaskKept(u)
    BY <1>2, <1>6, <1>8, <2>1 DEF TaskMoved
  <2>3. task'[u].status # "success"
    BY <1>4, <2>1, <2>2 DEF TaskKept, OfRun
  <2>4. task'[u].status = "failed" => task[u].status = "failed"
    BY <1>4, <1>5, <2>1, <2>2 DEF TaskKept, OfRun, Preparing
  <2>5. task'[u].status = "running" => task[u].status = "running"
    BY <1>4, <2>1, <2>2 DEF TaskKept
  <2> QED BY <2>1, <2>2, <2>3, <2>4, <2>5 DEF TaskKept, OwnTask
<1> QED BY <1>7, <1>8

LEMMA RetriesStep ==
  ASSUME CalmStep
  PROVE  RetriesOwn'
<1>1. /\ TypeOK /\ RetriesOwn /\ PreparesAwaited /\ RetriesAgree(retry, pending, run)
      /\ retry \in [Retriers -> RetryCall \cup {NoRetry}] /\ AccountOf \in [Attempts -> Accounts]
      /\ \A r \in Retriers : RetryMoved(r)
  BY CalmFacts, LoginAssumption DEF TypeOK
<1> SUFFICES ASSUME NEW r \in Retriers, retry'[r] # NoRetry
             PROVE  /\ retry'[r].step \in Preparing => OwnTask(task'[retry'[r].task], retry'[r].attempt)
                    /\ retry'[r].step \in {"prepare", "refused"} =>
                         ~(oauth'[AccountOf[retry'[r].attempt]].attempt = retry'[r].attempt
                           /\ oauth'[AccountOf[retry'[r].attempt]].status = "refreshing")
  BY DEF RetriesOwn, Current
<1>2. CASE retry'[r].step \notin Preparing
  BY <1>2 DEF Preparing
<1>3. CASE \E i \in Attempts : Reserved(r, i)
  BY <1>3 DEF Reserved, OwnTask, Unused
<1>4. CASE retry'[r].step \in Preparing /\ ~\E i \in Attempts : Reserved(r, i)
  <2> DEFINE i == retry[r].attempt
  <2>1. /\ retry[r] # NoRetry /\ retry[r].step \in Preparing /\ retry'[r].attempt = i /\ retry'[r].task = retry[r].task
        /\ \/ retry'[r].step = retry[r].step
           \/ retry'[r].step = "prepared"
           \/ retry[r].step = "prepare" /\ retry'[r].step = "refused" /\ UNCHANGED oauth
    BY <1>1, <1>4 DEF RetryMoved, Answering, Preparing
  <2>2. retry[r] \in RetryCall
    BY <1>1, <2>1
  <2>3. i \in Attempts
    BY <1>1, <2>1, <2>2 DEF RetryCall, RetriesAgree, Preparing
  <2>4. retry[r].task \in Tasks
    BY <2>2 DEF RetryCall
  <2>5. OwnTask(task[retry[r].task], i)
    BY <1>1, <2>1 DEF RetriesOwn
  <2>6. OwnTask(task'[retry[r].task], i)
    BY <1>4, <2>1, <2>3, <2>4, <2>5, OwnTaskKept
  <2>7. ASSUME retry'[r].step \in {"prepare", "refused"}
        PROVE  ~(oauth'[AccountOf[i]].attempt = i /\ oauth'[AccountOf[i]].status = "refreshing")
    <3>1. retry[r].step \in {"prepare", "refused"}
      BY <2>1, <2>7
    <3>2. ~Current(i)
      BY <1>1, <2>1, <3>1 DEF RetriesOwn
    <3>3. AccountMoved(AccountOf[i])
      BY <1>1, <2>3, AccountMoves DEF CalmStep
    <3>4. ~Reauthorize(i)
      BY <2>1 DEF Reauthorize, Unused
    <3>5. ASSUME NEW p \in prepares, p.attempt = i, retry' = Answered(i, "prepared") PROVE FALSE
      <4>1. PICK x \in Retriers : retry[x] # NoRetry /\ retry[x].attempt = i /\ retry[x].step = "prepare"
        BY <1>1, <3>5 DEF PreparesAwaited
      <4>2. x = r
        BY <1>1, <2>1, <2>3, <4>1, LoginAssumption DEF RetriesAgree
      <4>3. retry'[r] = [retry[r] EXCEPT !.step = "prepared"]
        BY <3>5, <4>1, <4>2 DEF Answered
      <4> DEFINE y == retry[r]
      <4>4. y \in RetryCall
        BY <2>2
      <4> HIDE DEF y
      <4>5. [y EXCEPT !.step = "prepared"].step = "prepared"
        BY <4>4, RetryRow
      <4> QED BY <2>7, <4>3, <4>5 DEF y
    <3> QED BY <2>3, <3>2, <3>3, <3>4, <3>5, LoginAssumption DEF AccountMoved, BeginsAt, Current
  <2> QED BY <2>1, <2>6, <2>7
<1> QED BY <1>2, <1>3, <1>4

(* A task that is worked on is worked on after the step, or its attempt is
   reported, or its account no longer waits. *)
LEMMA TaskCared ==
  ASSUME CalmStep, NEW i \in Attempts, Current(i), NEW u \in Tasks,
         Exists(u), task[u].attempt = i, task[u].status \in Active
  PROVE  \/ /\ task'[u] \notin {NoTask, GoneTask} /\ task'[u].attempt = i /\ task'[u].status \in Active
         \/ i \in reports'
<1>1. StepMoves /\ SavesRun
  BY CalmFacts
<1>2. TaskMoved(u)
  BY <1>1 DEF StepMoves
<1>3. saveCall[i] # "saved"
  BY <1>1 DEF SavesRun, Current
<1> QED BY <1>2, <1>3 DEF TaskMoved, TaskKept, Exists, Active, Finished

(* What is left of CaredFor(i) after a step. *)
StillCared(i) ==
  \/ /\ submission'[i] # NoSubmission
     /\ \/ submission'[i].net = "sent"
        \/ submission'[i].net = "rejected" /\ submission'[i].client \in {"waiting", "rollback"}
  \/ \E t \in Tasks : task'[t] \notin {NoTask, GoneTask} /\ task'[t].attempt = i /\ task'[t].status \in Active
  \/ i \in reports'
  \/ \E r \in Retriers : retry'[r] # NoRetry /\ retry'[r].attempt = i /\ retry'[r].step = "prepared"

(* A submission that is not decided, after a step. *)
LEMMA SubmissionCared ==
  ASSUME CalmStep, NEW i \in Attempts, Current(i), submission[i] # NoSubmission, Undecided(submission[i]),
         oauth'[AccountOf[i]].attempt = i /\ oauth'[AccountOf[i]].status = "refreshing"
  PROVE  StillCared(i)
<1>1. /\ submission \in [Attempts -> Submission \cup {NoSubmission}] /\ SubmissionsAnswered /\ losses' # losses + 1
      /\ oauth \in OauthTable /\ TypeOK
  BY CalmFacts DEF TypeOK, OauthTable
<1>2. CASE submission'[i] = submission[i]
  BY <1>2 DEF StillCared, Undecided
<1>3. CASE Enqueue(i)
  <2> DEFINE s == submission[i]
             no == [s EXCEPT !.net = "rejected"]
  <2>1. s \in Submission /\ s.client = "waiting"
    BY <1>1, <1>3 DEF Enqueue, SubmissionsAnswered
  <2>2. \/ submission' = [submission EXCEPT ![i] = no]
        \/ \E t \in Tasks : /\ task[t] = NoTask
                            /\ Drain(Append(pending, NewEntry(t, i)), run, [task EXCEPT ![t] = NewTask(i)], NextAttempt(t, i))
    BY <1>3 DEF Enqueue, NewEntry
  <2>3. CASE submission' = [submission EXCEPT ![i] = no]
    <3>1. s \in Submission
      BY <2>1
    <3> HIDE DEF s
    <3>2. no \in Submission /\ no.net = "rejected" /\ no.client = s.client
      BY <3>1 DEF Submission
    <3> HIDE DEF no
    <3>3. submission'[i] = no /\ no # NoSubmission
      BY <1>1, <2>3, <3>2, AbsenceAssumption
    <3> QED BY <2>1, <3>2, <3>3 DEF StillCared
  <2>4. ASSUME NEW t \in Tasks,
               Drain(Append(pending, NewEntry(t, i)), run, [task EXCEPT ![t] = NewTask(i)], NextAttempt(t, i))
        PROVE  StillCared(i)
    <3> DEFINE q == Append(pending, NewEntry(t, i))
               ts == [task EXCEPT ![t] = NewTask(i)]
    <3>1. NewTask(i) \in TaskRow /\ NewTask(i).attempt = i /\ NewTask(i).status = "pending"
      BY LoginAssumption DEF NewTask, TaskRow, Active
    <3>2. q \in Seq(Entry) /\ task \in TaskTable
      BY <1>1 DEF TypeOK, NewEntry, Entry, TaskTable
    <3>3. ts \in TaskTable /\ ts[t] = NewTask(i)
      BY <3>1, <3>2 DEF TaskTable
    <3>4. Drain(q, run, ts, NextAttempt(t, i))
      BY <2>4
    <3>5. NewTask(i) \notin {NoTask, GoneTask}
      BY <3>1, RowsAreRecords
    <3> HIDE DEF q, ts
    <3>6. task'[t] = ts[t] \/ Started(q, ts, t)
      BY <3>2, <3>3, <3>4, DrainedTasks
    <3>7. task'[t] \notin {NoTask, GoneTask} /\ task'[t].attempt = i /\ task'[t].status \in Active
      BY <3>1, <3>3, <3>5, <3>6 DEF Started, Active
    <3> QED BY <3>7 DEF StillCared
  <2> QED BY <2>2, <2>3, <2>4
<1>4. CASE SubmissionAnswered(i)
  <2> DEFINE s == submission[i]
             back == [s EXCEPT !.client = "rollback"]
  <2>1. s \in Submission
    BY <1>1
  <2>2. ~Fail(i)
    BY <1>1, FailEnds
  <2>3. s.net = "rejected" /\ submission' = [submission EXCEPT ![i] = back]
    BY <1>1, <1>4, <2>2 DEF SubmissionAnswered, SubmissionsAnswered, Undecided
  <2> HIDE DEF s
  <2>4. back \in Submission /\ back.net = s.net /\ back.client = "rollback"
    BY <2>1 DEF Submission
  <2> HIDE DEF back
  <2>5. submission'[i] = back /\ back # NoSubmission
    BY <1>1, <2>3, <2>4, AbsenceAssumption
  <2> QED BY <2>3, <2>4, <2>5 DEF StillCared
<1>5. ASSUME NEW j \in Attempts, Enqueue(j) \/ SubmissionAnswered(j), j # i PROVE submission'[i] = submission[i]
  BY <1>1, <1>5 DEF Enqueue, SubmissionAnswered
<1>6. ASSUME NEW j \in Attempts, Reauthorize(j) \/ DropSubmission(j) PROVE submission'[i] = submission[i]
  BY <1>1, <1>6 DEF Reauthorize, DropSubmission, Unused
<1> QED BY <1>2, <1>3, <1>4, <1>5, <1>6, SubmissionMovers DEF CalmStep

(* A report under way, after a step. *)
LEMMA ReportCared ==
  ASSUME CalmStep, NEW i \in Attempts, i \in reports,
         oauth'[AccountOf[i]].attempt = i /\ oauth'[AccountOf[i]].status = "refreshing"
  PROVE  i \in reports'
<1>1. /\ oauth \in OauthTable /\ losses' # losses + 1 /\ up
  BY CalmFacts DEF TypeOK, OauthTable
<1>2. ~Fail(i)
  BY <1>1, FailEnds
<1>3. ASSUME NEW j \in Attempts, MarkFailed(j) \/ DropReport(j) PROVE i \in reports'
  BY <1>1, <1>2, <1>3 DEF MarkFailed, DropReport
<1>4. ASSUME NEW t \in Tasks, FlowFails(t) \/ SaveFails(t) \/ FinishCancellation(t) PROVE i \in reports'
  BY <1>4 DEF FlowFails, SaveFails, FinishCancellation, FailRun
<1>5. ASSUME NEW r \in Retriers, RetryPrepared(r) \/ RetryFails(r) PROVE i \in reports'
  BY <1>5 DEF RetryPrepared, RetryFails
<1>6. ~Recover
  BY <1>1 DEF Recover
<1> QED BY <1>3, <1>4, <1>5, <1>6, ReportMovers DEF CalmStep

(* A retry whose attempt the Proxy made current, after a step. *)
LEMMA RetryCared ==
  ASSUME CalmStep, NEW i \in Attempts, Current(i),
         NEW r \in Retriers, retry[r] # NoRetry, retry[r].attempt = i, retry[r].step = "prepared"
  PROVE  StillCared(i)
<1>1. /\ RetryMoved(r) /\ RetriesOwn /\ retry \in [Retriers -> RetryCall \cup {NoRetry}] /\ task \in TaskTable
  BY CalmFacts DEF TypeOK, TaskTable
<1> DEFINE u == retry[r].task
<1>2. retry[r] \in RetryCall
  BY <1>1
<1>3. u \in Tasks
  BY <1>2 DEF RetryCall
<1>4. OwnTask(task[u], i)
  BY <1>1 DEF RetriesOwn, Preparing
<1>5. CASE Exists(u) /\ task[u].status \in Active
  BY <1>3, <1>4, <1>5, TaskCared DEF OwnTask, Exists, StillCared
<1>6. CASE ~(Exists(u) /\ task[u].status \in Active)
  <2>1. CASE RetryPrepared(r)
    <3>1. i \in reports'
      BY <1>6, <2>1 DEF RetryPrepared, Active
    <3> QED BY <3>1 DEF StillCared
  <2>2. CASE ~RetryPrepared(r)
    <3>1. retry'[r] = retry[r]
      BY <1>1, <2>2 DEF RetryMoved, Answering
    <3> QED BY <3>1 DEF StillCared
  <2> QED BY <2>1, <2>2
<1> QED BY <1>5, <1>6

LEMMA CaredStep ==
  ASSUME CalmStep, NEW i \in Attempts,
         oauth'[AccountOf[i]].attempt = i /\ oauth'[AccountOf[i]].status = "refreshing"
  PROVE  StillCared(i)
<1>1. /\ PreparesAwaited /\ TypeOK /\ AccountOf[i] \in Accounts /\ i # NoAttempt
      /\ retry \in [Retriers -> RetryCall \cup {NoRetry}]
      /\ submission \in [Attempts -> Submission \cup {NoSubmission}]
  BY CalmFacts, LoginAssumption DEF TypeOK
<1>2. CASE Current(i)
  <2>1. CaredFor(i)
    BY <1>2, CalmFacts
  <2>2. CASE submission[i] # NoSubmission /\ Undecided(submission[i])
    BY <1>2, <2>2, SubmissionCared
  <2>3. ASSUME NEW t \in Tasks, Exists(t), task[t].attempt = i, task[t].status \in Active PROVE StillCared(i)
    BY <1>2, <2>3, TaskCared DEF StillCared
  <2>4. CASE i \in reports
    BY <2>4, ReportCared DEF StillCared
  <2>5. ASSUME NEW r \in Retriers, retry[r] # NoRetry, retry[r].attempt = i, retry[r].step = "prepared" PROVE StillCared(i)
    BY <1>2, <2>5, RetryCared
  <2> QED BY <2>1, <2>2, <2>3, <2>4, <2>5 DEF CaredFor
<1>3. CASE ~Current(i)
  <2>1. AccountMoved(AccountOf[i])
    BY <1>1, AccountMoves DEF CalmStep
  <2>2. \/ Reauthorize(i)
        \/ \E p \in prepares : p.attempt = i /\ retry' = Answered(i, "prepared")
    BY <1>1, <1>3, <2>1 DEF AccountMoved, BeginsAt, Current
  <2>3. CASE Reauthorize(i)
    <3> DEFINE s == [net |-> "sent", client |-> "waiting"]
    <3>1. s \in Submission /\ s.net = "sent"
      BY DEF Submission
    <3>2. submission' = [submission EXCEPT ![i] = s]
      BY <2>3 DEF Reauthorize
    <3>3. submission'[i] = s /\ s # NoSubmission
      BY <1>1, <3>1, <3>2, AbsenceAssumption
    <3> QED BY <3>1, <3>3 DEF StillCared
  <2>4. ASSUME NEW p \in prepares, p.attempt = i, retry' = Answered(i, "prepared") PROVE StillCared(i)
    <3>1. PICK r \in Retriers : retry[r] # NoRetry /\ retry[r].attempt = i /\ retry[r].step = "prepare"
      BY <1>1, <2>4 DEF PreparesAwaited
    <3> DEFINE y == retry[r]
               x == [y EXCEPT !.step = "prepared"]
    <3>2. retry'[r] = x /\ y \in RetryCall /\ y.attempt = i
      BY <1>1, <2>4, <3>1 DEF Answered
    <3> HIDE DEF y
    <3>3. x \in RetryCall /\ x.step = "prepared" /\ x.attempt = y.attempt
      BY <3>2, RetryRow
    <3>4. x # NoRetry
      BY <3>3, AbsenceAssumption
    <3> HIDE DEF x
    <3> QED BY <3>2, <3>3, <3>4 DEF StillCared
  <2> QED BY <2>2, <2>3, <2>4
<1> QED BY <1>2, <1>3

LEMMA AttendInvStep ==
  ASSUME LoginInv, LoginInv', FenceInv, AccountsWait, AttendInv, [Next]_vars
  PROVE  AttendInv'
<1> SUFFICES ASSUME Calm' PROVE AttendInv'
  BY DEF AttendInv
<1>1. Calm
  BY CalmBefore DEF LoginInv
<1>2. CalmStep
  BY <1>1 DEF CalmStep
<1>3. up'
  BY <1>2, CalmFacts
<1>4. SubmissionsAnswered' /\ SavesRun' /\ PreparesAwaited' /\ RetriesOwn'
  BY <1>2, SubmissionsStep, SavesStep, PreparesStep, RetriesStep
<1>5. ASSUME NEW i \in Attempts, Current(i)' PROVE CaredFor(i)'
  <2>1. StillCared(i)
    BY <1>2, <1>5, CaredStep DEF Current
  <2> QED BY <2>1 DEF StillCared, CaredFor, Undecided, Exists
<1> QED BY <1>3, <1>4, <1>5 DEF AttendInv

LEMMA AttendInvInit ==
  ASSUME Init
  PROVE  AccountsWait /\ AttendInv
<1>1. \A i \in Attempts : AccountOf[i] \in Accounts
  BY LoginAssumption
<1> QED BY <1>1 DEF Init, AccountsWait, AttendInv, SubmissionsAnswered, SavesRun, PreparesAwaited, RetriesOwn, Current

(* As long as nothing was lost, an account that waits for an attempt waits
   for one that somebody works on or is about to report: the retry's, the
   queue's and the cancellation's answers leave none behind. *)
THEOREM WaitingIsAttended == Spec => [](crashes = 0 /\ losses = 0 => RefreshingIsAttended)
<1>1. Init => FenceInv
  BY DEF Init, FenceInv
<1>2. LoginInv /\ FenceInv /\ [Next]_vars => FenceInv'
  BY FenceInvStep DEF LoginInv
<1>3. LoginInv /\ AccountsWait /\ [Next]_vars => AccountsWait'
  BY AccountsWaitStep DEF LoginInv
<1>4. LoginInv /\ LoginInv' /\ FenceInv /\ AccountsWait /\ AttendInv /\ [Next]_vars => AttendInv'
  BY AttendInvStep
<1>5. LoginInv /\ AccountsWait /\ AttendInv => (crashes = 0 /\ losses = 0 => RefreshingIsAttended)
  <2> SUFFICES ASSUME LoginInv, AccountsWait, AttendInv, Calm, NEW a \in Accounts, oauth[a].status = "refreshing"
               PROVE  Attended(oauth[a].attempt)
    BY DEF RefreshingIsAttended, Calm
  <2> DEFINE i == oauth[a].attempt
  <2>1. i \in Attempts /\ AccountOf[i] = a
    BY DEF AccountsWait
  <2>2. up /\ Current(i)
    BY <2>1 DEF AttendInv, Current
  <2>3. CaredFor(i)
    BY <2>1, <2>2 DEF AttendInv
  <2>4. RowsAgree(task, attemptRow) /\ SubmissionsAnswered
    BY <2>2, CalmTables DEF AttendInv
  <2> HIDE DEF i
  <2>5. ASSUME NEW t \in Tasks, Exists(t), task[t].attempt = i, task[t].status \in Active
        PROVE  attemptRow[i] # NoRow /\ attemptRow[i].status \in Active
    BY <2>1, <2>4, <2>5 DEF RowsAgree, Exists
  <2>6. Attended(i)
    BY <2>3, <2>5 DEF CaredFor, Attended, Undecided
  <2> QED BY <2>6 DEF i
<1>6. Init => AccountsWait /\ AttendInv
  BY AttendInvInit
<1> QED
  BY <1>1, <1>2, <1>3, <1>4, <1>5, <1>6, LoginStaysConsistent, PTL DEF Spec

-----------------------------------------------------------------------------
(* The lists of the console: their rows and selections. *)

(* A query, the location of a page, and what a list shows. *)
IsQuery(q) == q = [filter |-> q.filter, page |-> q.page]
IsList(l) == l = [tenant |-> l.tenant, query |-> l.query] /\ IsQuery(l.query)
IsPlace(h) == h = Hash(h.page, h.tenant, h.query) /\ h.page \in {"list", "other"} /\ h.tenant \in Tenants /\ IsQuery(h.query)

(* What is selected was picked in the enterprise t and, unless it was picked
   among stale rows, with the filter f. *)
PickFits(pick, t, f) == pick.ids # {} => pick.tenant = t /\ (~pick.stale => pick.filter = f)

(* The newest load is for the list on screen. *)
LoadsFit == loads \in Nat /\ \A x \in fetches : x.seq \in Nat /\ x.seq <= loads /\ (x.seq = loads => x.for = list)

RowsInv ==
  /\ IsPlace(place) /\ IsQuery(views.query) /\ views = Hash(views.page, views.tenant, views.query)
  /\ IsList(list) /\ (list # NoList => list.tenant = place.tenant)
  /\ selections = [t \in Tenants |-> selections[t]]
  /\ \A t \in Tenants : PickFits(selections[t].pick, t, selections[t].key)
  /\ list # NoList => PickFits(picked, list.tenant, list.query.filter)
  /\ list # NoList /\ rowsOf # NoList => rowsOf.tenant = list.tenant
  /\ LoadsFit /\ RowsAreCurrent

LEMMA RowsAreSafeThen == RowsInv => RowsAreSafe
BY DEF RowsInv, RowsAreSafe, SelectionIsInScope, PickFits

LEMMA FirstIsQuery == IsQuery(FirstQuery) /\ IsList(NoList)
BY DEF IsQuery, FirstQuery, IsList, NoList

LEMMA NoPickFits == ASSUME NEW t, NEW f PROVE PickFits(NoPick, t, f)
BY DEF PickFits, NoPick

LEMMA RowsStart == RowsInit => RowsInv
<1> SUFFICES ASSUME RowsInit PROVE RowsInv
  OBVIOUS
<1>1. PICK t \in Tenants : place = Hash("other", t, FirstQuery) /\ views = Hash("none", t, FirstQuery)
  BY DEF RowsInit
<1>2. IsPlace(place) /\ IsQuery(views.query) /\ views = Hash(views.page, views.tenant, views.query)
  BY <1>1, FirstIsQuery DEF IsPlace, Hash
<1>3. /\ list = NoList /\ selections = [u \in Tenants |-> NoSelection]
      /\ loads = 0 /\ fetches = {}
  BY DEF RowsInit
<1> QED
  BY <1>2, <1>3, FirstIsQuery, NoPickFits DEF RowsInv, LoadsFit, RowsAreCurrent, NoSelection

(* A load that starts is the newest, and for the list that it starts for. *)
LEMMA ReloadFits ==
  ASSUME RowsInv, NEW l, Reload(l), list' = l
  PROVE  LoadsFit' /\ loading'
BY DEF RowsInv, LoadsFit, Reload

LEMMA HideFits ==
  ASSUME RowsInv, Hide
  PROVE  LoadsFit' /\ list' = NoList
BY DEF RowsInv, LoadsFit, Hide

LEMMA MoveKeeps ==
  ASSUME RowsInv, NEW h, IsPlace(h), MoveTo(h)
  PROVE  RowsInv'
<1> DEFINE l == [tenant |-> h.tenant, query |-> h.query]
<1>0. IsPlace(place)' /\ IsQuery(views'.query) /\ views' = Hash(views'.page, views'.tenant, views'.query)
  BY DEF MoveTo, RowsInv, IsPlace
<1>1. IsList(l) /\ h.tenant \in Tenants /\ place' = h /\ l.tenant = h.tenant /\ l.query = h.query
  BY DEF IsList, IsPlace, MoveTo
<1> HIDE DEF l
<1>2. CASE h.tenant # place.tenant
  <2>1. /\ selections' = [t \in Tenants |-> NoSelection]
        /\ IF h.page = "list" THEN list' = l /\ picked' = NoPick /\ rowsOf' = NoList /\ Reload(l) ELSE Hide
    BY <1>2 DEF MoveTo, l
  <2>2. /\ selections' = [t \in Tenants |-> selections'[t]]
        /\ \A t \in Tenants : PickFits(selections'[t].pick, t, selections'[t].key)
    BY <2>1, NoPickFits DEF NoSelection
  <2>3. CASE h.page = "list"
    BY <1>0, <1>1, <2>1, <2>2, <2>3, ReloadFits, NoPickFits DEF RowsInv, RowsAreCurrent
  <2>4. CASE h.page # "list"
    BY <1>0, <2>1, <2>2, <2>4, HideFits, FirstIsQuery DEF RowsInv, RowsAreCurrent
  <2> QED
    BY <2>3, <2>4
<1>3. CASE h.tenant = place.tenant /\ h.page = "other"
  <2>1. Hide /\ UNCHANGED selections
    BY <1>3 DEF MoveTo
  <2> QED
    BY <1>0, <2>1, HideFits, FirstIsQuery DEF RowsInv, RowsAreCurrent
<1>4. CASE h.tenant = place.tenant /\ h.page = "list" /\ list = NoList
  <2>1. Shown(h)
    BY <1>4 DEF MoveTo
  <2>2. /\ list' = l /\ rowsOf' = NoList /\ Reload(l) /\ UNCHANGED selections
        /\ picked' = IF selections[h.tenant].key = h.query.filter THEN selections[h.tenant].pick ELSE NoPick
    BY <2>1 DEF Shown, l
  <2>3. PickFits(picked', h.tenant, h.query.filter)
    BY <1>1, <2>2, NoPickFits DEF RowsInv
  <2> QED
    BY <1>0, <1>1, <2>2, <2>3, ReloadFits DEF RowsInv, RowsAreCurrent
<1>5. CASE h.tenant = place.tenant /\ h.page = "list" /\ list # NoList
  <2> DEFINE now == [list EXCEPT !.query = h.query]
  <2>1. /\ list' = now /\ picked' = PickFor(list, picked, now) /\ Keep(now, picked')
        /\ UNCHANGED <<rowsOf, loadError>>
        /\ IF now = list THEN UNCHANGED <<loads, loading, fetches>> ELSE Reload(now)
    BY <1>5 DEF MoveTo
  <2>2. now = l /\ list.tenant = h.tenant
    BY <1>5 DEF RowsInv, IsList, l
  <2> HIDE DEF now
  <2>3. PickFits(picked', h.tenant, h.query.filter)
    BY <1>1, <1>5, <2>1, <2>2, NoPickFits DEF RowsInv, PickFor, PickFits
  <2>4. selections' = [selections EXCEPT ![h.tenant] = [key |-> h.query.filter, pick |-> picked']]
    BY <1>1, <2>1, <2>2 DEF Keep
  <2>5. /\ selections' = [t \in Tenants |-> selections'[t]]
        /\ \A t \in Tenants : PickFits(selections'[t].pick, t, selections'[t].key)
    BY <1>1, <2>3, <2>4 DEF RowsInv
  <2>6. LoadsFit' /\ RowsAreCurrent'
    <3>1. CASE now = list
      BY <2>1, <3>1 DEF RowsInv, LoadsFit, RowsAreCurrent
    <3>2. CASE now # list
      BY <2>1, <3>2, ReloadFits DEF RowsAreCurrent
    <3> QED
      BY <3>1, <3>2
  <2>7. rowsOf' # NoList => rowsOf'.tenant = h.tenant
    BY <1>5, <2>1, <2>2 DEF RowsInv
  <2> QED
    BY <1>0, <1>1, <2>1, <2>2, <2>3, <2>5, <2>6, <2>7 DEF RowsInv
<1> QED
  BY <1>2, <1>3, <1>4, <1>5 DEF IsPlace

LEMMA RowsKeep == ASSUME RowsInv, [RowsNext]_rowVars PROVE RowsInv'
<1>0. /\ IsPlace(place) /\ IsQuery(views.query) /\ IsList(list) /\ LoadsFit
  BY DEF RowsInv
<1>1. CASE UNCHANGED rowVars
  BY <1>1 DEF rowVars, RowsInv, LoadsFit, RowsAreCurrent
<1>2. ASSUME NEW p \in {"list", "other"}, Navigate(p) PROVE RowsInv'
  <2> DEFINE h == IF p = "list" /\ views.page = "list" /\ views.tenant = place.tenant
                  THEN views ELSE Hash(p, place.tenant, FirstQuery)
  <2>1. MoveTo(h)
    BY <1>2 DEF Navigate
  <2>2. IsPlace(h)
    <3>1. IsPlace(Hash(p, place.tenant, FirstQuery))
      BY <1>0, FirstIsQuery DEF IsPlace, Hash
    <3>2. views.page = "list" /\ views.tenant = place.tenant => IsPlace(views)
      BY <1>0 DEF IsPlace, RowsInv
    <3> QED
      BY <3>1, <3>2
  <2> HIDE DEF h
  <2> QED
    BY <2>1, <2>2, MoveKeeps
<1>3. ASSUME NEW t \in Tenants, SelectEnterprise(t) PROVE RowsInv'
  <2>1. IsPlace(Hash(place.page, t, FirstQuery))
    BY <1>0, FirstIsQuery DEF IsPlace, Hash
  <2> QED
    BY <1>3, <2>1, MoveKeeps DEF SelectEnterprise
<1>4. ASSUME NEW q \in QuerySet, ChangeQuery(q) PROVE RowsInv'
  <2>1. IsPlace(Hash("list", place.tenant, q))
    BY <1>0 DEF IsPlace, Hash, QuerySet, IsQuery
  <2> QED
    BY <1>4, <2>1, MoveKeeps DEF ChangeQuery
<1>5. ASSUME NEW h \in [page: {"list", "other"}, tenant: Tenants, query: QuerySet], Browse(h) PROVE RowsInv'
  <2>1. IsPlace(h)
    BY DEF IsPlace, Hash, QuerySet, IsQuery
  <2> QED
    BY <1>5, <2>1, MoveKeeps DEF Browse
<1>6. ASSUME NEW id \in RowIds, Toggle(id) PROVE RowsInv'
  <2>1. /\ list # NoList /\ ~loading /\ rowsOf # NoList /\ Keep(list, picked')
        /\ UNCHANGED <<place, views, list, rowsOf, loading, loadError, loads, fetches>>
    BY <1>6 DEF Toggle
  <2>2. PickFits(picked', list.tenant, list.query.filter)
    <3>1. \/ picked' = NoPick
          \/ \E ids : picked' = [ids |-> ids, tenant |-> rowsOf.tenant, filter |-> rowsOf.query.filter,
                                 stale |-> picked.stale \/ loadError]
      BY <1>6 DEF Toggle
    <3>2. rowsOf.tenant = list.tenant /\ (~loadError => rowsOf = list)
      BY <2>1 DEF RowsInv, RowsAreCurrent
    <3>3. CASE picked' = NoPick
      BY <3>3, NoPickFits
    <3>4. ASSUME NEW ids, picked' = [ids |-> ids, tenant |-> rowsOf.tenant, filter |-> rowsOf.query.filter,
                                     stale |-> picked.stale \/ loadError]
          PROVE  PickFits(picked', list.tenant, list.query.filter)
      <4>1. picked'.tenant = list.tenant /\ picked'.filter = rowsOf.query.filter
        BY <3>2, <3>4
      <4>2. picked'.stale = (picked.stale \/ loadError)
        BY <3>4
      <4>3. ~picked'.stale => picked'.filter = list.query.filter
        BY <3>2, <4>1, <4>2
      <4> QED
        BY <4>1, <4>3 DEF PickFits
    <3> QED
      BY <3>1, <3>3, <3>4
  <2>3. list.tenant \in Tenants
    BY <2>1 DEF RowsInv, IsPlace
  <2>4. /\ selections' = [t \in Tenants |-> selections'[t]]
        /\ \A t \in Tenants : PickFits(selections'[t].pick, t, selections'[t].key)
    BY <2>1, <2>2, <2>3 DEF Keep, RowsInv
  <2> QED
    BY <2>1, <2>2, <2>4 DEF RowsInv, LoadsFit, RowsAreCurrent
<1>7. CASE RefreshRows
  <2>1. Reload(list) /\ UNCHANGED <<place, views, list, picked, selections, rowsOf>>
    BY <1>7 DEF RefreshRows
  <2>2. LoadsFit' /\ loading'
    BY <2>1, ReloadFits
  <2> QED
    BY <2>1, <2>2 DEF RowsInv, RowsAreCurrent
<1>8. ASSUME NEW f \in fetches, Loaded(f) PROVE RowsInv'
  <2>0. list # NoList /\ f.for = list /\ ~loadError' /\ UNCHANGED <<views, picked, selections>>
    BY <1>8 DEF Loaded, RowsInv, LoadsFit
  <2>1. CASE rowsOf' = f.for /\ loading' = FALSE /\ fetches' = fetches \ {f} /\ UNCHANGED <<place, list, loads>>
    BY <2>0, <2>1 DEF RowsInv, LoadsFit, RowsAreCurrent
  <2>2. CASE /\ rowsOf' = [f.for EXCEPT !.query.page = 1] /\ list' = rowsOf'
             /\ place' = [place EXCEPT !.query = list'.query]
             /\ loads' = loads + 1 /\ loading' = TRUE
             /\ fetches' = (fetches \ {f}) \cup {[seq |-> loads + 1, for |-> list']}
    <3>1. list' = [tenant |-> list.tenant, query |-> [filter |-> list.query.filter, page |-> 1]]
      BY <1>0, <2>0, <2>2 DEF IsList, IsQuery
    <3>2. IsList(list') /\ list'.tenant = list.tenant /\ list'.query.filter = list.query.filter
      BY <3>1 DEF IsList, IsQuery
    <3>3. IsPlace(place') /\ place'.tenant = place.tenant
      BY <1>0, <2>2, <3>2 DEF IsPlace, Hash, IsList
    <3>4. LoadsFit' /\ RowsAreCurrent'
      BY <2>2 DEF RowsInv, LoadsFit, RowsAreCurrent
    <3> QED
      BY <2>0, <2>2, <3>2, <3>3, <3>4 DEF RowsInv
  <2> QED
    BY <1>8, <2>1, <2>2 DEF Loaded
<1>9. ASSUME NEW f \in fetches, LoadFails(f) \/ LoadDropped(f) PROVE RowsInv'
  <2>1. /\ UNCHANGED <<place, views, list, picked, selections, rowsOf, loads>> /\ fetches' = fetches \ {f}
        /\ loadError' \/ UNCHANGED <<loading, loadError>>
    BY <1>9 DEF LoadFails, LoadDropped
  <2> QED
    BY <2>1 DEF RowsInv, LoadsFit, RowsAreCurrent
<1> QED
  BY <1>1, <1>2, <1>3, <1>4, <1>5, <1>6, <1>7, <1>8, <1>9 DEF RowsNext

-----------------------------------------------------------------------------
(* Their batches.  SubmissionsAreKept is not inductive: an answer may change
   what the list keeps long after the service said it.  So the invariant adds
   what a submission on its way claims already, that an answer stays true of
   the service until the list reads it, and that the list waits for the calls
   of one request only, so that nothing older is read.

   A record of the list's results, of the service's batches and of the network. *)
Statuses == {"none", "preview", "running", "finished", "gone", "interrupted"}
IsRow(s) == s = [id |-> s.id, status |-> s.status, items |-> s.items, done |-> s.done] /\ s.done \subseteq s.items
IsBatch(x) ==
  /\ x = [status |-> x.status, items |-> x.items, done |-> x.done, session |-> x.session,
          danger |-> x.danger, overtaken |-> x.overtaken]
  /\ x.done \subseteq x.items /\ x.session \in Nat
IsRead(c) == c.kind \in {"refreshed", "followed"}
IsCall(c) ==
  /\ c = [kind |-> c.kind, batch |-> c.batch, items |-> c.items, seq |-> c.seq, session |-> c.session, got |-> c.got]
  /\ c.kind \in {"preview", "execute", "refreshed", "followed"} /\ c.seq \in Nat \ {0} /\ c.items \subseteq Records

RowType == [id: Batches, status: Statuses, items: SUBSET Records, done: SUBSET Records]

(* The results of a list name each batch once, and only batches the service
   granted in the session ses. *)
Named(bs, b, ses) == b \in Batches /\ bs[b].status # "none" /\ bs[b].session = ses
Rows(bs, rs, ses) ==
  /\ rs \in Seq(RowType)
  /\ \A i, j \in 1..Len(rs) : rs[i].id = rs[j].id => i = j
  /\ \A i \in 1..Len(rs) : IsRow(rs[i]) /\ Named(bs, rs[i].id, ses)

(* Whatever was sent for execution may be, or has been, accepted. *)
Sent(cs, b) == \E c \in cs : c.kind = "execute" /\ c.batch = b /\ c.got.kind = "waiting"
HandedOver(bs, cs, b) ==
  bs[b].status \in {"running", "finished"} \/ (bs[b].status = "preview" /\ Sent(cs, b))
Claims(bs, cs, ses, b) == HandedOver(bs, cs, b) /\ bs[b].session = ses /\ ~bs[b].overtaken
KeptIn(rs, open, b) == \E i \in 1..Len(rs) : rs[i].id = b /\ (open = b \/ rs[i].status # "preview")

(* What an answer says stays true until the list reads it. *)
AnswerFits(bs, cs, c) ==
  /\ c.got.kind = "ok" => IsRow(c.got.snap) /\ c.got.snap.id = c.batch /\ c.got.snap.status \in Statuses
       /\ c.got.snap.items \subseteq Records
  /\ c.got.kind = "ok" /\ c.kind = "execute" => c.got.snap.status # "preview"
  /\ c.got.kind = "ok" /\ IsRead(c) /\ c.got.snap.status = "preview" /\ HandedOver(bs, cs, c.batch) =>
       bs[c.batch].overtaken
  /\ c.got.kind = "ok" /\ c.kind = "preview" => ~HandedOver(bs, cs, c.batch)
  /\ c.got.kind = "missing" /\ c.kind # "preview" => bs[c.batch].status = "gone"
  /\ c.got.kind = "rejected" /\ c.kind = "execute" => ~HandedOver(bs, cs, c.batch)
AnswersFit(bs, cs) == \A c \in cs : AnswerFits(bs, cs, c)

(* A call names a granted batch, unless it still asks for one. *)
CallNames(bs, c, ses, seq) ==
  c.kind # "preview" \/ c.got.kind = "ok" =>
    /\ c.batch \in Batches /\ bs[c.batch].status # "none"
    /\ c.seq = seq => bs[c.batch].session = ses
CallsName(bs, cs, ses, seq) == \A c \in cs : CallNames(bs, c, ses, seq)

(* The list waits for the calls of its newest request: one, or one read of
   each batch.  Of the others only executions are still on their way. *)
NewestCalls(cs, seq, req, on, open, ses) ==
  \A c \in cs :
    /\ IsCall(c) /\ c.seq <= seq
    /\ c.seq = seq => on /\ req = seq /\ c.session = ses /\ (c.kind = "preview" => ~open)
    /\ c.seq # seq => c.kind = "execute" /\ c.got.kind = "waiting"
OneRequest(cs, seq) ==
  \A c, d \in cs : c.seq = seq /\ d.seq = seq =>
    c = d \/ (IsRead(c) /\ IsRead(d) /\ c.kind = d.kind /\ c.batch # d.batch)

(* A step that grants, runs or forgets batches, and one that submits nothing. *)
Grown(bs, bt) ==
  \A b \in Batches : bs[b].status # "none" =>
    /\ bt[b].status # "none" /\ bt[b].session = bs[b].session
    /\ bs[b].overtaken => bt[b].overtaken
    /\ bs[b].status = "gone" => bt[b].status = "gone"
Tame(bs, cs, bt, ct) == Grown(bs, bt) /\ \A b \in Batches : HandedOver(bt, ct, b) => HandedOver(bs, cs, b)
BatchTypes(bs, ses) ==
  /\ bs = [b \in Batches |-> bs[b]]
  /\ \A b \in Batches : /\ IsBatch(bs[b]) /\ bs[b].session <= ses
                        /\ bs[b].items \subseteq Records /\ bs[b].status \in Statuses

ConsoleTypes ==
  /\ BatchTypes(batch, session)
  /\ session \in Nat /\ generation \in Nat /\ generation <= session /\ sequence \in Nat /\ request \in Nat
  /\ unconfirmed \in BOOLEAN /\ mounted \in BOOLEAN
  /\ saved = [results |-> saved.results, latest |-> saved.latest, unconfirmed |-> saved.unconfirmed]

(* What the list shows, and what it opens again. *)
ScreenFits ==
  /\ Rows(batch, snapshots, generation) /\ Rows(batch, saved.results, session)
  /\ current # 0 => Named(batch, current, generation)
  /\ unconfirmed => current # 0

CallsFit ==
  /\ NewestCalls(calls, sequence, request, mounted, unconfirmed, generation) /\ OneRequest(calls, sequence)
  /\ CallsName(batch, calls, generation, sequence) /\ AnswersFit(batch, calls)
ExpiriesFit == \A c \in calls : c.got.kind = "unauthorized" => session < MaxSessions \/ generation # session

KeptSaved == \A b \in Batches : Claims(batch, calls, session, b) => KeptIn(saved.results, saved.unconfirmed, b)
KeptShown ==
  mounted /\ generation = session =>
    \A b \in Batches : Claims(batch, calls, session, b) => KeptIn(snapshots, IF unconfirmed THEN current ELSE 0, b)

ConsInv == ConsoleTypes /\ ScreenFits /\ CallsFit /\ ExpiriesFit /\ KeptSaved /\ KeptShown

-----------------------------------------------------------------------------
(* The rows of a list. *)
LEMMA RowFound ==
  ASSUME NEW bs, NEW rs, NEW ses, Rows(bs, rs, ses)
  PROVE  /\ DOMAIN rs = 1..Len(rs) /\ Len(rs) \in Nat
         /\ \A b : FoundRow(rs, b) => ConsoleAt(rs, b) \in 1..Len(rs) /\ rs[ConsoleAt(rs, b)].id = b
         /\ \A i \in 1..Len(rs) : FoundRow(rs, rs[i].id) /\ ConsoleAt(rs, rs[i].id) = i
<1>1. DOMAIN rs = 1..Len(rs) /\ Len(rs) \in Nat
  BY DEF Rows
<1>2. \A b : FoundRow(rs, b) => ConsoleAt(rs, b) \in 1..Len(rs) /\ rs[ConsoleAt(rs, b)].id = b
  BY <1>1 DEF FoundRow, ConsoleAt
<1>3. \A i \in 1..Len(rs) : FoundRow(rs, rs[i].id)
  BY <1>1 DEF FoundRow
<1> QED
  BY <1>1, <1>2, <1>3 DEF Rows

(* remember() keeps the other rows where they are. *)
LEMMA RememberedRows ==
  ASSUME NEW bs, NEW rs, NEW ses, Rows(bs, rs, ses),
         NEW now, now \in RowType, IsRow(now), Named(bs, now.id, ses)
  PROVE  /\ Rows(bs, Remember(rs, now), ses)
         /\ \A i \in 1..Len(rs) : rs[i].id # now.id =>
              i \in 1..Len(Remember(rs, now)) /\ Remember(rs, now)[i] = rs[i]
         /\ \E i \in 1..Len(Remember(rs, now)) : Remember(rs, now)[i] = now
<1> DEFINE q == Remember(rs, now)
<1>1. rs \in Seq(RowType) /\ DOMAIN rs = 1..Len(rs) /\ Len(rs) \in Nat
  BY DEF Rows
<1>2. CASE FoundRow(rs, now.id)
  <2> DEFINE k == ConsoleAt(rs, now.id)
  <2>1. k \in 1..Len(rs) /\ rs[k].id = now.id
    BY <1>2, RowFound
  <2>2. q = [rs EXCEPT ![k] = now]
    BY <1>2 DEF Remember
  <2> HIDE DEF k, q
  <2>3. q \in Seq(RowType) /\ Len(q) = Len(rs)
    BY <1>1, <2>1, <2>2
  <2>4. \A i \in 1..Len(rs) : q[i] = IF i = k THEN now ELSE rs[i]
    BY <1>1, <2>1, <2>2
  <2>5. \A i \in 1..Len(rs) : q[i].id = rs[i].id
    BY <2>1, <2>4
  <2>6. \A i \in 1..Len(rs) : IsRow(q[i]) /\ Named(bs, q[i].id, ses)
    BY <2>1, <2>4 DEF Rows
  <2>7. Rows(bs, q, ses)
    BY <2>3, <2>5, <2>6 DEF Rows
  <2>8. \A i \in 1..Len(rs) : rs[i].id # now.id => i \in 1..Len(q) /\ q[i] = rs[i]
    BY <2>1, <2>3, <2>4
  <2>9. \E i \in 1..Len(q) : q[i] = now
    BY <2>1, <2>3, <2>4
  <2> QED
    BY <2>7, <2>8, <2>9 DEF q
<1>3. CASE ~FoundRow(rs, now.id)
  <2>1. q = Append(rs, now)
    BY <1>3 DEF Remember
  <2> HIDE DEF q
  <2>2. q \in Seq(RowType) /\ Len(q) = Len(rs) + 1
    BY <1>1, <2>1
  <2>3. q[Len(rs) + 1] = now /\ \A i \in 1..Len(rs) : q[i] = rs[i]
    BY <1>1, <2>1
  <2>4. \A i \in 1..Len(rs) : rs[i].id # now.id
    BY <1>1, <1>3 DEF FoundRow
  <2>5. \A i \in 1..Len(q) : i = Len(rs) + 1 \/ i \in 1..Len(rs)
    BY <1>1, <2>2
  <2>6. \A i \in 1..Len(q) : IsRow(q[i]) /\ Named(bs, q[i].id, ses)
    BY <2>3, <2>5 DEF Rows
  <2>7. \A i, j \in 1..Len(q) : q[i].id = q[j].id => i = j
    BY <2>3, <2>4, <2>5 DEF Rows
  <2>8. Rows(bs, q, ses)
    BY <2>2, <2>6, <2>7 DEF Rows
  <2>9. \A i \in 1..Len(rs) : i \in 1..Len(q)
    BY <1>1, <2>2
  <2>10. Len(rs) + 1 \in 1..Len(q)
    BY <1>1, <2>2
  <2> QED
    BY <2>3, <2>8, <2>9, <2>10 DEF q
<1> QED
  BY <1>2, <1>3

(* What the list keeps of the batches is kept by remember(); the batch itself is
   kept when it is open, or when its row says that it was started. *)
LEMMA RememberedIsKept ==
  ASSUME NEW bs, NEW rs, NEW ses, Rows(bs, rs, ses),
         NEW now, now \in RowType, IsRow(now), Named(bs, now.id, ses)
  PROVE  /\ \A b, o, p : KeptIn(rs, o, b) /\ b # now.id /\ (o = b => p = b) => KeptIn(Remember(rs, now), p, b)
         /\ KeptIn(Remember(rs, now), now.id, now.id)
         /\ now.status # "preview" => \A o : KeptIn(Remember(rs, now), o, now.id)
<1> DEFINE q == Remember(rs, now)
<1>1. /\ \A i \in 1..Len(rs) : rs[i].id # now.id => i \in 1..Len(q) /\ q[i] = rs[i]
      /\ \E i \in 1..Len(q) : q[i] = now
  BY RememberedRows
<1> HIDE DEF q
<1>2. \A b, o, p : KeptIn(rs, o, b) /\ b # now.id /\ (o = b => p = b) => KeptIn(q, p, b)
  BY <1>1 DEF KeptIn
<1>3. KeptIn(q, now.id, now.id)
  BY <1>1 DEF KeptIn
<1>4. now.status # "preview" => \A o : KeptIn(q, o, now.id)
  BY <1>1 DEF KeptIn
<1> QED
  BY <1>2, <1>3, <1>4 DEF q

(* The rows that are left when a batch is dropped. *)
LEMMA DroppedRows ==
  ASSUME NEW bs, NEW rs, NEW ses, Rows(bs, rs, ses), NEW b
  PROVE  /\ Rows(bs, Dropped(rs, b), ses)
         /\ \A c, o, p : KeptIn(rs, o, c) /\ c # b /\ (o = c => p = c) => KeptIn(Dropped(rs, b), p, c)
<1> DEFINE q == Dropped(rs, b)
<1>1. rs \in Seq(RowType) /\ DOMAIN rs = 1..Len(rs) /\ Len(rs) \in Nat
  BY DEF Rows
<1>2. CASE FoundRow(rs, b)
  <2> DEFINE k == ConsoleAt(rs, b)
             x == SubSeq(rs, 1, k - 1)
             y == SubSeq(rs, k + 1, Len(rs))
  <2>1. k \in 1..Len(rs) /\ rs[k].id = b
    BY <1>2, RowFound
  <2>0. k \in Int /\ Len(rs) \in Int /\ k <= Len(rs)
    BY <1>1, <2>1
  <2>2. q = x \o y
    BY <1>2 DEF Dropped, RemoveAt
  <2> HIDE DEF k
  <2>3. x \in Seq(RowType) /\ Len(x) = k - 1 /\ \A i \in 1..(k - 1) : x[i] = rs[i]
    BY <1>1, <2>1
  <2>4. y \in Seq(RowType) /\ Len(y) = Len(rs) - k /\ \A i \in 1..(Len(rs) - k) : y[i] = rs[k + i]
    <3>1. k + 1 \in Int /\ Len(rs) \in Int /\ \A i \in (k + 1)..Len(rs) : rs[i] \in RowType
      BY <1>1, <2>1
    <3>2. /\ y \in Seq(RowType) /\ Len(y) = IF k + 1 <= Len(rs) THEN Len(rs) - (k + 1) + 1 ELSE 0
          /\ \A i \in 1..(Len(rs) - (k + 1) + 1) : y[i] = rs[k + 1 + i - 1]
      BY ONLY <3>1, SubSeqProperties
    <3> HIDE DEF y
    <3>3. Len(y) = Len(rs) - k
      <4>1. CASE k = Len(rs)
        BY <1>1, <2>1, <3>2, <4>1
      <4>2. CASE k # Len(rs)
        <5>1. k + 1 <= Len(rs)
          BY ONLY <2>0, <4>2
        <5>2. Len(y) = Len(rs) - (k + 1) + 1
          BY <3>2, <5>1, Zenon
        <5> QED
          BY <1>1, <2>1, <5>2
      <4> QED
        BY <4>1, <4>2
    <3>4. Len(rs) - (k + 1) + 1 = Len(rs) - k /\ \A i \in 1..(Len(rs) - k) : k + 1 + i - 1 = k + i
      BY <1>1, <2>1
    <3> QED
      BY <3>2, <3>3, <3>4
  <2> HIDE DEF x, y, q
  <2>5. q \in Seq(RowType) /\ Len(q) = Len(rs) - 1
    <3>1. q \in Seq(RowType) /\ Len(q) = Len(x) + Len(y)
      BY <2>2, <2>3, <2>4, ConcatProperties
    <3> QED
      BY <1>1, <2>1, <2>3, <2>4, <3>1
  <2>6. \A i \in 1..(k - 1) : q[i] = rs[i]
    BY <1>1, <2>1, <2>2, <2>3, <2>4
  <2>7. \A i \in k..(Len(rs) - 1) : q[i] = rs[i + 1]
    <3> SUFFICES ASSUME NEW i \in k..(Len(rs) - 1) PROVE q[i] = rs[i + 1]
      OBVIOUS
    <3>1. i \in 1..(Len(x) + Len(y)) /\ ~(i <= Len(x)) /\ i - Len(x) \in 1..(Len(rs) - k)
      BY <1>1, <2>1, <2>3, <2>4
    <3>2. q[i] = y[i - Len(x)]
      BY <1>1, <2>1, <2>2, <2>3, <2>4, <3>1
    <3>3. k + (i - Len(x)) = i + 1
      BY <1>1, <2>1, <2>3
    <3> QED
      BY <2>4, <3>1, <3>2, <3>3
  <2>8. \A i \in 1..Len(q) : \/ i \in 1..(k - 1) /\ i \in 1..Len(rs) /\ q[i] = rs[i]
                             \/ i \in k..(Len(rs) - 1) /\ i + 1 \in 1..Len(rs) /\ q[i] = rs[i + 1]
    <3>1. \A i \in 1..Len(q) : \/ i \in 1..(k - 1) /\ i \in 1..Len(rs)
                               \/ i \in k..(Len(rs) - 1) /\ i + 1 \in 1..Len(rs)
      BY <1>1, <2>1, <2>5
    <3> QED
      BY <2>6, <2>7, <3>1
  <2>9. \A i \in 1..Len(q) : IsRow(q[i]) /\ Named(bs, q[i].id, ses)
    BY <2>8 DEF Rows
  <2>10. \A i, j \in 1..Len(q) : q[i].id = q[j].id => i = j
    <3> SUFFICES ASSUME NEW i \in 1..Len(q), NEW j \in 1..Len(q), q[i].id = q[j].id PROVE i = j
      OBVIOUS
    <3>1. \A m, n \in 1..Len(rs) : rs[m].id = rs[n].id => m = n
      BY DEF Rows
    <3>2. i \in Int /\ j \in Int /\ k \in Int
      BY <1>1, <2>1, <2>5
    <3> QED
      BY <2>8, <3>1, <3>2
  <2>11. Rows(bs, q, ses)
    BY <2>5, <2>9, <2>10 DEF Rows
  <2>12. \A i \in 1..Len(rs) : rs[i].id # b => \E j \in 1..Len(q) : q[j] = rs[i]
    <3> SUFFICES ASSUME NEW i \in 1..Len(rs), rs[i].id # b PROVE \E j \in 1..Len(q) : q[j] = rs[i]
      OBVIOUS
    <3>1. i # k
      BY <2>1
    <3>2. CASE i < k
      <4>1. i \in 1..(k - 1) /\ i \in 1..Len(q)
        BY <1>1, <2>1, <2>5, <3>2
      <4> QED
        BY <2>6, <4>1
    <3>3. CASE i > k
      <4>1. i - 1 \in k..(Len(rs) - 1) /\ i - 1 \in 1..Len(q) /\ (i - 1) + 1 = i
        BY <1>1, <2>1, <2>5, <3>3
      <4> QED
        BY <2>7, <4>1
    <3> QED
      BY <1>1, <2>1, <3>1, <3>2, <3>3
  <2>13. \A c, o, p : KeptIn(rs, o, c) /\ c # b /\ (o = c => p = c) => KeptIn(q, p, c)
    BY <2>12 DEF KeptIn
  <2> QED
    BY <2>11, <2>13 DEF q
<1>3. CASE ~FoundRow(rs, b)
  <2>1. q = rs
    BY <1>3 DEF Dropped
  <2> HIDE DEF q
  <2>2. \A c, o, p : KeptIn(rs, o, c) /\ c # b /\ (o = c => p = c) => KeptIn(q, p, c)
    BY <2>1 DEF KeptIn
  <2> QED
    BY <2>1, <2>2 DEF q
<1> QED
  BY <1>2, <1>3

-----------------------------------------------------------------------------
(* What a step that submits nothing leaves as it was. *)
LEMMA GrownRows ==
  ASSUME NEW bs, NEW bt, Grown(bs, bt), NEW rs, NEW ses, Rows(bs, rs, ses)
  PROVE  Rows(bt, rs, ses)
BY DEF Rows, Named, Grown

LEMMA GrownNames ==
  ASSUME NEW bs, NEW bt, Grown(bs, bt), NEW cs, NEW ses, NEW seq, CallsName(bs, cs, ses, seq)
  PROVE  CallsName(bt, cs, ses, seq)
BY DEF CallsName, CallNames, Grown

LEMMA ClaimsStay ==
  ASSUME NEW bs, NEW cs, NEW bt, NEW ct, Tame(bs, cs, bt, ct), NEW ses, NEW b \in Batches, Claims(bt, ct, ses, b)
  PROVE  Claims(bs, cs, ses, b)
BY DEF Tame, Grown, Claims, HandedOver

LEMMA AnswerStays ==
  ASSUME NEW bs, NEW cs, NEW bt, NEW ct, Tame(bs, cs, bt, ct),
         NEW c, NEW ses, NEW seq, AnswerFits(bs, cs, c), CallNames(bs, c, ses, seq)
  PROVE  AnswerFits(bt, ct, c)
<1>1. c.kind # "preview" \/ c.got.kind = "ok" => c.batch \in Batches /\ bs[c.batch].status # "none"
  BY DEF CallNames
<1>2. IsRead(c) => c.kind # "preview"
  BY DEF IsRead
<1>3. c.batch \in Batches /\ bs[c.batch].status # "none" =>
        /\ bs[c.batch].overtaken => bt[c.batch].overtaken
        /\ bs[c.batch].status = "gone" => bt[c.batch].status = "gone"
        /\ HandedOver(bt, ct, c.batch) => HandedOver(bs, cs, c.batch)
  BY DEF Tame, Grown
<1> QED
  BY <1>1, <1>2, <1>3 DEF AnswerFits

(* Some calls end, and at most one of the newest is answered. *)
LEMMA FewerCalls ==
  ASSUME CallsFit, NEW ct, ct \subseteq calls, NEW bt, Tame(batch, calls, bt, ct)
  PROVE  /\ NewestCalls(ct, sequence, request, mounted, unconfirmed, generation) /\ OneRequest(ct, sequence)
         /\ CallsName(bt, ct, generation, sequence) /\ AnswersFit(bt, ct)
<1>1. NewestCalls(ct, sequence, request, mounted, unconfirmed, generation)
  BY DEF CallsFit, NewestCalls
<1>2. OneRequest(ct, sequence)
  BY DEF CallsFit, OneRequest
<1>3. CallsName(bt, ct, generation, sequence)
  BY DEF CallsFit, CallsName, CallNames, Tame, Grown
<1>4. AnswersFit(bt, ct)
  BY AnswerStays DEF CallsFit, CallsName, AnswersFit
<1> QED
  BY <1>1, <1>2, <1>3, <1>4

LEMMA OneAnswer ==
  ASSUME CallsFit, NEW c \in calls, c.seq = sequence,
         NEW d, IsCall(d), d.kind = c.kind, d.seq = c.seq, d.session = c.session, IsRead(c) => d.batch = c.batch,
         NEW ct, ct = (calls \ {c}) \cup {d}, NEW bt, Tame(batch, calls, bt, ct),
         CallNames(bt, d, generation, sequence), AnswerFits(bt, ct, d)
  PROVE  /\ NewestCalls(ct, sequence, request, mounted, unconfirmed, generation) /\ OneRequest(ct, sequence)
         /\ CallsName(bt, ct, generation, sequence) /\ AnswersFit(bt, ct)
<1>1. NewestCalls(ct, sequence, request, mounted, unconfirmed, generation)
  BY DEF CallsFit, NewestCalls
<1>2. OneRequest(ct, sequence)
  <2> SUFFICES ASSUME NEW x \in ct, NEW y \in ct, x.seq = sequence, y.seq = sequence, x # y
               PROVE  IsRead(x) /\ IsRead(y) /\ x.kind = y.kind /\ x.batch # y.batch
    BY DEF OneRequest
  <2>0. \A u, v \in calls : u.seq = sequence /\ v.seq = sequence =>
          u = v \/ (IsRead(u) /\ IsRead(v) /\ u.kind = v.kind /\ u.batch # v.batch)
    BY DEF CallsFit, OneRequest
  <2>1. IsRead(d) <=> IsRead(c)
    BY DEF IsRead
  <2>2. CASE x \in calls /\ y \in calls
    BY <2>0, <2>2
  <2>3. CASE x = d /\ y \in calls /\ y # c
    <3>1. IsRead(c) /\ IsRead(y) /\ c.kind = y.kind /\ c.batch # y.batch
      BY <2>0, <2>3
    <3> QED
      BY <2>1, <2>3, <3>1
  <2>4. CASE y = d /\ x \in calls /\ x # c
    <3>1. IsRead(c) /\ IsRead(x) /\ c.kind = x.kind /\ c.batch # x.batch
      BY <2>0, <2>4
    <3> QED
      BY <2>1, <2>4, <3>1
  <2> QED
    BY <2>2, <2>3, <2>4
<1>3. CallsName(bt, ct, generation, sequence)
  <2> SUFFICES ASSUME NEW x \in calls, x # c PROVE CallNames(bt, x, generation, sequence)
    BY DEF CallsName
  <2>1. CallNames(batch, x, generation, sequence)
    BY DEF CallsFit, CallsName
  <2> QED
    BY <2>1 DEF CallNames, Tame, Grown
<1>4. AnswersFit(bt, ct)
  <2> SUFFICES ASSUME NEW x \in calls, x # c PROVE AnswerFits(bt, ct, x)
    BY DEF AnswersFit
  <2> QED
    BY AnswerStays DEF CallsFit, CallsName, AnswersFit
<1> QED
  BY <1>1, <1>2, <1>3, <1>4

(* A step of the service or of the network keeps what the page knows. *)
LEMMA NetworkKeeps ==
  ASSUME ConsInv, UNCHANGED <<pageVars, hookVars>>, BatchTypes(batch', session),
         Tame(batch, calls, batch', calls'), ExpiriesFit',
         /\ NewestCalls(calls', sequence, request, mounted, unconfirmed, generation) /\ OneRequest(calls', sequence)
         /\ CallsName(batch', calls', generation, sequence) /\ AnswersFit(batch', calls')
  PROVE  ConsInv'
<1>0. UNCHANGED <<session, mounted, generation, saved, current, snapshots, unconfirmed, sequence, request>>
  BY DEF pageVars, hookVars
<1>1. ConsoleTypes'
  BY <1>0 DEF ConsInv, ConsoleTypes
<1>2. ScreenFits'
  <2>1. Grown(batch, batch')
    BY DEF Tame
  <2>2. Rows(batch', snapshots, generation) /\ Rows(batch', saved.results, session)
    BY <2>1, GrownRows DEF ConsInv, ScreenFits
  <2>3. current # 0 => Named(batch', current, generation)
    BY <2>1 DEF ConsInv, ScreenFits, Named, Grown
  <2> QED
    BY <1>0, <2>2, <2>3 DEF ConsInv, ScreenFits
<1>3. CallsFit'
  BY <1>0 DEF CallsFit
<1>4. \A b \in Batches : Claims(batch', calls', session, b) => Claims(batch, calls, session, b)
  BY ClaimsStay
<1>5. KeptSaved'
  BY <1>0, <1>4 DEF ConsInv, KeptSaved
<1>6. KeptShown'
  BY <1>0, <1>4 DEF ConsInv, KeptShown
<1> QED
  BY <1>1, <1>2, <1>3, <1>5, <1>6 DEF ConsInv

-----------------------------------------------------------------------------
(* The service and the network. *)
LEMMA ItemDoneKeeps ==
  ASSUME ConsInv, NEW b \in Batches, NEW r \in Records, ItemDone(b, r)
  PROVE  ConsInv'
<1>1. /\ r \in batch[b].items /\ UNCHANGED <<pageVars, hookVars, calls>>
      /\ batch' = [batch EXCEPT ![b].done = @ \cup {r}]
  BY DEF ItemDone
<1>2. BatchTypes(batch, session) /\ CallsFit /\ ExpiriesFit
  BY DEF ConsInv, ConsoleTypes
<1>3. /\ batch' = [x \in Batches |-> batch'[x]]
      /\ \A x \in Batches : x # b => batch'[x] = batch[x]
      /\ batch'[b] = [status |-> batch[b].status, items |-> batch[b].items, done |-> batch[b].done \cup {r},
                      session |-> batch[b].session, danger |-> batch[b].danger, overtaken |-> batch[b].overtaken]
  <2>1. batch = [x \in Batches |-> batch[x]] /\ IsBatch(batch[b])
    BY <1>2 DEF BatchTypes
  <2>2. batch' = [batch EXCEPT ![b] = [batch[b] EXCEPT !.done = batch[b].done \cup {r}]]
    BY <1>1
  <2>3. batch'[b] = [batch[b] EXCEPT !.done = batch[b].done \cup {r}]
    BY <2>1, <2>2
  <2>4. batch' = [x \in Batches |-> batch'[x]] /\ \A x \in Batches : x # b => batch'[x] = batch[x]
    BY <2>1, <2>2
  <2>5. batch[b] = [status |-> batch[b].status, items |-> batch[b].items, done |-> batch[b].done,
                    session |-> batch[b].session, danger |-> batch[b].danger, overtaken |-> batch[b].overtaken]
    BY <2>1 DEF IsBatch
  <2> QED
    BY <2>3, <2>4, <2>5
<1>4. BatchTypes(batch', session)
  <2>1. \A x \in Batches : x # b => /\ IsBatch(batch'[x]) /\ batch'[x].session <= session
                                   /\ batch'[x].items \subseteq Records /\ batch'[x].status \in Statuses
    BY <1>2, <1>3 DEF BatchTypes
  <2>2. /\ IsBatch(batch[b]) /\ batch[b].session <= session
        /\ batch[b].items \subseteq Records /\ batch[b].status \in Statuses
    BY <1>2 DEF BatchTypes
  <2>3. /\ batch'[b].status = batch[b].status /\ batch'[b].items = batch[b].items
        /\ batch'[b].session = batch[b].session /\ batch'[b].done = batch[b].done \cup {r}
        /\ batch'[b].danger = batch[b].danger /\ batch'[b].overtaken = batch[b].overtaken
    BY <1>3
  <2>4. batch'[b].done \subseteq batch'[b].items /\ batch'[b].session \in Nat
    BY <1>1, <2>2, <2>3 DEF IsBatch
  <2>5. IsBatch(batch'[b])
    BY <1>3, <2>3, <2>4 DEF IsBatch
  <2> QED
    BY <1>3, <2>1, <2>2, <2>3, <2>5 DEF BatchTypes
<1>5. Tame(batch, calls, batch', calls')
  BY <1>1, <1>3 DEF Tame, Grown, HandedOver
<1>6. ExpiriesFit'
  BY <1>1, <1>2 DEF ExpiriesFit, pageVars
<1> QED
  BY <1>1, <1>2, <1>4, <1>5, <1>6, FewerCalls, NetworkKeeps

(* The status of one batch moves on. *)
LEMMA StatusKeeps ==
  ASSUME ConsInv, NEW b \in Batches, NEW status \in Statuses \ {"none"}, batch' = [batch EXCEPT ![b].status = status],
         UNCHANGED <<pageVars, hookVars, calls>>,
         status = "gone" \/ (status = "finished" /\ batch[b].status = "running")
  PROVE  ConsInv'
<1>2. BatchTypes(batch, session) /\ CallsFit /\ ExpiriesFit
  BY DEF ConsInv, ConsoleTypes
<1>3. /\ batch' = [x \in Batches |-> batch'[x]]
      /\ \A x \in Batches : x # b => batch'[x] = batch[x]
      /\ batch'[b] = [status |-> status, items |-> batch[b].items, done |-> batch[b].done,
                      session |-> batch[b].session, danger |-> batch[b].danger, overtaken |-> batch[b].overtaken]
  BY <1>2 DEF BatchTypes, IsBatch
<1>4. BatchTypes(batch', session)
  BY <1>2, <1>3 DEF BatchTypes, IsBatch
<1>5. Tame(batch, calls, batch', calls')
  <2>1. batch'[b].status = status /\ status # "none"
    BY <1>3
  <2> QED
    BY <1>3, <2>1 DEF Tame, Grown, HandedOver
<1>6. ExpiriesFit'
  BY <1>2 DEF ExpiriesFit, pageVars
<1> QED
  BY <1>2, <1>4, <1>5, <1>6, FewerCalls, NetworkKeeps

LEMMA ServiceKeeps ==
  ASSUME ConsInv, NEW b \in Batches, BatchEnds(b) \/ Forgotten(b) \/ \E r \in Records : ItemDone(b, r)
  PROVE  ConsInv'
<1>1. CASE BatchEnds(b)
  BY <1>1, StatusKeeps DEF BatchEnds, Statuses
<1>2. CASE Forgotten(b)
  BY <1>2, StatusKeeps DEF Forgotten, Statuses
<1> QED
  BY <1>1, <1>2, ItemDoneKeeps

LEMMA SentLess ==
  ASSUME NEW cs, NEW c, NEW d, d.got.kind # "waiting", NEW ct, ct \subseteq (cs \ {c}) \cup {d}, NEW b, Sent(ct, b)
  PROVE  Sent(cs, b)
BY DEF Sent

(* A call that is answered keeps what it asked. *)
LEMMA AnsweredFields ==
  ASSUME NEW c, IsCall(c), NEW a
  PROVE  LET d == [c EXCEPT !.got = a] IN
         IsCall(d) /\ d.kind = c.kind /\ d.seq = c.seq /\ d.session = c.session /\ d.batch = c.batch /\ d.got = a
BY DEF IsCall

(* An answer reaches the list, unless the list no longer waits for it. *)
LEMMA AnsweredKeeps ==
  ASSUME ConsInv, UNCHANGED <<pageVars, hookVars>>, NEW c \in calls, NEW a, AnsweredCall(c, a), a.kind # "waiting",
         BatchTypes(batch', session), Grown(batch, batch'),
         \A b \in Batches : HandedOver(batch', calls', b) => HandedOver(batch, calls, b),
         c.seq = sequence => /\ CallNames(batch', [c EXCEPT !.got = a], generation, sequence)
                             /\ AnswerFits(batch', calls', [c EXCEPT !.got = a])
                             /\ a.kind = "unauthorized" => session < MaxSessions
  PROVE  ConsInv'
<1> DEFINE d == [c EXCEPT !.got = a]
<1>1. CallsFit /\ ExpiriesFit /\ IsCall(c) /\ (c.seq = sequence => mounted)
  BY DEF ConsInv, CallsFit, NewestCalls
<1>2. Tame(batch, calls, batch', calls')
  BY DEF Tame
<1>3. CASE c.seq = sequence
  <2>1. calls' = (calls \ {c}) \cup {d}
    BY <1>1, <1>3 DEF AnsweredCall, IsCurrent
  <2>2. IsCall(d) /\ d.kind = c.kind /\ d.seq = c.seq /\ d.session = c.session /\ d.batch = c.batch /\ d.got = a
    BY <1>1, AnsweredFields
  <2>3. /\ CallNames(batch', d, generation, sequence) /\ AnswerFits(batch', calls', d)
        /\ a.kind = "unauthorized" => session < MaxSessions
    BY <1>3
  <2> HIDE DEF d
  <2>4. ExpiriesFit'
    BY <1>1, <2>1, <2>2, <2>3 DEF ExpiriesFit, pageVars
  <2> QED
    BY <1>1, <1>2, <1>3, <2>1, <2>2, <2>3, <2>4, OneAnswer, NetworkKeeps
<1>4. CASE c.seq # sequence
  <2>1. calls' \subseteq calls
    BY <1>4 DEF AnsweredCall, IsCurrent
  <2>2. ExpiriesFit'
    BY <1>1, <2>1 DEF ExpiriesFit, pageVars
  <2> QED
    BY <1>1, <1>2, <2>1, <2>2, FewerCalls, NetworkKeeps
<1> QED
  BY <1>3, <1>4

LEMMA AnsweredSent ==
  ASSUME NEW c, IsCall(c), NEW a, a.kind # "waiting", AnsweredCall(c, a), NEW b, Sent(calls', b)
  PROVE  Sent(calls, b)
<1> DEFINE d == [c EXCEPT !.got = a]
<1>1. d.got.kind # "waiting"
  BY AnsweredFields
<1>2. calls' \subseteq (calls \ {c}) \cup {d}
  BY DEF AnsweredCall
<1> HIDE DEF d
<1> QED
  BY <1>1, <1>2, SentLess

LEMMA SnapshotIsRow ==
  ASSUME BatchTypes(batch, session), NEW b \in Batches
  PROVE  /\ Snapshot(b) = [id |-> b, status |-> batch[b].status, items |-> batch[b].items, done |-> batch[b].done]
         /\ batch[b].done \subseteq batch[b].items /\ batch[b].items \subseteq Records /\ batch[b].status \in Statuses
BY DEF Snapshot, BatchTypes, IsBatch

LEMMA AcceptKeeps ==
  ASSUME ConsInv, NEW c \in calls, AcceptExecute(c)
  PROVE  ConsInv'
<1> DEFINE b == c.batch
           snap == [Snapshot(b) EXCEPT !.status = batch'[b].status]
           a == [kind |-> "ok", snap |-> snap]
           d == [c EXCEPT !.got = a]
<1>1. /\ c.kind = "execute" /\ c.got.kind = "waiting" /\ batch[b].status # "gone"
      /\ batch' = [batch EXCEPT ![b].status = IF batch[b].status = "preview" THEN "running" ELSE batch[b].status]
      /\ AnsweredCall(c, a) /\ UNCHANGED <<pageVars, hookVars>>
  BY DEF AcceptExecute
<1>2. BatchTypes(batch, session) /\ CallsFit /\ IsCall(c) /\ b \in Batches /\ batch[b].status # "none"
  BY <1>1 DEF ConsInv, ConsoleTypes, CallsFit, NewestCalls, CallsName, CallNames
<1>3. /\ batch' = [x \in Batches |-> batch'[x]]
      /\ \A x \in Batches : x # b => batch'[x] = batch[x]
      /\ batch'[b] = [status |-> IF batch[b].status = "preview" THEN "running" ELSE batch[b].status,
                      items |-> batch[b].items, done |-> batch[b].done,
                      session |-> batch[b].session, danger |-> batch[b].danger, overtaken |-> batch[b].overtaken]
  BY <1>1, <1>2 DEF BatchTypes, IsBatch
<1>4. batch'[b].status \in Statuses /\ batch'[b].status # "none" /\ batch'[b].status # "preview"
  BY <1>2, <1>3 DEF BatchTypes, Statuses
<1>5. BatchTypes(batch', session)
  <2>1. \A x \in Batches : x # b => /\ IsBatch(batch'[x]) /\ batch'[x].session <= session
                                   /\ batch'[x].items \subseteq Records /\ batch'[x].status \in Statuses
    BY <1>2, <1>3 DEF BatchTypes
  <2>2. IsBatch(batch[b]) /\ batch[b].session <= session /\ batch[b].items \subseteq Records
    BY <1>2 DEF BatchTypes
  <2>3. /\ batch'[b].items = batch[b].items
        /\ batch'[b].session = batch[b].session /\ batch'[b].done = batch[b].done
        /\ batch'[b].danger = batch[b].danger /\ batch'[b].overtaken = batch[b].overtaken
    BY <1>3
  <2>4. batch'[b].status = IF batch[b].status = "preview" THEN "running" ELSE batch[b].status
    BY <1>3
  <2>5. IsBatch(batch'[b])
    BY <1>3, <2>2, <2>3, <2>4 DEF IsBatch
  <2> QED
    BY <1>3, <1>4, <2>1, <2>2, <2>3, <2>5 DEF BatchTypes
<1>6. a.kind = "ok" /\ a.kind # "waiting" /\ a.snap = snap
  OBVIOUS
<1>7. /\ snap.id = b /\ snap.status = batch'[b].status /\ snap.items = batch[b].items
      /\ IsRow(snap) /\ snap.items \subseteq Records
  BY <1>2, SnapshotIsRow DEF IsRow
<1> HIDE DEF snap, a, b
<1>8. Grown(batch, batch')
  BY <1>1, <1>3, <1>4 DEF Grown
<1>9. \A x \in Batches : HandedOver(batch', calls', x) => HandedOver(batch, calls, x)
  <2>1. \A x : Sent(calls', x) => Sent(calls, x)
    BY <1>1, <1>2, <1>6, AnsweredSent
  <2>2. Sent(calls, b)
    BY <1>1 DEF Sent, b
  <2>3. batch'[b].status = IF batch[b].status = "preview" THEN "running" ELSE batch[b].status
    BY <1>3
  <2> QED
    BY <1>3, <2>1, <2>2, <2>3 DEF HandedOver
<1>10. /\ d.kind = "execute" /\ d.seq = c.seq /\ d.batch = b /\ d.got = a
  BY <1>1, <1>2, AnsweredFields DEF b
<1> HIDE DEF d
<1>11. CallNames(batch', d, generation, sequence) \/ c.seq # sequence
  BY <1>2, <1>8, <1>10, <1>1 DEF CallsFit, CallsName, CallNames, Grown, b
<1>12. AnswerFits(batch', calls', d)
  BY <1>4, <1>6, <1>7, <1>10 DEF AnswerFits, IsRead
<1> QED
  BY <1>1, <1>5, <1>6, <1>8, <1>9, <1>11, <1>12, AnsweredKeeps DEF d

LEMMA AnswerReadKeeps ==
  ASSUME ConsInv, NEW c \in calls, AnswerRead(c)
  PROVE  ConsInv'
<1> DEFINE b == c.batch
           a == Reply(c, "ok")
           d == [c EXCEPT !.got = a]
           late == \E e \in calls : e.kind = "execute" /\ e.batch = b /\ e.got.kind = "waiting"
<1>1. /\ IsRead(c) /\ c.got.kind = "waiting" /\ batch[b].status # "gone"
      /\ batch' = [batch EXCEPT ![b] = [batch[b] EXCEPT !.overtaken = batch[b].overtaken \/ late]]
      /\ AnsweredCall(c, a) /\ UNCHANGED <<pageVars, hookVars>>
  BY DEF AnswerRead, IsRead
<1>2. BatchTypes(batch, session) /\ CallsFit /\ IsCall(c) /\ b \in Batches /\ batch[b].status # "none"
  BY <1>1 DEF ConsInv, ConsoleTypes, CallsFit, NewestCalls, CallsName, CallNames, IsRead
<1>2a. late <=> Sent(calls, b)
  BY DEF Sent
<1> HIDE DEF late
<1>3. /\ batch' = [x \in Batches |-> batch'[x]]
      /\ \A x \in Batches : x # b => batch'[x] = batch[x]
      /\ batch'[b] = [batch[b] EXCEPT !.overtaken = batch[b].overtaken \/ late]
  BY <1>1, <1>2 DEF BatchTypes
<1>4. IsBatch(batch[b]) /\ batch[b].session <= session /\ batch[b].items \subseteq Records /\ batch[b].status \in Statuses
  BY <1>2 DEF BatchTypes
<1>5. batch'[b] = [status |-> batch[b].status, items |-> batch[b].items, done |-> batch[b].done,
                   session |-> batch[b].session, danger |-> batch[b].danger,
                   overtaken |-> batch[b].overtaken \/ late]
  BY <1>3, <1>4 DEF IsBatch
<1>6. /\ batch'[b].status = batch[b].status /\ batch'[b].items = batch[b].items
      /\ batch'[b].session = batch[b].session /\ batch'[b].done = batch[b].done
      /\ batch'[b].danger = batch[b].danger /\ batch'[b].overtaken = (batch[b].overtaken \/ late)
  BY <1>5
<1>7. BatchTypes(batch', session)
  <2>1. \A x \in Batches : x # b => /\ IsBatch(batch'[x]) /\ batch'[x].session <= session
                                   /\ batch'[x].items \subseteq Records /\ batch'[x].status \in Statuses
    BY <1>2, <1>3 DEF BatchTypes
  <2>2. batch'[b] = [status |-> batch'[b].status, items |-> batch'[b].items, done |-> batch'[b].done,
                   session |-> batch'[b].session, danger |-> batch'[b].danger,
                   overtaken |-> batch'[b].overtaken]
    BY <1>5
  <2>3. IsBatch(batch'[b])
    BY <1>4, <1>6, <2>2 DEF IsBatch
  <2> QED
    BY <1>3, <1>4, <1>6, <2>1, <2>3 DEF BatchTypes
<1>8. a = [kind |-> "ok", snap |-> Snapshot(b)]
  BY DEF Reply
<1>9. a.kind = "ok" /\ a.kind # "waiting" /\ a.snap = Snapshot(b)
  BY <1>8
<1>10. LET snap == Snapshot(b) IN
       /\ snap.id = b /\ snap.status = batch[b].status /\ snap.items \subseteq Records /\ IsRow(snap)
  BY <1>2, SnapshotIsRow DEF IsRow
<1> HIDE DEF a, b
<1>11. Grown(batch, batch')
  BY <1>3, <1>6 DEF Grown
<1>12. \A x : Sent(calls', x) => Sent(calls, x)
  BY <1>1, <1>2, <1>9, AnsweredSent
<1>13. \A x \in Batches : HandedOver(batch', calls', x) => HandedOver(batch, calls, x)
  BY <1>3, <1>6, <1>12 DEF HandedOver
<1>14. d.kind = c.kind /\ d.seq = c.seq /\ d.batch = b /\ d.got = a
  BY <1>1, <1>2, AnsweredFields DEF b
<1> HIDE DEF d
<1>15. CallNames(batch', d, generation, sequence) \/ c.seq # sequence
  BY <1>2, <1>11, <1>14, <1>1 DEF CallsFit, CallsName, CallNames, Grown, b, IsRead
<1>16. batch[b].status = "preview" /\ HandedOver(batch', calls', b) => batch'[b].overtaken
  BY <1>2a, <1>6, <1>12 DEF HandedOver
<1>17. AnswerFits(batch', calls', d)
  BY <1>1, <1>4, <1>9, <1>10, <1>14, <1>16 DEF AnswerFits, IsRead
<1> QED
  BY <1>1, <1>7, <1>9, <1>11, <1>13, <1>15, <1>17, AnsweredKeeps DEF d

(* A call is refused, or its answer is lost: nothing is granted or started. *)
LEMMA UnansweredKeeps ==
  ASSUME ConsInv, NEW c \in calls, Refused(c) \/ Lost(c)
  PROVE  ConsInv'
<1>1. PICK kind \in {"missing", "rejected", "unauthorized", "lost"} :
        /\ AnsweredCall(c, [kind |-> kind, snap |-> [id |-> c.batch]])
        /\ kind = "missing" => c.kind # "preview" /\ batch[c.batch].status = "gone"
        /\ kind = "rejected" /\ c.kind = "execute" =>
             batch[c.batch].status = "preview" /\ \A e \in calls \ {c} : e.batch # c.batch
        /\ kind = "unauthorized" => session < MaxSessions
  BY DEF Refused, Lost
<1>2. UNCHANGED <<pageVars, hookVars, batch>>
  BY DEF Refused, Lost, serverVars
<1> DEFINE a == [kind |-> kind, snap |-> [id |-> c.batch]]
           d == [c EXCEPT !.got = a]
<1>3. BatchTypes(batch, session) /\ CallsFit /\ IsCall(c)
  BY DEF ConsInv, ConsoleTypes, CallsFit, NewestCalls
<1>4. a.kind = kind /\ AnsweredCall(c, a)
  BY <1>1
<1> HIDE DEF a
<1>5. a.kind # "waiting" /\ a.kind # "ok"
  BY <1>4
<1>6. d.kind = c.kind /\ d.seq = c.seq /\ d.batch = c.batch /\ d.got = a
  BY <1>3, AnsweredFields
<1>7. \A x : Sent(calls', x) => Sent(calls, x)
  BY <1>3, <1>4, <1>5, AnsweredSent
<1>8. \A x \in Batches : HandedOver(batch', calls', x) => HandedOver(batch, calls, x)
  BY <1>2, <1>7 DEF HandedOver
<1>9. Grown(batch, batch') /\ BatchTypes(batch', session)
  BY <1>2, <1>3 DEF Grown
<1>10. kind = "rejected" /\ c.kind = "execute" => ~HandedOver(batch', calls', c.batch)
  <2>1. SUFFICES ASSUME kind = "rejected", c.kind = "execute", HandedOver(batch', calls', c.batch) PROVE FALSE
    OBVIOUS
  <2>2. Sent(calls', c.batch)
    BY <1>1, <1>2, <2>1 DEF HandedOver
  <2>3. PICK e \in calls' : e.kind = "execute" /\ e.batch = c.batch /\ e.got.kind = "waiting"
    BY <2>2 DEF Sent
  <2>4. e = d \/ e \in calls \ {c}
    BY <1>4 DEF AnsweredCall
  <2> QED
    BY <1>1, <1>5, <1>6, <2>1, <2>3, <2>4
<1> HIDE DEF d
<1>11. CallNames(batch', d, generation, sequence)
  BY <1>2, <1>3, <1>5, <1>6 DEF CallsFit, CallsName, CallNames
<1>12. AnswerFits(batch', calls', d)
  BY <1>1, <1>2, <1>4, <1>5, <1>6, <1>10 DEF AnswerFits
<1> QED
  BY <1>1, <1>2, <1>4, <1>5, <1>8, <1>9, <1>11, <1>12, AnsweredKeeps DEF d

LEMMA GrantKeeps ==
  ASSUME ConsInv, NEW c \in calls, GrantPreview(c)
  PROVE  ConsInv'
<1>1. PICK b \in Batches, skipped \in {{}, c.items}, danger \in BOOLEAN :
        /\ batch[b].status = "none"
        /\ batch' = [batch EXCEPT ![b] =
             [NoBatch EXCEPT !.status = "preview", !.items = c.items, !.done = skipped,
                             !.session = c.session, !.danger = danger]]
        /\ calls' = (calls \ {c}) \cup
             {[c EXCEPT !.batch = b,
                        !.got = [kind |-> "ok",
                                 snap |-> [id |-> b, status |-> "preview",
                                           items |-> c.items, done |-> skipped]]]}
  BY DEF GrantPreview
<1>2. c.kind = "preview" /\ c.got.kind = "waiting" /\ UNCHANGED <<pageVars, hookVars>>
  BY DEF GrantPreview
<1>3. /\ BatchTypes(batch, session) /\ CallsFit /\ ExpiriesFit /\ IsCall(c) /\ c.seq = sequence /\ c.session = generation
      /\ generation \in Nat /\ generation <= session
  BY <1>2 DEF ConsInv, ConsoleTypes, CallsFit, NewestCalls
<1> DEFINE snap == [id |-> b, status |-> "preview", items |-> c.items, done |-> skipped]
           a == [kind |-> "ok", snap |-> snap]
           d == [c EXCEPT !.batch = b, !.got = a]
<1>4. batch'[b] = [status |-> "preview", items |-> c.items, done |-> skipped, session |-> c.session,
                   danger |-> danger, overtaken |-> FALSE]
  BY <1>1, <1>3 DEF NoBatch, BatchTypes
<1>5. batch' = [x \in Batches |-> batch'[x]] /\ \A x \in Batches : x # b => batch'[x] = batch[x]
  BY <1>1, <1>3 DEF BatchTypes
<1>6. BatchTypes(batch', session)
  <2>1. \A x \in Batches : x # b => /\ IsBatch(batch'[x]) /\ batch'[x].session <= session
                                   /\ batch'[x].items \subseteq Records /\ batch'[x].status \in Statuses
    BY <1>3, <1>5 DEF BatchTypes
  <2>2. c.items \subseteq Records /\ skipped \subseteq c.items
    BY <1>3 DEF IsCall
  <2>3. /\ batch'[b].status = "preview" /\ batch'[b].items = c.items /\ batch'[b].done = skipped
        /\ batch'[b].session = c.session /\ batch'[b].danger = danger /\ batch'[b].overtaken = FALSE
    BY <1>4
  <2>4. IsBatch(batch'[b])
    BY <1>3, <1>4, <2>2, <2>3 DEF IsBatch
  <2> QED
    BY <1>3, <1>5, <2>1, <2>2, <2>3, <2>4 DEF BatchTypes, Statuses
<1>7. batch'[b].status = "preview" /\ batch'[b].session = generation /\ c.items \subseteq Records /\ skipped \subseteq c.items
  BY <1>3, <1>4 DEF IsCall
<1>8. calls' = (calls \ {c}) \cup {d}
  BY <1>1
<1>9. /\ IsCall(d) /\ d.kind = "preview" /\ d.seq = c.seq /\ d.session = c.session /\ d.batch = b /\ d.got = a
      /\ a.kind = "ok" /\ a.snap = snap
  <2>1. a.kind = "ok" /\ a.snap = snap
    OBVIOUS
  <2> HIDE DEF a
  <2>2. d = [kind |-> c.kind, batch |-> b, items |-> c.items, seq |-> c.seq, session |-> c.session, got |-> a]
    <3>1. c = [kind |-> c.kind, batch |-> c.batch, items |-> c.items, seq |-> c.seq, session |-> c.session, got |-> c.got]
      BY <1>3 DEF IsCall
    <3>2. /\ DOMAIN d = {"kind", "batch", "items", "seq", "session", "got"}
          /\ d.kind = c.kind /\ d.batch = b /\ d.items = c.items /\ d.seq = c.seq /\ d.session = c.session /\ d.got = a
      BY <3>1
    <3>3. d = [x \in DOMAIN d |-> d[x]]
      OBVIOUS
    <3> HIDE DEF d
    <3> QED
      BY <3>2, <3>3
  <2> HIDE DEF d
  <2>3. d.kind = c.kind /\ d.seq = c.seq /\ d.session = c.session /\ d.batch = b /\ d.got = a /\ d.items = c.items
    BY <2>2
  <2>4. IsCall(d)
    BY <1>3, <2>2, <2>3 DEF IsCall
  <2> QED
    BY <1>2, <2>1, <2>3, <2>4
<1>10. snap.id = b /\ snap.status = "preview" /\ IsRow(snap) /\ snap.items \subseteq Records
  BY <1>7 DEF IsRow
<1> HIDE DEF d, a, snap
<1>11. ~Sent(calls, b)
  BY <1>1, <1>3 DEF CallsFit, CallsName, CallNames, Sent
<1>12. \A x : Sent(calls', x) => Sent(calls, x)
  <2>1. d.got.kind # "waiting" /\ calls' \subseteq (calls \ {c}) \cup {d}
    BY <1>8, <1>9
  <2> QED
    BY ONLY <2>1, SentLess
<1>13. Grown(batch, batch')
  BY <1>1, <1>5 DEF Grown
<1>14. Tame(batch, calls, batch', calls') /\ ~HandedOver(batch', calls', b)
  BY <1>1, <1>5, <1>7, <1>11, <1>12, <1>13 DEF Tame, HandedOver
<1>15. CallNames(batch', d, generation, sequence)
  BY <1>7, <1>9 DEF CallNames
<1>16. AnswerFits(batch', calls', d)
  BY <1>9, <1>10, <1>14 DEF AnswerFits, IsRead, Statuses
<1>17. ExpiriesFit'
  BY <1>2, <1>3, <1>8, <1>9 DEF ExpiriesFit, pageVars
<1>18. IsRead(c) => d.batch = c.batch
  BY <1>2 DEF IsRead
<1> QED
  BY <1>2, <1>3, <1>6, <1>8, <1>9, <1>14, <1>15, <1>16, <1>17, <1>18, OneAnswer, NetworkKeeps

-----------------------------------------------------------------------------
(* The page and the operator. *)
LEMMA NothingNamed == ASSUME NEW bs, NEW ses PROVE Rows(bs, <<>>, ses)
BY DEF Rows

LEMMA NothingIsSaved ==
  /\ NothingSaved.results = <<>> /\ NothingSaved.unconfirmed = 0
  /\ NothingSaved = [results |-> NothingSaved.results, latest |-> NothingSaved.latest,
                     unconfirmed |-> NothingSaved.unconfirmed]
BY DEF NothingSaved

(* Executions that nobody waits for. *)
LEMMA QuietCalls ==
  ASSUME CallsFit, NEW ct, ct \subseteq calls, NEW sq,
         \A c \in ct : c.kind = "execute" /\ c.got.kind = "waiting" /\ c.seq <= sq /\ c.seq # sq,
         NEW req, NEW on, NEW open, NEW ses
  PROVE  /\ NewestCalls(ct, sq, req, on, open, ses) /\ OneRequest(ct, sq)
         /\ CallsName(batch, ct, ses, sq) /\ AnswersFit(batch, ct)
<1>1. NewestCalls(ct, sq, req, on, open, ses)
  BY DEF CallsFit, NewestCalls
<1>2. OneRequest(ct, sq)
  BY DEF OneRequest
<1>3. CallsName(batch, ct, ses, sq)
  BY DEF CallsFit, CallsName, CallNames
<1>4. AnswersFit(batch, ct)
  BY DEF AnswersFit, AnswerFits
<1> QED
  BY <1>1, <1>2, <1>3, <1>4

(* While nothing was asked, or nothing is shown, no call is of the newest request. *)
LEMMA NothingAsked ==
  ASSUME CallsFit, request = 0 \/ ~mounted
  PROVE  \A c \in calls : /\ IsCall(c) /\ c.kind = "execute" /\ c.got.kind = "waiting"
                          /\ c.seq <= sequence /\ c.seq # sequence
BY DEF CallsFit, NewestCalls, IsCall

LEMMA FewerClaims ==
  ASSUME NEW cs, NEW ct, ct \subseteq cs, NEW bs, NEW ses, NEW b, Claims(bs, ct, ses, b)
  PROVE  Claims(bs, cs, ses, b)
BY DEF Claims, HandedOver, Sent

LEMMA CancelledCalls ==
  ASSUME ConsInv, CancelOperation
  PROVE  /\ calls' \subseteq calls /\ sequence' \in Nat /\ request' = 0
         /\ \A c \in calls' : c.kind = "execute" /\ c.got.kind = "waiting" /\ c.seq <= sequence' /\ c.seq # sequence'
<1>1. calls' \subseteq calls /\ request' = 0 /\ \A c \in calls' : c.kind = "execute" /\ c.got.kind = "waiting"
  BY DEF CancelOperation
<1>2. sequence \in Nat /\ CallsFit /\ \A c \in calls : c.seq \in Nat /\ c.seq <= sequence
  BY DEF ConsInv, ConsoleTypes, CallsFit, NewestCalls, IsCall
<1>3. CASE request = 0
  BY <1>1, <1>2, <1>3, NothingAsked DEF CancelOperation
<1>4. CASE request # 0
  <2>1. sequence' = sequence + 1
    BY <1>4 DEF CancelOperation
  <2> QED
    BY <1>1, <1>2, <2>1
<1> QED
  BY <1>3, <1>4

LEMMA MountKeeps == ASSUME ConsInv, Mount PROVE ConsInv'
<1> DEFINE previous == IF saved.unconfirmed # 0 THEN saved.unconfirmed ELSE saved.latest
<1>1. /\ ~mounted /\ mounted' = TRUE /\ generation' = session /\ snapshots' = saved.results
      /\ current' = IF FoundRow(saved.results, previous) THEN previous ELSE 0
      /\ unconfirmed' = (saved.unconfirmed # 0 /\ FoundRow(saved.results, previous))
      /\ UNCHANGED <<batch, session, saved, sequence, request, calls>>
  BY DEF Mount
<1>2. /\ BatchTypes(batch, session) /\ session \in Nat /\ CallsFit /\ Rows(batch, saved.results, session)
      /\ ConsoleTypes /\ KeptSaved
  BY DEF ConsInv, ConsoleTypes, ScreenFits
<1>3. \A c \in calls : /\ c.kind = "execute" /\ c.got.kind = "waiting"
                       /\ c.seq <= sequence /\ c.seq # sequence
  BY <1>1, <1>2, NothingAsked
<1>4. /\ NewestCalls(calls, sequence, request, TRUE, unconfirmed', session) /\ OneRequest(calls, sequence)
      /\ CallsName(batch, calls, session, sequence) /\ AnswersFit(batch, calls)
  BY <1>2, <1>3, QuietCalls
<1>5. CallsFit' /\ ExpiriesFit'
  BY <1>1, <1>3, <1>4 DEF CallsFit, ExpiriesFit
<1>6. \A b : FoundRow(saved.results, b) => Named(batch, b, session) /\ b # 0
  <2> SUFFICES ASSUME NEW b, FoundRow(saved.results, b) PROVE Named(batch, b, session) /\ b # 0
    OBVIOUS
  <2>1. ConsoleAt(saved.results, b) \in 1..Len(saved.results) /\ saved.results[ConsoleAt(saved.results, b)].id = b
    BY <1>2, RowFound
  <2>2. Named(batch, b, session)
    BY <1>2, <2>1 DEF Rows
  <2> QED
    BY <2>2, ConsoleAssumption DEF Named, Batches
<1>7. ConsoleTypes'
  BY <1>1, <1>2 DEF ConsoleTypes
<1>8. ScreenFits'
  BY <1>1, <1>2, <1>6 DEF ScreenFits
<1>9. KeptSaved'
  BY <1>1, <1>2 DEF KeptSaved
<1>10. KeptShown'
  <2> DEFINE o == IF unconfirmed' THEN current' ELSE 0
  <2> SUFFICES ASSUME NEW b \in Batches, Claims(batch, calls, session, b) PROVE KeptIn(saved.results, o, b)
    BY <1>1 DEF KeptShown
  <2>1. KeptIn(saved.results, saved.unconfirmed, b)
    BY <1>2 DEF KeptSaved
  <2>2. CASE saved.unconfirmed = b
    <3>1. FoundRow(saved.results, b)
      BY <1>2, <2>1, RowFound DEF KeptIn
    <3>2. b # 0 /\ previous = b
      BY <1>6, <2>2, <3>1
    <3>3. o = b
      BY <1>1, <2>2, <3>1, <3>2
    <3> QED
      BY <2>1, <3>3 DEF KeptIn
  <2>3. CASE saved.unconfirmed # b
    BY <2>1, <2>3 DEF KeptIn
  <2> QED
    BY <2>2, <2>3
<1> QED
  BY <1>5, <1>7, <1>8, <1>9, <1>10 DEF ConsInv

LEMMA UnmountKeeps == ASSUME ConsInv, Unmount PROVE ConsInv'
<1>1. /\ mounted' = FALSE /\ CancelOperation /\ current' = 0 /\ snapshots' = <<>> /\ unconfirmed' = FALSE
      /\ UNCHANGED <<batch, session, saved, generation>>
  BY DEF Unmount
<1>2. ConsoleTypes /\ CallsFit /\ Rows(batch, saved.results, session) /\ KeptSaved
  BY DEF ConsInv, ScreenFits
<1>3. /\ calls' \subseteq calls /\ sequence' \in Nat /\ request' = 0
      /\ \A c \in calls' : c.kind = "execute" /\ c.got.kind = "waiting" /\ c.seq <= sequence' /\ c.seq # sequence'
  BY <1>1, CancelledCalls
<1>4. /\ NewestCalls(calls', sequence', request', FALSE, FALSE, generation) /\ OneRequest(calls', sequence')
      /\ CallsName(batch, calls', generation, sequence') /\ AnswersFit(batch, calls')
  BY <1>2, <1>3, QuietCalls
<1>5. CallsFit' /\ ExpiriesFit'
  BY <1>1, <1>3, <1>4 DEF CallsFit, ExpiriesFit
<1>6. ConsoleTypes'
  BY <1>1, <1>2, <1>3 DEF ConsoleTypes
<1>7. ScreenFits'
  BY <1>1, <1>2, NothingNamed DEF ScreenFits
<1>8. KeptSaved' /\ KeptShown'
  BY <1>1, <1>2, <1>3, FewerClaims DEF KeptSaved, KeptShown
<1> QED
  BY <1>5, <1>6, <1>7, <1>8 DEF ConsInv

(* A new session begins: nothing was granted in it yet. *)
LEMMA SessionEnds ==
  ASSUME ConsInv, session' = session + 1, saved' = NothingSaved, calls' \subseteq calls,
         CallsFit', unconfirmed' \in BOOLEAN,
         Rows(batch, snapshots', generation), current' # 0 => Named(batch, current', generation),
         unconfirmed' => current' # 0, sequence' \in Nat, request' \in Nat,
         UNCHANGED <<batch, mounted, generation>>
  PROVE  ConsInv'
<1>1. BatchTypes(batch, session) /\ session \in Nat /\ generation \in Nat /\ generation <= session /\ mounted \in BOOLEAN
  BY DEF ConsInv, ConsoleTypes
<1>2. BatchTypes(batch, session + 1)
  BY <1>1 DEF BatchTypes, IsBatch
<1>3. ConsoleTypes'
  BY <1>1, <1>2, NothingIsSaved DEF ConsoleTypes
<1>4. ScreenFits'
  BY NothingNamed, NothingIsSaved DEF ScreenFits
<1>5. \A b \in Batches : ~Claims(batch', calls', session', b)
  BY <1>1 DEF Claims, BatchTypes, IsBatch
<1>6. KeptSaved' /\ KeptShown'
  BY <1>5 DEF KeptSaved, KeptShown
<1>7. ExpiriesFit'
  BY <1>1 DEF ExpiriesFit
<1> QED
  BY <1>3, <1>4, <1>6, <1>7 DEF ConsInv

LEMMA EndKeeps == ASSUME ConsInv, EndSession PROVE ConsInv'
<1>1. /\ session' = session + 1 /\ saved' = NothingSaved
      /\ UNCHANGED <<batch, mounted, generation, current, snapshots, unconfirmed, sequence, request, calls>>
  BY DEF EndSession
<1>2. CallsFit'
  BY <1>1 DEF ConsInv, CallsFit
<1> QED
  BY <1>1, <1>2, SessionEnds DEF ConsInv, ConsoleTypes, ScreenFits

(* The newest request is one call of the list. *)
LEMMA NewestCall ==
  ASSUME ConsInv, mounted, NEW others, others \subseteq calls,
         \A c \in others : c.kind = "execute" /\ c.got.kind = "waiting" /\ c.seq <= sequence,
         NEW kind \in {"preview", "execute"}, NEW b, NEW items, items \subseteq Records, NEW open,
         kind = "preview" => ~open, kind = "execute" => Named(batch, b, generation),
         NEW ct, ct = others \cup {NewCall(kind, b, items, sequence + 1)}
  PROVE  /\ NewestCalls(ct, sequence + 1, sequence + 1, mounted, open, generation) /\ OneRequest(ct, sequence + 1)
         /\ CallsName(batch, ct, generation, sequence + 1) /\ AnswersFit(batch, ct)
         /\ \A c \in ct : c.got.kind # "unauthorized" \/ c \in calls
<1> DEFINE n == NewCall(kind, b, items, sequence + 1)
<1>1. /\ n.kind = kind /\ n.batch = b /\ n.items = items /\ n.seq = sequence + 1 /\ n.session = generation
      /\ n.got = Waits /\ n = [kind |-> n.kind, batch |-> n.batch, items |-> n.items, seq |-> n.seq,
                               session |-> n.session, got |-> n.got]
  BY DEF NewCall
<1> HIDE DEF n
<1>2. sequence \in Nat /\ CallsFit
  BY DEF ConsInv, ConsoleTypes
<1>3. IsCall(n) /\ n.got.kind = "waiting"
  BY <1>1, <1>2 DEF IsCall, Waits
<1>4. \A c \in others : IsCall(c) /\ c.seq \in Nat /\ c.seq # sequence + 1 /\ c.seq <= sequence + 1
  BY <1>2 DEF CallsFit, NewestCalls, IsCall
<1>5. ct = others \cup {n}
  BY DEF n
<1>6. NewestCalls(ct, sequence + 1, sequence + 1, mounted, open, generation)
  BY <1>1, <1>2, <1>3, <1>4, <1>5 DEF NewestCalls
<1>7. OneRequest(ct, sequence + 1)
  BY <1>4, <1>5 DEF OneRequest
<1>8. CallsName(batch, ct, generation, sequence + 1)
  BY <1>1, <1>2, <1>3, <1>4, <1>5 DEF CallsFit, CallsName, CallNames, Named
<1>9. AnswersFit(batch, ct)
  BY <1>3, <1>5 DEF AnswersFit, AnswerFits
<1> QED
  BY <1>3, <1>5, <1>6, <1>7, <1>8, <1>9

(* What the list shows is saved with it, or nothing is. *)
LEMMA Synced ==
  ASSUME ConsInv, mounted, UNCHANGED <<batch, session, mounted, generation>>, NEW l,
         saved' = Persisted(snapshots', l, unconfirmed', session), unconfirmed' => l = current',
         Rows(batch, snapshots', generation), unconfirmed' \in BOOLEAN, sequence' \in Nat, request' \in Nat,
         current' # 0 => Named(batch, current', generation), unconfirmed' => current' # 0,
         CallsFit', ExpiriesFit',
         \A b \in Batches : generation = session /\ Claims(batch, calls', session, b) =>
           KeptIn(snapshots', IF unconfirmed' THEN current' ELSE 0, b),
         \A b \in Batches : generation # session /\ Claims(batch, calls', session, b) => Claims(batch, calls, session, b)
  PROVE  ConsInv'
<1>1. CASE generation = session
  <2>1. saved' = [results |-> snapshots', latest |-> l, unconfirmed |-> IF unconfirmed' THEN l ELSE 0]
    BY <1>1 DEF Persisted
  <2>2. saved'.results = snapshots' /\ saved'.unconfirmed = IF unconfirmed' THEN current' ELSE 0
    BY <2>1
  <2>3. saved' = [results |-> saved'.results, latest |-> saved'.latest, unconfirmed |-> saved'.unconfirmed]
    BY <2>1
  <2>4. ConsoleTypes'
    BY <2>3 DEF ConsInv, ConsoleTypes
  <2>5. ScreenFits'
    BY <1>1, <2>2 DEF ScreenFits
  <2>6. KeptSaved' /\ KeptShown'
    BY <1>1, <2>2 DEF KeptSaved, KeptShown
  <2> QED
    BY <2>4, <2>5, <2>6 DEF ConsInv
<1>2. CASE generation # session
  <2>1. saved' = saved
    BY <1>2 DEF Persisted
  <2>2. ConsoleTypes'
    BY <2>1 DEF ConsInv, ConsoleTypes
  <2>3. ScreenFits'
    BY <2>1 DEF ConsInv, ScreenFits
  <2>4. KeptSaved' /\ KeptShown'
    BY <1>2, <2>1 DEF ConsInv, KeptSaved, KeptShown
  <2> QED
    BY <2>2, <2>3, <2>4 DEF ConsInv
<1> QED
  BY <1>1, <1>2

(* A request that submits nothing leaves what the list shows. *)
LEMMA AskedKeeps ==
  ASSUME ConsInv, CallsFit', ExpiriesFit', \A b : Sent(calls', b) => Sent(calls, b),
         sequence' \in Nat, request' \in Nat,
         UNCHANGED <<batch, session, saved, mounted, generation, snapshots, unconfirmed>>,
         current' = current \/ (~unconfirmed /\ Named(batch, current', generation))
  PROVE  ConsInv'
<1>1. ConsoleTypes' /\ ScreenFits'
  BY DEF ConsInv, ConsoleTypes, ScreenFits
<1>2. \A b : Claims(batch, calls', session, b) => Claims(batch, calls, session, b)
  BY DEF Claims, HandedOver
<1>3. KeptSaved' /\ KeptShown'
  BY <1>2 DEF ConsInv, KeptSaved, KeptShown
<1> QED
  BY <1>1, <1>3 DEF ConsInv

LEMMA PreviewKeeps == ASSUME ConsInv, NEW items \in SUBSET Records, Preview(items) PROVE ConsInv'
<1>1. /\ mounted /\ request = 0 /\ ~unconfirmed /\ sequence' = sequence + 1 /\ request' = sequence + 1
      /\ calls' = calls \cup {NewCall("preview", 0, items, sequence + 1)}
      /\ UNCHANGED <<batch, session, saved, mounted, generation, snapshots, unconfirmed, current>>
  BY DEF Preview, AttendedList, pageVars, serverVars
<1>2. CallsFit /\ sequence \in Nat /\ ExpiriesFit
  BY DEF ConsInv, ConsoleTypes
<1>3. \A c \in calls : c.kind = "execute" /\ c.got.kind = "waiting" /\ c.seq <= sequence
  BY <1>1, <1>2, NothingAsked
<1>4. /\ NewestCalls(calls', sequence + 1, sequence + 1, mounted, unconfirmed, generation)
      /\ OneRequest(calls', sequence + 1) /\ CallsName(batch, calls', generation, sequence + 1)
      /\ AnswersFit(batch, calls') /\ \A c \in calls' : c.got.kind # "unauthorized" \/ c \in calls
  BY <1>1, <1>3, NewestCall
<1>5. CallsFit' /\ ExpiriesFit'
  BY <1>1, <1>2, <1>4 DEF CallsFit, ExpiriesFit
<1>6. \A b : Sent(calls', b) => Sent(calls, b)
  <2>1. NewCall("preview", 0, items, sequence + 1).kind = "preview"
    BY DEF NewCall
  <2> QED
    BY <1>1, <2>1 DEF Sent
<1> QED
  BY <1>1, <1>2, <1>5, <1>6, AskedKeeps

(* execute(): the batch is remembered as unconfirmed before the request is sent. *)
LEMMA SubmitKeeps ==
  ASSUME ConsInv, mounted, NEW snap \in RowType, IsRow(snap), Named(batch, snap.id, generation),
         NEW others, others \subseteq calls,
         \A c \in others : c.kind = "execute" /\ c.got.kind = "waiting" /\ c.seq <= sequence,
         Submit(snap, others), current' = snap.id, unconfirmed => current = snap.id,
         UNCHANGED <<batch, session, mounted, generation>>
  PROVE  ConsInv'
<1> DEFINE n == NewCall("execute", snap.id, {}, sequence + 1)
<1>1. /\ sequence' = sequence + 1 /\ request' = sequence + 1 /\ unconfirmed' = TRUE
      /\ snapshots' = Remember(snapshots, snap) /\ saved' = Persisted(snapshots', snap.id, TRUE, session)
      /\ calls' = others \cup {n}
  BY DEF Submit
<1>2. CallsFit /\ sequence \in Nat /\ ExpiriesFit /\ Rows(batch, snapshots, generation) /\ KeptShown
  BY DEF ConsInv, ConsoleTypes, ScreenFits
<1>3. /\ NewestCalls(calls', sequence + 1, sequence + 1, mounted, TRUE, generation)
      /\ OneRequest(calls', sequence + 1) /\ CallsName(batch, calls', generation, sequence + 1)
      /\ AnswersFit(batch, calls') /\ \A c \in calls' : c.got.kind # "unauthorized" \/ c \in calls
  BY <1>1, NewestCall
<1>4. CallsFit' /\ ExpiriesFit'
  BY <1>1, <1>2, <1>3 DEF CallsFit, ExpiriesFit
<1>5. Rows(batch, snapshots', generation)
  BY <1>1, <1>2, RememberedRows
<1>6. snap.id # 0
  BY ConsoleAssumption DEF Named, Batches
<1>7. \A b \in Batches : Claims(batch, calls', session, b) => b = snap.id \/ Claims(batch, calls, session, b)
  <2>1. n.batch = snap.id
    BY DEF NewCall
  <2> HIDE DEF n
  <2>2. \A b : Sent(calls', b) => b = snap.id \/ Sent(calls, b)
    BY <1>1, <2>1 DEF Sent
  <2> QED
    BY <2>2 DEF Claims, HandedOver
<1>8. ASSUME NEW b \in Batches, generation = session, Claims(batch, calls', session, b)
      PROVE  KeptIn(snapshots', snap.id, b)
  <2>1. CASE b = snap.id
    BY <1>1, <1>2, <2>1, RememberedIsKept
  <2>2. CASE b # snap.id
    <3> DEFINE o == IF unconfirmed THEN current ELSE 0
    <3>1. KeptIn(snapshots, o, b)
      BY <1>2, <1>7, <1>8, <2>2 DEF KeptShown
    <3>2. o # b
      BY <1>6, <2>2, ConsoleAssumption DEF Batches
    <3> HIDE DEF o
    <3> QED
      BY <1>1, <1>2, <2>2, <3>1, <3>2, RememberedIsKept
  <2> QED
    BY <2>1, <2>2
<1>9. \A b \in Batches : generation # session /\ Claims(batch, calls', session, b) => Claims(batch, calls, session, b)
  BY <1>7 DEF Named, Claims
<1>10. (IF unconfirmed' THEN current' ELSE 0) = snap.id /\ current' # 0 /\ Named(batch, current', generation)
  BY <1>1, <1>6
<1>11. saved' = Persisted(snapshots', snap.id, unconfirmed', session)
  BY <1>1
<1>12. sequence' \in Nat /\ request' \in Nat /\ unconfirmed' \in BOOLEAN
  BY <1>1, <1>2
<1> QED
  BY <1>4, <1>5, <1>8, <1>9, <1>10, <1>11, <1>12, Synced

LEMMA CurrentRow ==
  ASSUME ConsInv, current # 0
  PROVE  /\ CurrentSnapshot \in RowType /\ IsRow(CurrentSnapshot) /\ CurrentSnapshot.id = current
         /\ Named(batch, CurrentSnapshot.id, generation)
<1>1. Rows(batch, snapshots, generation) /\ Named(batch, current, generation) /\ BatchTypes(batch, session)
  BY DEF ConsInv, ConsoleTypes, ScreenFits
<1>2. CASE FoundRow(snapshots, current)
  <2> DEFINE i == ConsoleAt(snapshots, current)
  <2>1. i \in 1..Len(snapshots) /\ snapshots[i].id = current /\ CurrentSnapshot = snapshots[i]
    BY <1>1, <1>2, RowFound DEF CurrentSnapshot
  <2> HIDE DEF i
  <2>2. snapshots[i] \in RowType /\ IsRow(snapshots[i])
    BY <1>1, <2>1 DEF Rows
  <2> QED
    BY <1>1, <2>1, <2>2
<1>3. CASE ~FoundRow(snapshots, current)
  <2> DEFINE s == [id |-> current, status |-> "preview", items |-> batch[current].items, done |-> batch[current].done]
  <2>1. CurrentSnapshot = s
    BY <1>3 DEF CurrentSnapshot
  <2>2. batch[current].items \subseteq Records /\ batch[current].done \subseteq batch[current].items /\ current \in Batches
    BY <1>1 DEF BatchTypes, IsBatch, Named
  <2>3. s \in RowType /\ s.id = current
    BY <2>2 DEF RowType, Statuses
  <2>4. IsRow(s)
    BY <2>2 DEF IsRow
  <2> QED
    BY <1>1, <2>1, <2>3, <2>4
<1> QED
  BY <1>2, <1>3

LEMMA SubmitCurrent ==
  ASSUME ConsInv, mounted, request = 0, current # 0, Submit(CurrentSnapshot, calls),
         UNCHANGED <<batch, session, mounted, generation, current>>
  PROVE  ConsInv'
<1>1. \A c \in calls : c.kind = "execute" /\ c.got.kind = "waiting" /\ c.seq <= sequence
  BY NothingAsked DEF ConsInv
<1> DEFINE snap == CurrentSnapshot
<1>2. snap \in RowType /\ IsRow(snap) /\ snap.id = current /\ Named(batch, snap.id, generation) /\ Submit(snap, calls)
  BY CurrentRow
<1> HIDE DEF snap
<1> QED
  BY <1>1, <1>2, SubmitKeeps

LEMMA ConfirmKeeps == ASSUME ConsInv, Confirm \/ RetrySubmission PROVE ConsInv'
<1>1. CASE Confirm
  BY <1>1, SubmitCurrent DEF Confirm, AttendedList, pageVars, serverVars
<1>2. CASE RetrySubmission
  <2>1. CASE Submit(CurrentSnapshot, calls)
    BY <1>2, <2>1, SubmitCurrent DEF RetrySubmission, AttendedList, pageVars, serverVars
  <2>2. CASE UNCHANGED <<sequence, request, mutation, unconfirmed, snapshots, saved, calls>>
    <3>1. UNCHANGED <<batch, session, saved, mounted, generation, snapshots, unconfirmed, current, sequence, request, calls>>
      BY <1>2, <2>2 DEF RetrySubmission, pageVars, serverVars
    <3>2. CallsFit' /\ ExpiriesFit'
      BY <3>1 DEF ConsInv, CallsFit, ExpiriesFit
    <3> QED
      BY <3>1, <3>2, AskedKeeps DEF ConsInv, ConsoleTypes
  <2> QED
    BY <1>2, <2>1, <2>2 DEF RetrySubmission
<1> QED
  BY <1>1, <1>2

LEMMA CloseListKeeps == ASSUME ConsInv, CloseList PROVE ConsInv'
<1>1. /\ mounted /\ generation = session /\ CancelOperation
      /\ current' = IF unconfirmed THEN current ELSE 0
      /\ saved' = Persisted(snapshots, current', unconfirmed, session)
      /\ UNCHANGED <<batch, session, mounted, generation, snapshots, unconfirmed>>
  BY DEF CloseList, AttendedList, pageVars, serverVars
<1>2. ConsoleTypes /\ CallsFit /\ ScreenFits /\ KeptShown
  BY DEF ConsInv
<1>3. /\ calls' \subseteq calls /\ sequence' \in Nat /\ request' = 0
      /\ \A c \in calls' : c.kind = "execute" /\ c.got.kind = "waiting" /\ c.seq <= sequence' /\ c.seq # sequence'
  BY <1>1, CancelledCalls
<1>4. /\ NewestCalls(calls', sequence', request', mounted, unconfirmed, generation) /\ OneRequest(calls', sequence')
      /\ CallsName(batch, calls', generation, sequence') /\ AnswersFit(batch, calls')
  BY <1>2, <1>3, QuietCalls
<1>5. CallsFit' /\ ExpiriesFit'
  BY <1>1, <1>3, <1>4 DEF CallsFit, ExpiriesFit
<1>6. \A b \in Batches : Claims(batch, calls', session, b) => KeptIn(snapshots, IF unconfirmed THEN current' ELSE 0, b)
  BY <1>1, <1>2, <1>3, FewerClaims DEF KeptShown
<1>7. current' # 0 => Named(batch, current', generation)
  BY <1>1, <1>2 DEF ScreenFits
<1> QED
  BY <1>1, <1>2, <1>3, <1>5, <1>6, <1>7, Synced DEF ScreenFits, ConsoleTypes

(* The answer that the list waits for is the only call of its request. *)
LEMMA OnlyNewest ==
  ASSUME CallsFit, NEW c \in calls, IsCurrent(c), ~IsRead(c)
  PROVE  /\ c.seq = sequence /\ IsCall(c)
         /\ \A d \in calls \ {c} : d.kind = "execute" /\ d.got.kind = "waiting" /\ d.seq <= sequence /\ d.seq # sequence
BY DEF CallsFit, NewestCalls, OneRequest, IsCurrent

LEMMA AnswerEnds ==
  ASSUME ConsInv, NEW c \in calls, IsCurrent(c), ~IsRead(c), calls' = calls \ {c}, sequence' = sequence, request' \in Nat,
         UNCHANGED <<batch, session, mounted, generation>>
  PROVE  CallsFit' /\ ExpiriesFit' /\ \A b : Sent(calls', b) => Sent(calls, b)
<1>1. CallsFit /\ ExpiriesFit
  BY DEF ConsInv
<1>2. \A d \in calls' : d.kind = "execute" /\ d.got.kind = "waiting" /\ d.seq <= sequence /\ d.seq # sequence
  BY <1>1, OnlyNewest
<1>3. /\ NewestCalls(calls', sequence, request', mounted, unconfirmed', generation) /\ OneRequest(calls', sequence)
      /\ CallsName(batch, calls', generation, sequence) /\ AnswersFit(batch, calls')
  BY <1>1, <1>2, QuietCalls
<1>4. CallsFit' /\ ExpiriesFit'
  BY <1>1, <1>3 DEF CallsFit, ExpiriesFit
<1> QED
  BY <1>4 DEF Sent

(* A 401 ends the session with the request. *)
LEMMA ExpiryEnds ==
  ASSUME ConsInv, NEW c \in calls, IsCurrent(c), ~IsRead(c), calls' = calls \ {c}, sequence' = sequence, request' \in Nat,
         session' = session + 1, saved' = NothingSaved, unconfirmed' \in BOOLEAN, unconfirmed' => current' # 0,
         Rows(batch, snapshots', generation), current' # 0 => Named(batch, current', generation),
         UNCHANGED <<batch, mounted, generation>>
  PROVE  ConsInv'
<1>1. CallsFit /\ ExpiriesFit /\ sequence \in Nat
  BY DEF ConsInv, ConsoleTypes
<1>2. \A d \in calls' : d.kind = "execute" /\ d.got.kind = "waiting" /\ d.seq <= sequence /\ d.seq # sequence
  BY <1>1, OnlyNewest
<1>3. /\ NewestCalls(calls', sequence, request', mounted, unconfirmed', generation) /\ OneRequest(calls', sequence)
      /\ CallsName(batch, calls', generation, sequence) /\ AnswersFit(batch, calls')
  BY <1>1, <1>2, QuietCalls
<1>4. CallsFit'
  BY <1>3 DEF CallsFit
<1> QED
  BY <1>1, <1>4, SessionEnds

(* The operation that an answer describes. *)
LEMMA AnsweredRow ==
  ASSUME ConsInv, NEW c \in calls, IsCurrent(c), c.got.kind = "ok"
  PROVE  /\ c.got.snap \in RowType /\ IsRow(c.got.snap) /\ c.got.snap.id = c.batch /\ c.batch \in Batches
         /\ Named(batch, c.batch, generation) /\ Named(batch, c.got.snap.id, generation) /\ AnswerFits(batch, calls, c)
<1> DEFINE s == c.got.snap
<1>1. AnswerFits(batch, calls, c) /\ CallNames(batch, c, generation, sequence) /\ c.seq = sequence
  BY DEF ConsInv, CallsFit, AnswersFit, CallsName, IsCurrent
<1>2. IsRow(s) /\ s.id = c.batch /\ s.status \in Statuses /\ s.items \subseteq Records
  BY <1>1 DEF AnswerFits
<1>3. c.batch \in Batches /\ Named(batch, c.batch, generation)
  BY <1>1 DEF CallNames, Named
<1> HIDE DEF s
<1>4. s \in RowType
  <2>1. /\ s = [id |-> s.id, status |-> s.status, items |-> s.items, done |-> s.done]
        /\ s.id \in Batches /\ s.items \subseteq Records /\ s.done \subseteq Records
    BY <1>2, <1>3 DEF IsRow
  <2> QED
    BY <1>2, <2>1 DEF RowType
<1> QED
  BY <1>1, <1>2, <1>3, <1>4 DEF s

LEMMA PreviewAnsweredKeeps ==
  ASSUME ConsInv, NEW c \in calls, PreviewAnswered(c)
  PROVE  ConsInv'
<1>1. /\ c.kind = "preview" /\ IsCurrent(c) /\ session' = SessionAfter(c)
      /\ UNCHANGED <<batch, mounted, generation>>
  BY DEF PreviewAnswered, serverVars
<1>2. ConsoleTypes /\ CallsFit /\ ScreenFits /\ KeptShown /\ ~IsRead(c) /\ mounted
  BY <1>1 DEF ConsInv, IsRead, IsCurrent
<1>3. ~unconfirmed
  BY <1>1, <1>2, OnlyNewest DEF CallsFit, NewestCalls
<1>4. \A d \in calls \ {c} : d.kind = "execute" /\ d.got.kind = "waiting" /\ d.seq <= sequence /\ d.seq # sequence
  BY <1>1, <1>2, OnlyNewest
<1>5. CASE c.got.kind # "ok"
  <2>1. /\ request' = 0 /\ saved' = SavedAfter(c) /\ calls' = calls \ {c}
        /\ UNCHANGED <<current, snapshots, unconfirmed, sequence>>
    BY <1>5 DEF PreviewAnswered, Freed
  <2>2. CASE session' # session
    <3>1. session' = session + 1 /\ saved' = NothingSaved
      BY <1>1, <2>1, <2>2 DEF SessionAfter, SavedAfter
    <3> QED
      BY <1>1, <1>2, <2>1, <3>1, ExpiryEnds DEF ConsoleTypes, ScreenFits
  <2>3. CASE session' = session
    <3>1. saved' = saved
      BY <1>1, <2>1, <2>3 DEF SavedAfter
    <3>2. CallsFit' /\ ExpiriesFit' /\ \A b : Sent(calls', b) => Sent(calls, b)
      BY <1>1, <1>2, <2>1, <2>3, AnswerEnds
    <3> QED
      BY <1>1, <1>2, <2>1, <2>3, <3>1, <3>2, AskedKeeps DEF ConsoleTypes
  <2> QED
    BY <2>2, <2>3
<1>6. CASE c.got.kind = "ok"
  <2> DEFINE now == c.got.snap
  <2>1. /\ now \in RowType /\ IsRow(now) /\ Named(batch, now.id, generation) /\ now.id = c.batch
        /\ AnswerFits(batch, calls, c)
    BY <1>1, <1>6, AnsweredRow
  <2>2. session' = session /\ current' = now.id
    BY <1>1, <1>6 DEF SessionAfter, PreviewAnswered
  <2>3. now.id # 0 /\ now.id \in Batches
    BY <2>1, ConsoleAssumption DEF Named, Batches
  <2>4. \/ /\ Freed /\ snapshots' = Remember(snapshots, now)
           /\ saved' = Persisted(snapshots', now.id, unconfirmed, session)
           /\ calls' = calls \ {c} /\ UNCHANGED <<unconfirmed, sequence>>
        \/ Freed /\ calls' = calls \ {c} /\ UNCHANGED <<saved, snapshots, unconfirmed, sequence>>
        \/ Submit(now, calls \ {c})
    BY <1>6 DEF PreviewAnswered
  <2>5. ~HandedOver(batch, calls, now.id)
    BY <1>1, <1>6, <2>1 DEF AnswerFits
  <2> HIDE DEF now
  <2>6. CASE /\ Freed /\ snapshots' = Remember(snapshots, now)
             /\ saved' = Persisted(snapshots', now.id, unconfirmed, session)
             /\ calls' = calls \ {c} /\ UNCHANGED <<unconfirmed, sequence>>
    <3>1. request' = 0 /\ sequence' = sequence
      BY <2>6 DEF Freed
    <3>2. CallsFit' /\ ExpiriesFit' /\ \A b : Sent(calls', b) => Sent(calls, b)
      BY <1>1, <1>2, <2>2, <2>6, <3>1, AnswerEnds
    <3>3. Rows(batch, snapshots', generation)
      BY <1>2, <2>1, <2>6, RememberedRows DEF ScreenFits
    <3>4. \A b : Claims(batch, calls', session, b) => Claims(batch, calls, session, b)
      BY <2>6, FewerClaims
    <3>5. ASSUME NEW b \in Batches, generation = session, Claims(batch, calls', session, b)
          PROVE  KeptIn(snapshots', 0, b)
      <4>1. Claims(batch, calls, session, b) /\ b # now.id
        BY <2>5, <3>4, <3>5 DEF Claims
      <4>2. KeptIn(snapshots, 0, b)
        BY <1>2, <1>3, <3>5, <4>1 DEF KeptShown
      <4> QED
        BY <1>2, <2>1, <2>6, <4>1, <4>2, RememberedIsKept DEF ScreenFits
    <3>6. ~unconfirmed' /\ saved' = Persisted(snapshots', now.id, unconfirmed', session)
      BY <1>3, <2>6
    <3>7. unconfirmed' \in BOOLEAN /\ sequence' \in Nat /\ request' \in Nat /\ Named(batch, current', generation)
      BY <1>2, <2>1, <2>2, <2>6, <3>1 DEF ConsoleTypes
    <3> QED
      BY <1>1, <1>2, <2>2, <3>2, <3>3, <3>4, <3>5, <3>6, <3>7, Synced
  <2>7. CASE Freed /\ calls' = calls \ {c} /\ UNCHANGED <<saved, snapshots, unconfirmed, sequence>>
    <3>1. request' = 0 /\ sequence' = sequence
      BY <2>7 DEF Freed
    <3>2. CallsFit' /\ ExpiriesFit' /\ \A b : Sent(calls', b) => Sent(calls, b)
      BY <1>1, <1>2, <2>2, <2>7, <3>1, AnswerEnds
    <3> QED
      BY <1>1, <1>2, <1>3, <2>1, <2>2, <2>7, <3>1, <3>2, AskedKeeps DEF ConsoleTypes
  <2>8. CASE Submit(now, calls \ {c})
    BY <1>1, <1>2, <1>3, <1>4, <2>1, <2>2, <2>8, SubmitKeeps
  <2> QED
    BY <2>4, <2>6, <2>7, <2>8
<1> QED
  BY <1>5, <1>6

(* The answer of an execution is read only while the list waits for it, so it is about the current batch. *)
LEMMA ExecuteAnsweredKeeps ==
  ASSUME ConsInv, NEW c \in calls, ExecuteAnswered(c)
  PROVE  ConsInv'
<1>1. /\ c.kind = "execute" /\ IsCurrent(c) /\ current = c.batch /\ session' = SessionAfter(c) /\ calls' = calls \ {c}
      /\ UNCHANGED <<batch, mounted, generation, sequence>>
  BY DEF ExecuteAnswered, serverVars
<1>2. ConsoleTypes /\ CallsFit /\ ScreenFits /\ KeptShown /\ ~IsRead(c) /\ mounted /\ ExpiriesFit
  BY <1>1 DEF ConsInv, IsRead, IsCurrent
<1>3. AnswerFits(batch, calls, c) /\ c.batch \in Batches /\ Named(batch, c.batch, generation) /\ c.batch # 0
  <2>1. c.seq = sequence /\ CallNames(batch, c, generation, sequence) /\ AnswerFits(batch, calls, c)
    BY <1>1, <1>2, OnlyNewest DEF CallsFit, CallsName, AnswersFit
  <2> QED
    BY <1>1, <2>1, ConsoleAssumption DEF CallNames, Named, Batches
<1>4. \A b : Claims(batch, calls', session, b) => Claims(batch, calls, session, b)
  BY <1>1, FewerClaims
<1>5. ASSUME session' = session, request' \in Nat
      PROVE  CallsFit' /\ ExpiriesFit' /\ \A b : Sent(calls', b) => Sent(calls, b)
  BY <1>1, <1>2, <1>5, AnswerEnds
<1>6. ASSUME NEW b \in Batches, generation = session, Claims(batch, calls', session, b), b # c.batch
      PROVE  KeptIn(snapshots, 0, b)
  <2> DEFINE o == IF unconfirmed THEN current ELSE 0
  <2>1. KeptIn(snapshots, o, b)
    BY <1>2, <1>4, <1>6 DEF KeptShown
  <2>2. o # b
    BY <1>1, <1>6, ConsoleAssumption DEF Batches
  <2> QED
    BY <2>1, <2>2 DEF KeptIn
<1>7. CASE c.got.kind = "ok"
  <2> DEFINE now == c.got.snap
  <2>1. now \in RowType /\ IsRow(now) /\ Named(batch, now.id, generation) /\ now.id = c.batch
    BY <1>1, <1>7, AnsweredRow
  <2>2. /\ request' = 0 /\ unconfirmed' = FALSE /\ snapshots' = Remember(snapshots, now)
        /\ saved' = Persisted(snapshots', current, FALSE, session) /\ current' = current
    BY <1>7 DEF ExecuteAnswered, Freed
  <2>3. session' = session /\ now.status # "preview"
    BY <1>1, <1>3, <1>7 DEF SessionAfter, AnswerFits
  <2> HIDE DEF now
  <2>4. Rows(batch, snapshots', generation)
    BY <1>2, <2>1, <2>2, RememberedRows DEF ScreenFits
  <2>5. ASSUME NEW b \in Batches, generation = session, Claims(batch, calls', session, b)
        PROVE  KeptIn(snapshots', 0, b)
    <3>1. CASE b = c.batch
      BY <1>2, <2>1, <2>2, <2>3, <3>1, RememberedIsKept DEF ScreenFits
    <3>2. CASE b # c.batch
      <4>1. KeptIn(snapshots, 0, b)
        BY <1>6, <2>5, <3>2
      <4> QED
        BY <1>2, <2>1, <2>2, <3>2, <4>1, RememberedIsKept DEF ScreenFits
    <3> QED
      BY <3>1, <3>2
  <2>6. /\ ~unconfirmed' /\ saved' = Persisted(snapshots', current, unconfirmed', session)
        /\ unconfirmed' \in BOOLEAN /\ sequence' \in Nat /\ request' \in Nat /\ Named(batch, current', generation)
    BY <1>1, <1>2, <1>3, <2>2 DEF ConsoleTypes
  <2>7. CallsFit' /\ ExpiriesFit'
    BY <1>5, <2>3, <2>6
  <2> QED
    BY <1>1, <1>2, <1>4, <2>3, <2>4, <2>5, <2>6, <2>7, Synced
<1>8. CASE c.got.kind = "missing"
  <2>1. /\ current' = 0 /\ unconfirmed' = FALSE /\ snapshots' = Dropped(snapshots, c.batch)
        /\ UNCHANGED <<request, saved>>
    BY <1>8 DEF ExecuteAnswered
  <2>2. session' = session /\ request' \in Nat
    BY <1>1, <1>2, <1>8, <2>1 DEF SessionAfter, ConsoleTypes
  <2>3. CallsFit' /\ ExpiriesFit'
    BY <1>5, <2>2
  <2>4. ~HandedOver(batch, calls, c.batch)
    BY <1>1, <1>3, <1>8 DEF AnswerFits, HandedOver
  <2>5. Rows(batch, snapshots', generation)
    BY <1>2, <2>1, DroppedRows DEF ScreenFits
  <2>6. ASSUME NEW b \in Batches, generation = session, Claims(batch, calls', session, b)
        PROVE  KeptIn(snapshots', 0, b)
    <3>1. b # c.batch
      BY <1>4, <2>4, <2>6 DEF Claims
    <3>2. KeptIn(snapshots, 0, b)
      BY <1>6, <2>6, <3>1
    <3> QED
      BY <1>2, <2>1, <3>1, <3>2, DroppedRows DEF ScreenFits
  <2>7. ConsoleTypes'
    BY <1>1, <1>2, <2>1, <2>2 DEF ConsoleTypes
  <2>8. ScreenFits'
    BY <1>1, <1>2, <2>1, <2>2, <2>5 DEF ScreenFits
  <2>9. KeptSaved'
    BY <1>1, <1>4, <2>1, <2>2 DEF ConsInv, KeptSaved
  <2>10. KeptShown'
    BY <1>1, <2>1, <2>2, <2>6 DEF KeptShown
  <2> QED
    BY <2>3, <2>7, <2>8, <2>9, <2>10 DEF ConsInv
<1>9. CASE c.got.kind \notin {"ok", "missing"}
  <2>1. /\ request' = 0 /\ unconfirmed' = (c.got.kind \notin Rejected)
        /\ saved' = Persisted(snapshots, current, unconfirmed', session')
        /\ UNCHANGED <<current, snapshots>>
    BY <1>9 DEF ExecuteAnswered, Freed
  <2>2. CASE session' # session
    <3>1. session' = session + 1
      BY <1>1, <2>2 DEF SessionAfter
    <3>2. saved' = NothingSaved
      <4>1. generation \in Nat /\ session \in Nat /\ generation <= session
        BY <1>2 DEF ConsoleTypes
      <4>2. generation # session'
        BY <3>1, <4>1
      <4> QED
        BY <2>1, <2>2, <4>2 DEF Persisted
    <3> QED
      BY <1>1, <1>2, <1>3, <2>1, <3>1, <3>2, ExpiryEnds DEF ScreenFits
  <2>3. CASE session' = session
    <3>1. ASSUME NEW b \in Batches, generation = session, Claims(batch, calls', session, b)
          PROVE  KeptIn(snapshots, IF unconfirmed' THEN current ELSE 0, b)
      <4>1. CASE b # c.batch
        <5>1. KeptIn(snapshots, 0, b)
          BY <1>6, <3>1, <4>1
        <5>2. b # 0
          BY ConsoleAssumption DEF Batches
        <5> QED
          BY <5>1, <5>2 DEF KeptIn
      <4>2. CASE b = c.batch
        <5>1. c.got.kind # "rejected"
          BY <1>1, <1>3, <1>4, <3>1, <4>2 DEF AnswerFits, Claims
        <5>2. c.got.kind # "unauthorized"
          BY <1>1, <1>2, <2>3, <3>1 DEF ExpiriesFit, SessionAfter, ConsoleTypes
        <5>3. unconfirmed'
          BY <2>1, <5>1, <5>2 DEF Rejected
        <5>4. KeptIn(snapshots, IF unconfirmed THEN current ELSE 0, b)
          BY <1>2, <1>4, <3>1 DEF KeptShown
        <5> QED
          BY <1>1, <4>2, <5>3, <5>4 DEF KeptIn
      <4> QED
        BY <4>1, <4>2
    <3>2. /\ unconfirmed' \in BOOLEAN /\ sequence' \in Nat /\ request' \in Nat /\ Named(batch, current', generation)
          /\ current' # 0 /\ Rows(batch, snapshots', generation)
      BY <1>1, <1>2, <1>3, <2>1 DEF ConsoleTypes, ScreenFits
    <3>3. CallsFit' /\ ExpiriesFit'
      BY <1>5, <2>3, <3>2
    <3>4. saved' = Persisted(snapshots', current', unconfirmed', session)
      BY <2>1, <2>3 DEF Persisted
    <3>5. (IF unconfirmed' THEN current' ELSE 0) = IF unconfirmed' THEN current ELSE 0
      BY <2>1
    <3> QED
      BY <1>1, <1>2, <1>4, <2>1, <2>3, <3>1, <3>2, <3>3, <3>4, <3>5, Synced
  <2> QED
    BY <2>2, <2>3
<1> QED
  BY <1>7, <1>8, <1>9

(* The list reads the progress of its batches with one read each. *)
LEMMA RefreshKeeps == ASSUME ConsInv, NEW source \in {"refreshed", "followed"}, Refresh(source) PROVE ConsInv'
<1> DEFINE T == ConsoleTargets(source)
           n(b) == NewCall(source, b, {}, sequence + 1)
<1>1. /\ mounted /\ request = 0 /\ sequence' = sequence + 1 /\ request' = sequence + 1
      /\ calls' = calls \cup {n(b) : b \in T}
      /\ UNCHANGED <<batch, session, saved, mounted, generation, snapshots, unconfirmed, current>>
  BY DEF Refresh, AttendedList, pageVars, serverVars
<1>2. CallsFit /\ sequence \in Nat /\ ExpiriesFit /\ Rows(batch, snapshots, generation)
  BY DEF ConsInv, ConsoleTypes, ScreenFits
<1>3. \A b \in T : Named(batch, b, generation)
  BY <1>2, RowFound DEF ConsoleTargets, Rows
<1>4. \A b : /\ n(b).kind = source /\ n(b).batch = b /\ n(b).seq = sequence + 1 /\ n(b).session = generation
             /\ n(b).got.kind = "waiting" /\ n(b).items = {}
             /\ n(b) = [kind |-> n(b).kind, batch |-> n(b).batch, items |-> n(b).items, seq |-> n(b).seq,
                        session |-> n(b).session, got |-> n(b).got]
  BY DEF NewCall, Waits
<1> HIDE DEF n, T
<1>5. \A b : IsCall(n(b)) /\ IsRead(n(b))
  BY <1>2, <1>4 DEF IsCall, IsRead
<1>6. \A c \in calls : /\ IsCall(c) /\ c.kind = "execute" /\ c.got.kind = "waiting"
                       /\ c.seq <= sequence /\ c.seq # sequence
  BY <1>1, <1>2, NothingAsked
<1>7. \A c \in calls : c.seq \in Nat /\ c.seq # sequence + 1 /\ c.seq <= sequence + 1
  BY <1>2, <1>6 DEF IsCall
<1>8. NewestCalls(calls', sequence + 1, sequence + 1, mounted, unconfirmed, generation)
  <2> SUFFICES ASSUME NEW c \in calls'
               PROVE  /\ IsCall(c) /\ c.seq <= sequence + 1
                      /\ c.seq = sequence + 1 => c.session = generation /\ c.kind # "preview"
                      /\ c.seq # sequence + 1 => c.kind = "execute" /\ c.got.kind = "waiting"
    BY <1>1 DEF NewestCalls
  <2>1. CASE c \in calls
    BY <1>6, <1>7, <2>1
  <2>2. CASE \E b \in T : c = n(b)
    <3>1. PICK b \in T : c = n(b)
      BY <2>2
    <3>2. sequence + 1 <= sequence + 1
      BY <1>2
    <3>3. IsCall(c) /\ c.kind = source /\ c.seq = sequence + 1 /\ c.session = generation
      BY <1>4, <1>5, <3>1
    <3> QED
      BY <3>2, <3>3
  <2> QED
    BY <1>1, <2>1, <2>2
<1>9. OneRequest(calls', sequence + 1)
  <2> SUFFICES ASSUME NEW c \in calls', NEW d \in calls', c.seq = sequence + 1, d.seq = sequence + 1, c # d
               PROVE  IsRead(c) /\ IsRead(d) /\ c.kind = d.kind /\ c.batch # d.batch
    BY DEF OneRequest
  <2>1. PICK b \in T, e \in T : c = n(b) /\ d = n(e)
    BY <1>1, <1>7
  <2> QED
    BY <1>4, <1>5, <2>1
<1>10. CallsName(batch, calls', generation, sequence + 1)
  <2> SUFFICES ASSUME NEW c \in calls' PROVE CallNames(batch, c, generation, sequence + 1)
    BY DEF CallsName
  <2>1. CASE c \in calls
    BY <1>2, <1>7, <2>1 DEF CallsFit, CallsName, CallNames
  <2>2. CASE \E b \in T : c = n(b)
    BY <1>3, <1>4, <2>2 DEF CallNames, Named
  <2> QED
    BY <1>1, <2>1, <2>2
<1>11. \A c \in calls' : c.got.kind = "waiting"
  BY <1>1, <1>4, <1>6
<1>12. AnswersFit(batch, calls')
  BY <1>11 DEF AnswersFit, AnswerFits
<1>13. CallsFit' /\ ExpiriesFit'
  BY <1>1, <1>8, <1>9, <1>10, <1>11, <1>12 DEF CallsFit, ExpiriesFit
<1>14. \A b : Sent(calls', b) => Sent(calls, b)
  <2>1. \A b : n(b).kind # "execute"
    BY <1>4
  <2> QED
    BY <1>1, <2>1 DEF Sent
<1> QED
  BY <1>1, <1>2, <1>13, <1>14, AskedKeeps

LEMMA ReadsAlone ==
  ASSUME CallsFit, Reads # {}
  PROVE  /\ Reads \subseteq calls /\ mounted
         /\ \A d \in calls \ Reads : d.kind = "execute" /\ d.got.kind = "waiting" /\ d.seq <= sequence /\ d.seq # sequence
<1>1. PICK c \in calls : IsRead(c) /\ IsCurrent(c)
  BY DEF Reads, IsRead
<1>2. c.seq = sequence /\ mounted
  BY <1>1 DEF IsCurrent
<1>3. ASSUME NEW d \in calls, d.seq = sequence PROVE d \in Reads
  <2>1. IsRead(d)
    BY <1>1, <1>2, <1>3 DEF CallsFit, OneRequest
  <2> QED
    BY <1>2, <1>3, <2>1 DEF Reads, IsRead, IsCurrent
<1> QED
  BY <1>2, <1>3 DEF CallsFit, NewestCalls, Reads

LEMMA ReadsEnd ==
  ASSUME CallsFit, Reads # {}, calls' = calls \ Reads, sequence' = sequence, UNCHANGED <<batch, mounted, generation>>
  PROVE  CallsFit' /\ ExpiriesFit' /\ \A b : Sent(calls', b) => Sent(calls, b)
<1>1. \A d \in calls' : d.kind = "execute" /\ d.got.kind = "waiting" /\ d.seq <= sequence /\ d.seq # sequence
  BY ReadsAlone
<1>2. /\ NewestCalls(calls', sequence, request', mounted, unconfirmed', generation) /\ OneRequest(calls', sequence)
      /\ CallsName(batch, calls', generation, sequence) /\ AnswersFit(batch, calls')
  BY <1>1, QuietCalls
<1> QED
  BY <1>1, <1>2 DEF CallsFit, ExpiriesFit, Sent

LEMMA UnauthorizedKeeps == ASSUME ConsInv, RefreshUnauthorized PROVE ConsInv'
<1>1. /\ Reads # {} /\ calls' = calls \ Reads
      /\ \/ session' = session + 1 /\ saved' = NothingSaved
         \/ UNCHANGED <<session, saved>>
      /\ UNCHANGED <<batch, mounted, generation, current, snapshots, unconfirmed, sequence, request>>
  BY DEF RefreshUnauthorized, serverVars
<1>2. CallsFit' /\ ExpiriesFit' /\ \A b : Sent(calls', b) => Sent(calls, b)
  BY <1>1, ReadsEnd DEF ConsInv
<1>3. CASE session' = session + 1 /\ saved' = NothingSaved
  BY <1>1, <1>2, <1>3, SessionEnds DEF ConsInv, ConsoleTypes, ScreenFits
<1>4. CASE UNCHANGED <<session, saved>>
  BY <1>1, <1>2, <1>4, AskedKeeps DEF ConsInv, ConsoleTypes
<1> QED
  BY <1>1, <1>3, <1>4

LEMMA FollowKeeps == ASSUME ConsInv, FollowEnds PROVE ConsInv'
<1>1. /\ mounted /\ generation = session
      /\ UNCHANGED <<batch, session, mounted, generation, current, snapshots, unconfirmed, sequence>>
  BY DEF FollowEnds, serverVars, pageVars
<1>2. ConsoleTypes /\ ScreenFits /\ CallsFit /\ ExpiriesFit /\ KeptShown
  BY DEF ConsInv
<1>3. CASE Reads # {} /\ request' = 0 /\ calls' = calls \ Reads /\ saved' = Persisted(snapshots, current, unconfirmed, session)
  <2>1. CallsFit' /\ ExpiriesFit' /\ \A b : Sent(calls', b) => Sent(calls, b)
    BY <1>1, <1>2, <1>3, ReadsEnd
  <2>2. \A b \in Batches : Claims(batch, calls', session, b) => KeptIn(snapshots, IF unconfirmed THEN current ELSE 0, b)
    BY <1>1, <1>2, <2>1 DEF KeptShown, Claims, HandedOver
  <2>3. saved' = Persisted(snapshots', current', unconfirmed', session)
    BY <1>1, <1>3
  <2>4. /\ unconfirmed' \in BOOLEAN /\ sequence' \in Nat /\ request' \in Nat /\ Rows(batch, snapshots', generation)
        /\ current' # 0 => Named(batch, current', generation)
        /\ unconfirmed' => current' # 0
        /\ (IF unconfirmed' THEN current' ELSE 0) = IF unconfirmed THEN current ELSE 0
    BY <1>1, <1>2, <1>3 DEF ConsoleTypes, ScreenFits
  <2>5. snapshots' = snapshots
    BY <1>1
  <2> QED
    BY <1>1, <2>1, <2>2, <2>3, <2>4, <2>5, Synced
<1>4. CASE UNCHANGED <<request, calls, saved>>
  <2>1. CallsFit' /\ ExpiriesFit'
    BY <1>1, <1>2, <1>4 DEF CallsFit, ExpiriesFit
  <2> QED
    BY <1>1, <1>2, <1>4, <2>1, AskedKeeps DEF ConsoleTypes
<1> QED
  BY <1>3, <1>4 DEF FollowEnds, Reads

(* What a read leaves of a row: what the service said of the batch, or the row,
   marked if the service no longer knows the batch. *)
LEMMA ReadRow ==
  ASSUME ConsInv, NEW s \in RowType, IsRow(s), \A c \in Reads : c.got.kind # "waiting"
  PROVE  /\ AfterRead(s) \in RowType /\ IsRow(AfterRead(s)) /\ AfterRead(s).id = s.id
         /\ \/ \E c \in Reads : c.batch = s.id /\ c.got.kind = "ok" /\ AfterRead(s) = c.got.snap
            \/ /\ AfterRead(s).status = "interrupted"
               /\ \A c \in Reads : c.batch = s.id => c.got.kind # "ok"
            \/ /\ AfterRead(s) = s
               /\ \A c \in Reads : c.batch = s.id => c.got.kind \notin {"ok", "missing"}
<1> DEFINE mine == {c \in Reads : c.batch = s.id}
<1>1. Reads \subseteq calls /\ \A c \in Reads : IsRead(c) /\ IsCurrent(c)
  BY DEF Reads, IsRead
<1>2. \A c, d \in mine : c = d
  BY <1>1 DEF ConsInv, CallsFit, OneRequest, IsCurrent
<1>3. AfterRead(s) = IF \E c \in mine : c.got.kind = "ok" THEN (CHOOSE c \in mine : TRUE).got.snap
                     ELSE IF \E c \in mine : c.got.kind = "missing" THEN [s EXCEPT !.status = "interrupted"]
                     ELSE s
  BY DEF AfterRead
<1> HIDE DEF mine
<1>4. CASE \E c \in mine : c.got.kind = "ok"
  <2>1. PICK c \in mine : c.got.kind = "ok"
    BY <1>4
  <2>2. (CHOOSE d \in mine : TRUE) = c
    BY <1>2, <2>1
  <2>3. AfterRead(s) = c.got.snap
    BY <1>3, <1>4, <2>2
  <2>4. c \in Reads /\ c.batch = s.id
    BY DEF mine
  <2>5. c.got.snap \in RowType /\ IsRow(c.got.snap) /\ c.got.snap.id = c.batch
    BY <1>1, <2>1, <2>4, AnsweredRow
  <2> QED
    BY <2>1, <2>3, <2>4, <2>5
<1>5. CASE ~(\E c \in mine : c.got.kind = "ok") /\ \E c \in mine : c.got.kind = "missing"
  <2> DEFINE t == [s EXCEPT !.status = "interrupted"]
  <2>1. AfterRead(s) = t
    BY <1>3, <1>5
  <2>2. t \in RowType /\ t.id = s.id /\ t.status = "interrupted" /\ t.items = s.items /\ t.done = s.done
    BY DEF RowType, Statuses
  <2>3. t = [id |-> t.id, status |-> t.status, items |-> t.items, done |-> t.done]
    BY <2>2 DEF RowType
  <2>4. IsRow(t)
    BY <2>2, <2>3 DEF IsRow
  <2> HIDE DEF t
  <2> QED
    BY <1>5, <2>1, <2>2, <2>4 DEF mine
<1>6. CASE ~(\E c \in mine : c.got.kind = "ok") /\ ~(\E c \in mine : c.got.kind = "missing")
  BY <1>3, <1>6 DEF mine
<1> QED
  BY <1>4, <1>5, <1>6

LEMMA ReadRows ==
  ASSUME ConsInv, \A c \in Reads : c.got.kind # "waiting",
         NEW now, now = [i \in DOMAIN snapshots |-> AfterRead(snapshots[i])]
  PROVE  /\ DOMAIN now = 1..Len(snapshots) /\ Len(now) = Len(snapshots) /\ Rows(batch, now, generation)
         /\ \A i \in 1..Len(snapshots) :
              /\ snapshots[i] \in RowType /\ IsRow(snapshots[i])
              /\ now[i] = AfterRead(snapshots[i]) /\ now[i].id = snapshots[i].id
<1>1. Rows(batch, snapshots, generation)
  BY DEF ConsInv, ScreenFits
<1>2. snapshots \in Seq(RowType) /\ DOMAIN snapshots = 1..Len(snapshots) /\ Len(snapshots) \in Nat
  BY <1>1 DEF Rows
<1>3. \A i \in 1..Len(snapshots) : snapshots[i] \in RowType /\ IsRow(snapshots[i])
  BY <1>1, <1>2 DEF Rows
<1>4. \A i \in 1..Len(snapshots) : now[i] = AfterRead(snapshots[i])
  BY <1>2
<1>5. \A i \in 1..Len(snapshots) : now[i] \in RowType /\ IsRow(now[i]) /\ now[i].id = snapshots[i].id
  BY <1>3, <1>4, ReadRow
<1>6. now \in Seq(RowType) /\ Len(now) = Len(snapshots)
  <2>1. now \in [1..Len(snapshots) -> RowType]
    <3>1. now = [i \in 1..Len(snapshots) |-> now[i]]
      BY <1>2
    <3> QED
      BY ONLY <1>5, <3>1
  <2>2. now \in Seq(RowType)
    BY ONLY <1>2, <2>1
  <2>3. DOMAIN now = 1..Len(now) /\ DOMAIN now = 1..Len(snapshots) /\ Len(now) \in Nat
    BY ONLY <2>1, <2>2
  <2>4. Len(now) = Len(snapshots)
    <3> DEFINE m == Len(now)
               n == Len(snapshots)
    <3>1. m \in Nat /\ n \in Nat /\ \A i : i \in 1..m <=> i \in 1..n
      BY ONLY <1>2, <2>3
    <3> HIDE DEF m, n
    <3>2. m = n
      <4>1. CASE m > n
        BY <3>1, <4>1
      <4>2. CASE n > m
        BY <3>1, <4>2
      <4> QED
        BY <3>1, <4>1, <4>2
    <3> QED
      BY <3>2 DEF m, n
  <2> QED
    BY <2>2, <2>4
<1>7. Rows(batch, now, generation)
  BY <1>1, <1>5, <1>6 DEF Rows
<1> QED
  BY <1>2, <1>3, <1>4, <1>5, <1>6, <1>7

(* Every row becomes what its own read answered; the unconfirmed one is settled by a read that found it started. *)
LEMMA RefreshAnsweredKeeps == ASSUME ConsInv, RefreshAnswered PROVE ConsInv'
<1> DEFINE recovered == unconfirmed /\ \E c \in ReadOperation("ok") : c.batch = current
           forgotten == \E c \in ReadOperation("missing") : c.batch = current
           now == [i \in DOMAIN snapshots |-> AfterRead(snapshots[i])]
<1>1. /\ Reads # {} /\ generation = session /\ \A c \in Reads : c.got.kind # "waiting"
      /\ snapshots' = now
      /\ unconfirmed' = (unconfirmed /\ ~recovered /\ ~forgotten)
      /\ current' = IF forgotten THEN 0 ELSE current
      /\ saved' = Persisted(now, current', unconfirmed', session)
      /\ request' = 0 /\ calls' = calls \ Reads
      /\ UNCHANGED <<batch, session, mounted, generation, sequence>>
  BY DEF RefreshAnswered, pageVars, serverVars
<1>2. ConsoleTypes /\ CallsFit /\ ScreenFits /\ KeptShown
  BY DEF ConsInv
<1>3. mounted
  BY <1>1, <1>2, ReadsAlone
<1>4. CallsFit' /\ ExpiriesFit' /\ \A b : Sent(calls', b) => Sent(calls, b)
  BY <1>1, <1>2, ReadsEnd
<1>5. /\ Len(now) = Len(snapshots) /\ Rows(batch, now, generation)
      /\ \A i \in 1..Len(snapshots) : /\ snapshots[i] \in RowType /\ IsRow(snapshots[i])
                                      /\ now[i] = AfterRead(snapshots[i]) /\ now[i].id = snapshots[i].id
  BY <1>1, ReadRows
<1> HIDE DEF now
<1>6. unconfirmed' => unconfirmed /\ ~forgotten /\ current' = current
  BY <1>1
<1>7. current' # 0 => Named(batch, current', generation)
  BY <1>1, <1>2 DEF ScreenFits
<1>8. ASSUME NEW b \in Batches, Claims(batch, calls', session, b)
      PROVE  KeptIn(now, IF unconfirmed' THEN current' ELSE 0, b)
  <2>1. Claims(batch, calls, session, b)
    BY <1>4, <1>8 DEF Claims, HandedOver
  <2>2. KeptIn(snapshots, IF unconfirmed THEN current ELSE 0, b) /\ b # 0
    BY <1>1, <1>2, <1>3, <2>1, ConsoleAssumption DEF KeptShown, Batches
  <2>3. PICK i \in 1..Len(snapshots) :
          snapshots[i].id = b /\ ((unconfirmed /\ current = b) \/ snapshots[i].status # "preview")
    BY <2>2 DEF KeptIn
  <2>4. i \in 1..Len(now) /\ now[i].id = b /\ now[i] = AfterRead(snapshots[i])
    BY <1>5, <2>3
  <2>5. \/ \E c \in Reads : c.batch = b /\ c.got.kind = "ok" /\ now[i] = c.got.snap
        \/ now[i].status = "interrupted"
        \/ /\ now[i] = snapshots[i]
           /\ \A c \in Reads : c.batch = b => c.got.kind \notin {"ok", "missing"}
    BY <1>1, <1>5, <2>3, <2>4, ReadRow
  <2>6. CASE \E c \in Reads : c.batch = b /\ c.got.kind = "ok" /\ now[i] = c.got.snap
    <3>1. PICK c \in Reads : c.batch = b /\ c.got.kind = "ok" /\ now[i] = c.got.snap
      BY <2>6
    <3>2. c \in calls /\ IsRead(c) /\ AnswerFits(batch, calls, c)
      BY <1>2 DEF Reads, IsRead, CallsFit, AnswersFit
    <3>3. c.got.snap.status # "preview"
      BY <2>1, <3>1, <3>2 DEF AnswerFits, Claims
    <3> QED
      BY <2>4, <3>1, <3>3 DEF KeptIn
  <2>7. CASE now[i].status = "interrupted"
    BY <2>4, <2>7 DEF KeptIn
  <2>8. CASE /\ now[i] = snapshots[i]
             /\ \A c \in Reads : c.batch = b => c.got.kind \notin {"ok", "missing"}
    <3>1. CASE snapshots[i].status # "preview"
      BY <2>4, <2>8, <3>1 DEF KeptIn
    <3>2. CASE unconfirmed /\ current = b
      <4>1. ~recovered /\ ~forgotten
        BY <2>8, <3>2 DEF ReadOperation
      <4>2. unconfirmed' /\ current' = b
        BY <1>1, <3>2, <4>1
      <4> QED
        BY <2>4, <4>2 DEF KeptIn
    <3> QED
      BY <2>3, <3>1, <3>2
  <2> QED
    BY <2>5, <2>6, <2>7, <2>8
<1>9. /\ unconfirmed' \in BOOLEAN /\ sequence' \in Nat /\ request' \in Nat
      /\ unconfirmed' => current' # 0
  <2>1. unconfirmed' \in BOOLEAN
    BY <1>1
  <2> QED
    BY <1>1, <1>2, <1>6, <2>1 DEF ConsoleTypes, ScreenFits
<1>10. saved' = Persisted(snapshots', current', unconfirmed', session) /\ Rows(batch, snapshots', generation)
  BY <1>1, <1>5
<1> QED
  BY <1>1, <1>3, <1>4, <1>7, <1>8, <1>9, <1>10, Synced

-----------------------------------------------------------------------------
(* Nothing is submitted at first. *)
LEMMA ConsStarts == ConsoleInit => ConsInv
<1> SUFFICES ASSUME ConsoleInit PROVE ConsInv
  OBVIOUS
<1>1. /\ batch = [b \in Batches |-> NoBatch] /\ session = 0 /\ saved = NothingSaved
      /\ mounted = FALSE /\ generation = 0 /\ current = 0 /\ snapshots = <<>> /\ unconfirmed = FALSE
      /\ sequence = 0 /\ request = 0 /\ calls = {}
  BY DEF ConsoleInit
<1>2. IsBatch(NoBatch) /\ NoBatch.session = 0 /\ NoBatch.items = {} /\ NoBatch.status = "none"
  BY DEF IsBatch, NoBatch
<1>3. \A b \in Batches : batch[b] = NoBatch
  BY <1>1
<1>4. batch = [b \in Batches |-> batch[b]]
  BY <1>1
<1>5. BatchTypes(batch, session)
  <2>1. NoBatch.session <= 0 /\ NoBatch.items \subseteq Records /\ NoBatch.status \in Statuses
    BY <1>2 DEF Statuses
  <2> QED
    BY <1>1, <1>2, <1>3, <1>4, <2>1 DEF BatchTypes
<1>6. ConsoleTypes
  <2>1. saved = [results |-> saved.results, latest |-> saved.latest, unconfirmed |-> saved.unconfirmed]
    BY <1>1, NothingIsSaved
  <2>2. unconfirmed \in BOOLEAN /\ mounted \in BOOLEAN
    BY <1>1
  <2> QED
    BY <1>1, <1>5, <2>1, <2>2 DEF ConsoleTypes
<1>7. ScreenFits
  BY <1>1, NothingNamed, NothingIsSaved DEF ScreenFits
<1>8. CallsFit /\ ExpiriesFit
  BY <1>1 DEF CallsFit, ExpiriesFit, NewestCalls, OneRequest, CallsName, AnswersFit
<1>9. \A b \in Batches : ~Claims(batch, calls, session, b)
  BY <1>2, <1>3 DEF Claims, HandedOver
<1>10. KeptSaved /\ KeptShown
  BY <1>9 DEF KeptSaved, KeptShown
<1> QED
  BY <1>6, <1>7, <1>8, <1>10 DEF ConsInv

LEMMA ConsKeeps == ASSUME ConsInv, [ConsoleNext]_consoleVars PROVE ConsInv'
<1>1. CASE UNCHANGED consoleVars
  <2>1. UNCHANGED <<batch, session, saved, mounted, generation, current, snapshots, unconfirmed, sequence, request, calls>>
    BY <1>1 DEF consoleVars
  <2>2. ConsoleTypes' = ConsoleTypes /\ ScreenFits' = ScreenFits
    BY <2>1 DEF ConsoleTypes, ScreenFits
  <2>3. CallsFit' = CallsFit /\ ExpiriesFit' = ExpiriesFit
    BY <2>1 DEF CallsFit, ExpiriesFit
  <2>4. KeptSaved' = KeptSaved /\ KeptShown' = KeptShown
    BY <2>1 DEF KeptSaved, KeptShown
  <2> QED
    BY <2>2, <2>3, <2>4 DEF ConsInv
<1>2. CASE Mount \/ Unmount \/ EndSession
  BY <1>2, MountKeeps, UnmountKeeps, EndKeeps
<1>3. CASE \E items \in SUBSET Records \ {{}} : Preview(items)
  BY <1>3, PreviewKeeps
<1>4. CASE Confirm \/ RetrySubmission \/ CloseList
  BY <1>4, ConfirmKeeps, CloseListKeeps
<1>5. CASE \E source \in {"refreshed", "followed"} : Refresh(source)
  BY <1>5, RefreshKeeps
<1>6. CASE RefreshAnswered \/ RefreshUnauthorized \/ FollowEnds
  BY <1>6, RefreshAnsweredKeeps, UnauthorizedKeeps, FollowKeeps
<1>7. ASSUME NEW c \in calls, GrantPreview(c) \/ AcceptExecute(c) \/ AnswerRead(c) \/ Refused(c) \/ Lost(c)
      PROVE  ConsInv'
  BY <1>7, GrantKeeps, AcceptKeeps, AnswerReadKeeps, UnansweredKeeps
<1>8. ASSUME NEW c \in calls, PreviewAnswered(c) \/ ExecuteAnswered(c) PROVE ConsInv'
  BY <1>8, PreviewAnsweredKeeps, ExecuteAnsweredKeeps
<1>9. ASSUME NEW b \in Batches, BatchEnds(b) \/ Forgotten(b) \/ (\E r \in Records : ItemDone(b, r)) PROVE ConsInv'
  BY <1>9, ServiceKeeps
<1> QED
  BY <1>1, <1>2, <1>3, <1>4, <1>5, <1>6, <1>7, <1>8, <1>9 DEF ConsoleNext

(* What was accepted is claimed, and what is claimed is found. *)
LEMMA ConsSafe == ASSUME ConsInv PROVE BatchesAreKept
<1>1. /\ Rows(batch, snapshots, generation) /\ Rows(batch, saved.results, session)
      /\ KeptSaved /\ KeptShown
  BY DEF ConsInv, ScreenFits
<1>2. SubmissionsAreKept
  <2> SUFFICES ASSUME NEW b \in Batches, batch[b].status \in {"running", "finished"},
                      batch[b].session = session, ~batch[b].overtaken
               PROVE  FoundRow(Known, b) /\ (Open = b \/ Known[ConsoleAt(Known, b)].status # "preview")
    BY DEF SubmissionsAreKept
  <2>1. Claims(batch, calls, session, b)
    BY DEF Claims, HandedOver
  <2>2. KeptIn(Known, Open, b)
    BY <1>1, <2>1 DEF KeptSaved, KeptShown, Known, Open
  <2>3. Rows(batch, Known, session)
    BY <1>1 DEF Known
  <2>4. PICK i \in 1..Len(Known) : Known[i].id = b /\ (Open = b \/ Known[i].status # "preview")
    BY <2>2 DEF KeptIn
  <2>5. FoundRow(Known, Known[i].id) /\ ConsoleAt(Known, Known[i].id) = i
    BY <2>3, RowFound
  <2> QED
    BY <2>4, <2>5
<1>3. SessionsAreSeparate
  BY <1>1, RowFound DEF SessionsAreSeparate, Rows, Named
<1> QED
  BY <1>2, <1>3 DEF BatchesAreKept

(* A record that the progress unselects is done in the newest row that names it. *)
LEMMA FailedStay ==
  ASSUME ConsInv, NEW r \in selected \ selected', RefreshAnswered, ~unconfirmed
  PROVE  LET last == Max({i \in DOMAIN snapshots' : r \in snapshots'[i].items}) IN r \in snapshots'[last].done
<1> DEFINE now == [i \in DOMAIN snapshots |-> AfterRead(snapshots[i])]
           moved == {i \in DOMAIN snapshots : /\ now[i] # snapshots[i]
                                              /\ \E c \in ReadOperation("ok") : c.batch = now[i].id}
           S == {i \in DOMAIN snapshots' : r \in snapshots'[i].items}
<1>1. /\ snapshots' = now /\ \A c \in Reads : c.got.kind # "waiting"
      /\ selected' = selected \ UNION {Unselected(now, now[i]) : i \in moved}
  BY DEF RefreshAnswered
<1>2. PICK i \in DOMAIN snapshots : r \in Unselected(now, now[i])
  BY <1>1
<1>3. Rows(batch, now, generation) /\ Len(now) = Len(snapshots) /\ DOMAIN snapshots = 1..Len(snapshots)
  <2>1. Rows(batch, snapshots, generation)
    BY DEF ConsInv, ScreenFits
  <2> QED
    BY <1>1, <2>1, ReadRows, RowFound
<1> HIDE DEF now
<1>4. i \in 1..Len(now) /\ Len(now) \in Nat /\ DOMAIN now = 1..Len(now) /\ ConsoleAt(now, now[i].id) = i
  BY <1>2, <1>3, RowFound
<1>5. now[i].done \subseteq now[i].items
  BY <1>3, <1>4 DEF Rows, IsRow
<1>6. r \in now[i].done /\ \A j \in (i + 1)..Len(now) : r \notin now[j].items
  BY <1>2, <1>4 DEF Unselected, NewerIds
<1>7. i \in S /\ \A j \in S : i >= j
  <2>1. i \in S
    BY <1>1, <1>4, <1>5, <1>6
  <2>2. ASSUME NEW j \in S, ~(i >= j) PROVE FALSE
    <3>1. j \in 1..Len(now) /\ r \in now[j].items
      BY <1>1, <1>4
    <3>2. j \in (i + 1)..Len(now)
      BY <1>4, <2>2, <3>1
    <3> QED
      BY <1>6, <3>1, <3>2
  <2> QED
    BY <2>1, <2>2
<1>8. \A j \in S : j \in Nat
  BY <1>1, <1>4
<1> HIDE DEF S
<1>9. Max(S) = i
  <2>1. \A j \in S : (\A k \in S : j >= k) => j = i
    BY <1>7, <1>8
  <2> QED
    BY <1>7, <2>1 DEF Max
<1> QED
  BY <1>1, <1>6, <1>9 DEF S

-----------------------------------------------------------------------------
(* The lists of the console never forget or mix up what the operator left in
   them: every batch the service accepted in the session stays in what is
   shown and in what the next mount restores, unless a read overtook its
   submission (Operations.tsx, execute and refresh), no batch of an earlier
   session is restored (resetManagedListState), rows and selections are those
   of the scope on screen (ManagedList), and a record that did not succeed in
   the newest batch naming it stays selected (reportRefreshed). *)
THEOREM ConsoleStaysSafe == MCSpec => ConsoleIsSafe
<1> DEFINE MCVars == <<part, vars, opVars, consoleVars, rowVars, diagVars>>
           Console == ConsInv /\ RowsInv
           FailedStays == \A r \in selected \ selected' :
             RefreshAnswered /\ ~unconfirmed =>
               LET last == Max({i \in DOMAIN snapshots' : r \in snapshots'[i].items}) IN
               r \in snapshots'[last].done
<1>1. MCInit => Console
  BY ConsStarts, RowsStart DEF MCInit
<1>2. [MCNext]_MCVars => [ConsoleNext]_consoleVars /\ [RowsNext]_rowVars
  BY DEF MCNext
<1>3. Console /\ [MCNext]_MCVars => Console'
  BY <1>2, ConsKeeps, RowsKeep
<1>4. Console => BatchesAreKept /\ RowsAreSafe
  BY ConsSafe, RowsAreSafeThen
<1>5. Console /\ [MCNext]_MCVars => [FailedStays]_consoleVars
  BY FailedStay
<1> QED
  <2> HIDE DEF Console
  <2> QED
    BY <1>1, <1>3, <1>4, <1>5, PTL DEF MCSpec, ConsoleIsSafe, FailedStaySelected
=============================================================================

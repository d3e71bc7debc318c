---------------------------- MODULE LoginProofs ----------------------------
(***************************************************************************)
(* One login in its browser, the batch of operations that starts logins    *)
(* from the console, and the building of a pool member, which starts them  *)
(* by itself.  No property is inductive.                                   *)
(*                                                                         *)
(* BrowserInv adds where the flow can be while a browser is starting or    *)
(* being closed, the bound each loop gives its attempts, and that a field  *)
(* about to be filled was checked on the page that is open, or that the    *)
(* page has navigated since (CheckedPage).                                 *)
(*                                                                         *)
(* OpInv adds that an item is with one worker, which has submitted nothing *)
(* for it yet, or was submitted: an account whose item was taken has no    *)
(* second taken item, so it can have no second job.                        *)
(*                                                                         *)
(* ProvisionInv adds what the stage of a member says of the effects asked  *)
(* of SSO and of its logins (MemberSound), and that the rows which claim a *)
(* slot are at most the limit: a login that works is always one of them.   *)
(***************************************************************************)
EXTENDS BrowserLogin, Operations, Provisioner, FiniteSetTheorems, TLAPS

-----------------------------------------------------------------------------
(* BrowserLogin *)

(* Every step of the flow, the browser and the page keeps BrowserInv. *)
LEMMA BrowserStep ==
  ASSUME BrowserInv, BrowserNext
  PROVE  BrowserInv'
<1> USE BrowserAssumption DEF BrowserInv, BrowserTypeOK, BrowserIsKnown, TriesAreBounded, CredentialsStayOnSso,
        NoBrowserIsLeft, CheckedPage, Typing, Open, Go, GoOn, GoStage, AfterSso, Return, signalVars, endVars
<1>1. CASE NewPage
  BY <1>1 DEF NewPage
<1>2. CASE openDevicePage
  BY <1>2 DEF openDevicePage
<1>3. CASE selectGitHubDeviceAccountIfPresent
  BY <1>3 DEF selectGitHubDeviceAccountIfPresent
<1>4. CASE completeLoginIfNeeded
  BY <1>4 DEF completeLoginIfNeeded
<1>5. CASE completeGitHubLogin
  BY <1>5 DEF completeGitHubLogin
<1>6. CASE NeedSso
  BY <1>6 DEF NeedSso
<1>7. CASE CheckUrl
  BY <1>7 DEF CheckUrl
<1>8. CASE LoginDone
  BY <1>8 DEF LoginDone
<1>9. CASE completeSsoLogin
  BY <1>9 DEF completeSsoLogin
<1>10. CASE continueGitHubSsoIfPresent
  BY <1>10 DEF continueGitHubSsoIfPresent
<1>11. CASE AwaitSso
  BY <1>11 DEF AwaitSso
<1>12. CASE fillSsoField
  BY <1>12 DEF fillSsoField, Fill, TypingOf
<1>13. CASE ReturnToGitHub
  BY <1>13 DEF ReturnToGitHub
<1>14. CASE submitDeviceCode
  BY <1>14 DEF submitDeviceCode
<1>15. CASE confirmGitHubAuthorization
  BY <1>15 DEF confirmGitHubAuthorization
<1>16. CASE RequestDeviceCode
  BY <1>16 DEF RequestDeviceCode
<1>17. CASE Launch
  BY <1>17 DEF Launch
<1>18. CASE Launched
  BY <1>18 DEF Launched
<1>19. CASE Throw
  BY <1>19 DEF Throw, Driving
<1>20. CASE CatchLogin
  BY <1>20 DEF CatchLogin
<1>21. CASE Finally
  BY <1>21 DEF Finally
<1>22. CASE Closed
  BY <1>22 DEF Closed
<1>23. CASE AfterAuthorize
  BY <1>23 DEF AfterAuthorize
<1>24. CASE PollAccessToken
  BY <1>24 DEF PollAccessToken
<1>25. CASE CloseBrowser
  BY <1>25 DEF CloseBrowser
<1>26. CASE AbortSignal
  BY <1>26 DEF AbortSignal, Listening
<1>27. CASE Navigate
  <2>1. moved' \in BOOLEAN
    <3>1. moved' = (loginAt \in Typing)
      BY ONLY <1>27 DEF Navigate
    <3>2. CASE loginAt \in Typing
      <4>1. (loginAt \in Typing) = TRUE
        BY ONLY <3>2
      <4> QED
        BY ONLY <3>1, <4>1
    <3>3. CASE loginAt \notin Typing
      <4>1. (loginAt \in Typing) = FALSE
        BY ONLY <3>3
      <4> QED
        BY ONLY <3>1, <4>1
    <3> QED
      BY <3>2, <3>3
  <2>2. CheckedPage'
    BY <1>27, Zenon DEF Navigate
  <2>3. page' \in Pages /\ UNCHANGED <<gheCom, loginAt, loginStage, signalVars, tries, result, flow, typed>>
    BY <1>27 DEF Navigate
  <2> QED
    BY <2>1, <2>2, <2>3
<1>28. CASE fillFirst
  <2>1. CredentialPage(page) \/ moved
    BY <1>28 DEF fillFirst
  <2>2. typed' \subseteq [sso : BOOLEAN, moved : BOOLEAN] /\ CredentialsStayOnSso'
    <3> DEFINE t == [sso |-> CredentialPage(page), moved |-> moved]
    <3>1. CredentialPage(page) \in BOOLEAN /\ moved \in BOOLEAN
      BY DEF CredentialPage, isSsoUrl, hasKnownProviderUrl
    <3>2. t \in [sso : BOOLEAN, moved : BOOLEAN]
      BY <3>1, Zenon
    <3>3. t.sso \/ t.moved
      BY <2>1, Zenon
    <3>4. typed' = typed \cup {t}
      BY <1>28 DEF fillFirst
    <3> HIDE DEF t
    <3> QED
      BY <3>2, <3>3, <3>4, Zenon
  <2>3. /\ moved' = FALSE /\ loginAt' \in {"fill-password", "await-return"}
        /\ UNCHANGED <<gheCom, loginStage, page, signalVars, tries, result, flow>>
    BY <1>28 DEF fillFirst, AfterFill
  <2>4. loginAt \in Typing
    BY <1>28 DEF fillFirst
  <2> QED
    BY <2>2, <2>3, <2>4
<1> QED
  BY <1>1, <1>2, <1>3, <1>4, <1>5, <1>6, <1>7, <1>8, <1>9, <1>10, <1>11, <1>12, <1>13, <1>14,
     <1>15, <1>16, <1>17, <1>18, <1>19, <1>20, <1>21, <1>22, <1>23, <1>24, <1>25, <1>26, <1>27, <1>28
     DEF BrowserNext, FlowStep, PageStep

(* BrowserInv holds in every state of a login. *)
LEMMA BrowserInvariant == BrowserSpec => []BrowserInv
<1>1. BrowserInit => BrowserInv
  <2> SUFFICES ASSUME BrowserInit PROVE BrowserInv
    OBVIOUS
  <2>1. BrowserTypeOK
    <3>1. 1 \in 0..(DeviceAttempts + DeviceLifetime + 3)
      <4>1. DeviceAttempts \in Nat /\ DeviceLifetime \in Nat
        BY BrowserAssumption
      <4> QED
        BY <4>1
    <3> QED
      BY <3>1 DEF BrowserInit, BrowserTypeOK, Pages
  <2>2. BrowserIsKnown /\ TriesAreBounded
    BY DEF BrowserInit, BrowserIsKnown, TriesAreBounded, Open
  <2>3. CredentialsStayOnSso /\ NoBrowserIsLeft /\ CheckedPage
    BY DEF BrowserInit, CredentialsStayOnSso, NoBrowserIsLeft, CheckedPage, Typing
  <2> QED
    BY <2>1, <2>2, <2>3 DEF BrowserInv
<1>2. BrowserInv /\ [BrowserNext]_browserVars => BrowserInv'
  <2>1. CASE BrowserInv /\ BrowserNext
    BY <2>1, BrowserStep
  <2>2. CASE BrowserInv /\ UNCHANGED browserVars
    BY <2>2 DEF browserVars, signalVars, endVars, BrowserInv, BrowserTypeOK, BrowserIsKnown,
       TriesAreBounded, CredentialsStayOnSso, NoBrowserIsLeft, CheckedPage, CredentialPage, isSsoUrl,
       hasKnownProviderUrl, Open
  <2> QED
    BY <2>1, <2>2
<1> QED
  BY <1>1, <1>2, PTL DEF BrowserSpec

(* Wherever the page navigates and whenever the signal fires, credentials are
   typed into the login pages of the enterprise unless the page navigated after
   the check of that very field and before its fill, and a login that has
   returned leaves no browser (HeadlessPlaywrightAuthStrategy.ts). *)
THEOREM BrowserStaysSafe == BrowserSpec => []BrowserIsSafe
<1>1. BrowserInv => BrowserIsSafe
  BY DEF BrowserInv, BrowserIsSafe
<1> QED
  BY <1>1, BrowserInvariant, PTL

-----------------------------------------------------------------------------
(* Operations *)

(* Types are kept by every step. *)
LEMMA OpTypeStep ==
  ASSUME OpInv, OpNext
  PROVE  OpTypeOK'
<1> USE OperationsAssumption DEF Items
<1>0. OpTypeOK
  BY DEF OpInv
<1>1. NoWork \in WorkerState
  BY DEF NoWork, WorkerState
<1>2. ASSUME NEW i \in Items, PreviewItem(i) PROVE OpTypeOK'
  <2>1. item' \in [Items -> OpSettled \cup {"none", "pending", "running"}]
    BY <1>0, <1>2 DEF PreviewItem, OpTypeOK, OpSettled
  <2>2. revision' \in [Items -> 0..MaxChanges]
    <3>1. record[i].revision \in 0..MaxChanges
      BY <1>0 DEF OpTypeOK, RecordState
    <3> QED
      BY <1>0, <1>2, <3>1 DEF PreviewItem, OpTypeOK
  <2>3. previewed' \in 0..N /\ op' \in {"previewing", "preview", "running", "awaiting", "completed", "gone"}
    BY <1>0, <1>2 DEF PreviewItem, OpTypeOK
  <2> QED
    BY <1>0, <1>2, <2>1, <2>2, <2>3 DEF PreviewItem, OpTypeOK
<1>3. ASSUME NEW i \in Items, RefreshJob(i) PROVE OpTypeOK'
  <2>1. item' \in [Items -> OpSettled \cup {"none", "pending", "running"}]
    <3>1. opJob[i] \in {"none", "live", "success", "failed"}
      BY <1>0 DEF OpTypeOK
    <3> QED
      BY <1>0, <1>3, <3>1 DEF RefreshJob, OpTypeOK, OpSettled
  <2>2. opFailures' \in [Items -> 0..MaxRefreshFailures]
    BY <1>0, <1>3 DEF RefreshJob, OpTypeOK
  <2> QED
    BY <1>0, <1>3, <2>1, <2>2 DEF RefreshJob, OpTypeOK
<1>4. ASSUME NEW i \in Items, RefreshFails(i) PROVE OpTypeOK'
  <2>1. item' \in [Items -> OpSettled \cup {"none", "pending", "running"}]
    BY <1>0, <1>4 DEF RefreshFails, OpTypeOK, OpSettled
  <2>2. opFailures' \in [Items -> 0..MaxRefreshFailures]
    <3>1. opFailures[i] + 1 \in 0..MaxRefreshFailures
      <4>1. opFailures[i] \in 0..MaxRefreshFailures
        BY <1>0 DEF OpTypeOK
      <4>2. opFailures[i] < MaxRefreshFailures
        BY <1>4 DEF RefreshFails, OpInv, FreshInv
      <4> QED
        BY <4>1, <4>2
    <3> QED
      BY <1>0, <1>4, <3>1 DEF RefreshFails, OpTypeOK
  <2> QED
    BY <1>0, <1>4, <2>1, <2>2 DEF RefreshFails, OpTypeOK
<1>5. ASSUME NEW i \in Items, Change(i) PROVE OpTypeOK'
  <2>1. record' \in [Items -> RecordState]
    <3>1. record[i] \in RecordState
      BY <1>0 DEF OpTypeOK
    <3>2. [exists |-> FALSE, revision |-> record[i].revision] \in RecordState
      BY <3>1 DEF RecordState
    <3>3. [exists |-> TRUE, revision |-> record[i].revision + 1] \in RecordState
      BY <1>5, <3>1 DEF RecordState, Change
    <3> QED
      BY <1>0, <1>5, <3>2, <3>3 DEF Change, OpTypeOK
  <2> QED
    BY <1>0, <1>5, <2>1 DEF Change, OpTypeOK
<1>6. ASSUME NEW i \in Items, JobEnds(i) PROVE OpTypeOK'
  <2>1. opJob' \in [Items -> {"none", "live", "success", "failed"}]
    BY <1>0, <1>6 DEF JobEnds, OpTypeOK
  <2> QED
    BY <1>0, <1>6, <2>1 DEF JobEnds, OpTypeOK
<1>7. ASSUME NEW w \in Workers, NEW x \in WorkerState, worker' = [worker EXCEPT ![w] = x]
      PROVE  worker' \in [Workers -> WorkerState]
  BY <1>0, <1>7 DEF OpTypeOK
<1>8. ASSUME NEW w \in Workers
      PROVE  /\ \A p \in {"done", "perform"} : [index |-> worker[w].index, phase |-> p] \in WorkerState
             /\ \A n \in Items : [index |-> n, phase |-> "check"] \in WorkerState
  <2>1. worker[w] \in WorkerState
    BY <1>0 DEF OpTypeOK
  <2> QED
    BY <2>1 DEF WorkerState
<1>9. ASSUME NEW w \in Workers, Take(w) PROVE OpTypeOK'
  <2>1. next' \in 1..(N + 1)
    BY <1>0, <1>9 DEF Take, OpTypeOK
  <2>3. item' \in [Items -> OpSettled \cup {"none", "pending", "running"}]
    <3>1. item \in [Items -> OpSettled \cup {"none", "pending", "running"}]
      BY <1>0 DEF OpTypeOK
    <3>2. item' = item \/ item' = [item EXCEPT ![next] = "running"]
      BY <1>9 DEF Take
    <3> QED
      BY ONLY <3>1, <3>2
  <2>2. worker' \in [Workers -> WorkerState]
    <3>1. next > N \/ next \in Items
      BY <1>0 DEF OpTypeOK
    <3> QED
      BY <1>0, <1>7, <1>8, <1>9, <3>1, Zenon DEF Take, OpTypeOK
  <2> QED
    BY <1>0, <1>9, <2>1, <2>2, <2>3 DEF Take, OpTypeOK
<1>10. ASSUME NEW w \in Workers, Check(w) PROVE OpTypeOK'
  <2>1. item' \in [Items -> OpSettled \cup {"none", "pending", "running"}]
    BY <1>0, <1>10 DEF Check, OpTypeOK, OpSettled
  <2>2. worker' \in [Workers -> WorkerState]
    BY <1>0, <1>1, <1>7, <1>8, <1>10, Zenon DEF Check, OpTypeOK
  <2> QED
    BY <1>0, <1>10, <2>1, <2>2 DEF Check, OpTypeOK
<1>11. ASSUME NEW w \in Workers, Perform(w) \/ PerformNow(w) PROVE OpTypeOK'
  <2>1. item' \in [Items -> OpSettled \cup {"none", "pending", "running"}]
    BY <1>0, <1>11 DEF Perform, PerformNow, Submitted, OpTypeOK, OpSettled
  <2>2. worker' \in [Workers -> WorkerState]
    BY <1>1, <1>7, <1>11, Zenon DEF Perform, PerformNow, Submitted
  <2>3. opJob' \in [Items -> {"none", "live", "success", "failed"}]
    BY <1>0, <1>11 DEF Perform, PerformNow, Submitted, OpTypeOK
  <2> QED
    BY <1>0, <1>11, <2>1, <2>2, <2>3 DEF Perform, PerformNow, OpTypeOK
<1>12. CASE Execute \/ Collect \/ CompleteOperation \/ Sweep
  BY <1>0, <1>12 DEF Execute, Collect, CompleteOperation, Sweep, OpTypeOK
<1> QED
  BY <1>2, <1>3, <1>4, <1>5, <1>6, <1>9, <1>10, <1>11, <1>12 DEF OpNext

(* A worker that settles its item leaves the others alone. *)
LEMMA SettleStep ==
  ASSUME OpInv, OpTypeOK', NEW w \in Workers, NEW i \in Items, WorksOn(w, i),
         item'[i] \in {"running", "skipped", "success", "failed", "interrupted"},
         \A k \in Items \ {i} : item'[k] = item[k],
         worker' = [worker EXCEPT ![w] = NoWork],
         \A k \in Items \ {i} : opJob'[k] = opJob[k],
         item'[i] = "skipped" => opJob'[i] = "none",
         item'[i] = "running" => opJob'[i] # "none",
         item'[i] = "success" => opJob'[i] = "success",
         UNCHANGED <<op, revision, previewed, next, opFailures, record>>
  PROVE  PreviewInv' /\ WorkInv' /\ ExhaustedInv' /\ NoSilentEffect'
<1>1. op = "running" /\ item[i] = "running" /\ opJob[i] = "none" /\ Taken(i)
  BY DEF OpInv, WorkInv, WorksOn, Taken
<1>2. PreviewInv'
  <2>1. \A k \in Items : Taken(k)' => Taken(k)
    BY <1>1 DEF Taken
  <2>2. \A k, m \in Items : Taken(k)' /\ Taken(m)' /\ KeyOf[k] = KeyOf[m] => k = m
    BY <2>1 DEF OpInv, PreviewInv
  <2>3. \A k \in Items : item'[k] = "none" <=> k > previewed
    BY <1>1 DEF OpInv, PreviewInv
  <2> QED
    BY <1>1, <2>2, <2>3 DEF OpInv, PreviewInv
<1>3. worker'[w].phase = "idle" /\ \A v \in Workers \ {w} : worker'[v] = worker[v]
  BY DEF OpInv, OpTypeOK, NoWork
<1>4. \A v \in Workers, k \in Items : WorksOn(v, k)' <=> WorksOn(v, k) /\ v # w
  BY <1>3 DEF WorksOn
<1>5. \A v \in Workers, k \in Items : WorksOn(v, k) /\ v # w => k # i
  BY DEF OpInv, WorkInv
<1>6. WorkInv'
  <2>1. ASSUME NEW v \in Workers, worker'[v].phase \in {"check", "perform"}
        PROVE  /\ op' = "running" /\ worker'[v].index \in Items
               /\ item'[worker'[v].index] = "running" /\ opJob'[worker'[v].index] = "none"
    <3>1. v # w /\ worker'[v] = worker[v]
      BY <1>3, <2>1
    <3>2. worker[v].index \in Items /\ WorksOn(v, worker[v].index)
      BY <2>1, <3>1 DEF OpInv, WorkInv, WorksOn
    <3>3. worker[v].index # i
      BY <1>5, <3>1, <3>2
    <3> QED
      BY <1>1, <2>1, <3>1, <3>2, <3>3 DEF OpInv, WorkInv
  <2>2. \A u, v \in Workers, k \in Items : WorksOn(u, k)' /\ WorksOn(v, k)' => u = v
    BY <1>4 DEF OpInv, WorkInv
  <2>3. \A k \in Items : item'[k] = "running" => opJob'[k] # "none" \/ \E v \in Workers : WorksOn(v, k)'
    <3> SUFFICES ASSUME NEW k \in Items, item'[k] = "running", k # i
                 PROVE  opJob'[k] # "none" \/ \E v \in Workers : WorksOn(v, k)'
      OBVIOUS
    <3>1. CASE opJob[k] # "none"
      BY <3>1
    <3>2. CASE opJob[k] = "none"
      <4>1. PICK v \in Workers : WorksOn(v, k)
        BY <3>2 DEF OpInv, WorkInv
      <4>2. v # w
        BY <4>1 DEF WorksOn
      <4> QED
        BY <1>4, <4>1, <4>2
    <3> QED
      BY <3>1, <3>2
  <2>4. \A k \in Items : item'[k] = "success" => opJob'[k] = "success"
    BY DEF OpInv, WorkInv
  <2> QED
    BY <2>1, <2>2, <2>3, <2>4 DEF WorkInv
<1>7. ExhaustedInv'
  <2>1. \A k \in Items : k < next => item'[k] # "pending"
    BY DEF OpInv, ExhaustedInv
  <2>2. \A v \in Workers : worker'[v].phase = "done" => next = N + 1
    BY <1>3 DEF OpInv, ExhaustedInv
  <2> QED
    BY <1>1, <2>1, <2>2 DEF OpInv, ExhaustedInv
<1>8. NoSilentEffect'
  BY DEF OpInv, NoSilentEffect
<1> QED
  BY <1>2, <1>6, <1>7, <1>8

(* An item is given up with its last refresh, and only then. *)
LEMMA FreshStep ==
  ASSUME OpInv, OpNext
  PROVE  FreshInv'
<1> USE OperationsAssumption
<1>0. OpTypeOK /\ FreshInv
  BY DEF OpInv
<1> DEFINE IsOpen(s) == s \in {"none", "pending", "running"}
<1>1. CASE /\ \A i \in Items : IsOpen(item'[i]) => IsOpen(item[i])
           /\ UNCHANGED opFailures
  BY <1>0, <1>1 DEF FreshInv
<1>2. ASSUME NEW i \in Items, PreviewItem(i) PROVE FreshInv'
  <2>1. i > previewed
    BY <1>0, <1>2 DEF PreviewItem, OpTypeOK, Items
  <2>2. IsOpen(item[i])
    BY <2>1 DEF OpInv, PreviewInv
  <2>3. UNCHANGED opFailures /\ \A k \in Items \ {i} : item'[k] = item[k]
    BY <1>0, <1>2 DEF PreviewItem, OpTypeOK
  <2> QED
    BY <1>1, <2>2, <2>3
<1>3. ASSUME NEW i \in Items, RefreshJob(i) PROVE FreshInv'
  <2>1. opFailures'[i] = 0 /\ \A k \in Items \ {i} : opFailures'[k] = opFailures[k] /\ item'[k] = item[k]
    BY <1>0, <1>3 DEF RefreshJob, OpTypeOK
  <2> QED
    BY <1>0, <2>1 DEF FreshInv
<1>4. ASSUME NEW i \in Items, RefreshFails(i) PROVE FreshInv'
  <2>1. /\ opFailures'[i] \in Nat
        /\ \A k \in Items \ {i} : opFailures'[k] = opFailures[k] /\ item'[k] = item[k]
    BY <1>0, <1>4 DEF RefreshFails, OpTypeOK
  <2>2. item'[i] = "interrupted" \/ ~(opFailures'[i] >= MaxRefreshFailures)
    BY <1>0, <1>4 DEF RefreshFails, OpTypeOK
  <2>3. IsOpen(item'[i]) => opFailures'[i] < MaxRefreshFailures
    BY <2>1, <2>2
  <2> QED
    BY <1>0, <2>1, <2>3 DEF FreshInv
<1>5. ASSUME NEW w \in Workers, Take(w) PROVE FreshInv'
  <2>1. \A k \in Items : item'[k] # item[k] => item[k] = "pending"
    BY <1>0, <1>5 DEF Take, OpTypeOK
  <2> QED
    BY <1>1, <1>5, <2>1 DEF Take
<1>6. ASSUME NEW w \in Workers, Check(w) \/ Perform(w) \/ PerformNow(w) PROVE FreshInv'
  <2>1. item[worker[w].index] = "running"
    BY <1>6 DEF Check, Perform, PerformNow, OpInv, WorkInv
  <2>2. \A k \in Items : item'[k] # item[k] => k = worker[w].index
    BY <1>0, <1>6 DEF Check, Perform, PerformNow, Submitted, OpTypeOK
  <2> QED
    BY <1>1, <1>6, <2>1, <2>2 DEF Check, Perform, PerformNow
<1>7. CASE \/ \E i \in Items : Change(i) \/ JobEnds(i)
           \/ Execute \/ Collect \/ CompleteOperation \/ Sweep
  BY <1>1, <1>7 DEF Change, JobEnds, Execute, Collect, CompleteOperation, Sweep
<1> QED
  BY <1>2, <1>3, <1>4, <1>5, <1>6, <1>7 DEF OpNext

(* Every step of the preview, the workers, the polls and the others. *)
LEMMA OperationStep ==
  ASSUME OpInv, OpNext
  PROVE  PreviewInv' /\ WorkInv' /\ ExhaustedInv' /\ NoSilentEffect'
<1> USE OperationsAssumption
<1>0. OpTypeOK /\ OpTypeOK'
  BY OpTypeStep DEF OpInv
<1>1. ASSUME NEW i \in Items, PreviewItem(i)
      PROVE  PreviewInv' /\ WorkInv' /\ ExhaustedInv' /\ NoSilentEffect'
  <2>1. /\ item'[i] \in {"pending", "skipped"} /\ \A k \in Items \ {i} : item'[k] = item[k]
        /\ op = "previewing" /\ i = previewed + 1 /\ previewed' = i
        /\ op' = (IF i = N THEN "preview" ELSE op)
        /\ UNCHANGED <<next, worker, opFailures, record, opJob>>
    BY <1>0, <1>1 DEF PreviewItem, OpTypeOK, Items
  <2>2. item'[i] = "pending" => \A j \in 1..(i - 1) : item[j] = "pending" => KeyOf[j] # KeyOf[i]
    BY <1>0, <1>1 DEF PreviewItem, OpTypeOK
  <2>3. \A k \in Items : k # i /\ Taken(k)' => item[k] = "pending" /\ k \in 1..(i - 1)
    BY <1>0, <2>1 DEF Taken, OpInv, OpTypeOK, PreviewInv, Items
  <2>4. \A j, k \in Items : Taken(j)' /\ Taken(k)' /\ KeyOf[j] = KeyOf[k] => j = k
    <3>1. Taken(i)' => item'[i] = "pending"
      BY <2>1 DEF Taken
    <3>2. \A k \in Items : k # i /\ Taken(k)' => Taken(k)
      BY <2>3 DEF Taken
    <3> QED
      BY <2>2, <2>3, <3>1, <3>2 DEF OpInv, PreviewInv
  <2>5. PreviewInv'
    <3>1. \A k \in Items : item'[k] = "none" <=> k > previewed'
      BY <1>0, <2>1 DEF OpInv, OpTypeOK, PreviewInv, Items
    <3>2. op' = "previewing" => previewed' < N /\ \A k \in Items : item'[k] \in {"none", "pending", "skipped"}
      BY <2>1 DEF OpInv, PreviewInv, Items
    <3>3. op' # "previewing" => previewed' = N
      BY <2>1
    <3> QED
      BY <2>4, <3>1, <3>2, <3>3 DEF PreviewInv
  <2>6. WorkInv'
    BY <2>1 DEF OpInv, PreviewInv, WorkInv, WorksOn
  <2>7. ExhaustedInv'
    <3>1. next = 1
      BY <1>0, <2>1 DEF OpInv, ExhaustedInv, OpTypeOK
    <3> QED
      BY <2>1, <3>1 DEF OpInv, ExhaustedInv, Items
  <2>8. NoSilentEffect'
    BY <2>1 DEF OpInv, NoSilentEffect, PreviewInv
  <2> QED
    BY <2>5, <2>6, <2>7, <2>8
<1>2. ASSUME NEW i \in Items, RefreshJob(i)
      PROVE  PreviewInv' /\ WorkInv' /\ ExhaustedInv' /\ NoSilentEffect'
  <2>1. \A w \in Workers : worker[w].phase \notin {"check", "perform"}
    BY <1>2 DEF RefreshJob, OpInv, WorkInv
  <2>2. opJob[i] # "none" /\ item[i] = "running" /\ op = "awaiting"
    BY <1>2, <2>1 DEF RefreshJob, OpInv, WorkInv, WorksOn
  <2>3. /\ item'[i] \in {"running", "success", "failed"}
        /\ item'[i] = "success" => opJob[i] = "success"
        /\ \A k \in Items \ {i} : item'[k] = item[k]
        /\ UNCHANGED <<op, revision, previewed, next, worker, record, opJob>>
    BY <1>0, <1>2, <2>2 DEF RefreshJob, OpTypeOK
  <2>4. PreviewInv'
    BY <2>2, <2>3 DEF OpInv, PreviewInv, Taken
  <2>5. WorkInv'
    BY <2>1, <2>2, <2>3 DEF OpInv, WorkInv, WorksOn
  <2>6. ExhaustedInv' /\ NoSilentEffect'
    BY <2>2, <2>3 DEF OpInv, ExhaustedInv, NoSilentEffect
  <2> QED
    BY <2>4, <2>5, <2>6
<1>3. ASSUME NEW i \in Items, RefreshFails(i)
      PROVE  PreviewInv' /\ WorkInv' /\ ExhaustedInv' /\ NoSilentEffect'
  <2>1. \A w \in Workers : worker[w].phase \notin {"check", "perform"}
    BY <1>3 DEF RefreshFails, OpInv, WorkInv
  <2>2. opJob[i] # "none" /\ item[i] = "running" /\ op = "awaiting"
    BY <1>3, <2>1 DEF RefreshFails, OpInv, WorkInv, WorksOn
  <2>4. /\ item'[i] \in {"running", "interrupted"}
        /\ \A k \in Items \ {i} : item'[k] = item[k]
        /\ UNCHANGED <<op, revision, previewed, next, worker, record, opJob>>
    BY <1>0, <1>3, <2>2 DEF RefreshFails, OpTypeOK
  <2>6. PreviewInv'
    BY <2>2, <2>4 DEF OpInv, PreviewInv, Taken
  <2>7. WorkInv'
    <3>2. \A k \in Items : item'[k] = "running" => opJob'[k] # "none"
      BY <2>1, <2>2, <2>4 DEF OpInv, WorkInv, WorksOn
    <3>3. \A k \in Items : item'[k] = "success" => opJob'[k] = "success"
      BY <2>4 DEF OpInv, WorkInv
    <3> QED
      BY <2>1, <2>4, <3>2, <3>3 DEF WorkInv, WorksOn
  <2>8. ExhaustedInv' /\ NoSilentEffect'
    BY <2>2, <2>4 DEF OpInv, ExhaustedInv, NoSilentEffect
  <2> QED
    BY <2>6, <2>7, <2>8
<1>4. ASSUME NEW i \in Items, Change(i)
      PROVE  PreviewInv' /\ WorkInv' /\ ExhaustedInv' /\ NoSilentEffect'
  BY <1>4 DEF Change, OpInv, PreviewInv, WorkInv, ExhaustedInv, NoSilentEffect, Taken, WorksOn
<1>5. ASSUME NEW i \in Items, JobEnds(i)
      PROVE  PreviewInv' /\ WorkInv' /\ ExhaustedInv' /\ NoSilentEffect'
  <2>1. /\ opJob[i] = "live" /\ opJob'[i] \in {"success", "failed"} /\ \A k \in Items \ {i} : opJob'[k] = opJob[k]
        /\ UNCHANGED <<op, item, revision, previewed, next, worker, opFailures, record>>
    BY <1>0, <1>5 DEF JobEnds, OpTypeOK
  <2>2. PreviewInv' /\ ExhaustedInv' /\ NoSilentEffect'
    BY <2>1 DEF OpInv, PreviewInv, ExhaustedInv, NoSilentEffect, Taken
  <2>3. WorkInv'
    BY <2>1 DEF OpInv, WorkInv, WorksOn
  <2> QED
    BY <2>2, <2>3
<1>6. ASSUME NEW w \in Workers, Take(w)
      PROVE  PreviewInv' /\ WorkInv' /\ ExhaustedInv' /\ NoSilentEffect'
  <2>1. /\ op = "running" /\ worker[w].phase = "idle"
        /\ UNCHANGED <<op, revision, previewed, opFailures, record, opJob>>
    BY <1>6 DEF Take
  <2>2. CASE next > N
    <3>1. next = N + 1 /\ UNCHANGED <<item, next>>
      BY <1>0, <1>6, <2>2 DEF Take, OpTypeOK
    <3>2. worker'[w].phase = "done" /\ \A v \in Workers \ {w} : worker'[v] = worker[v]
      BY <1>0, <1>6, <2>2 DEF Take, OpTypeOK
    <3>3. PreviewInv' /\ NoSilentEffect'
      BY <2>1, <3>1 DEF OpInv, PreviewInv, NoSilentEffect, Taken
    <3>4. \A v \in Workers, i \in Items : WorksOn(v, i)' <=> WorksOn(v, i)
      BY <2>1, <3>2 DEF WorksOn
    <3>5. WorkInv'
      <4>1. \A v \in Workers : worker'[v].phase \in {"check", "perform"} =>
              /\ op' = "running" /\ worker'[v].index \in Items
              /\ item'[worker'[v].index] = "running" /\ opJob'[worker'[v].index] = "none"
        BY <2>1, <3>1, <3>2 DEF OpInv, WorkInv
      <4> QED
        BY <2>1, <3>1, <3>4, <4>1 DEF OpInv, WorkInv
    <3>6. ExhaustedInv'
      BY <2>1, <3>1, <3>2 DEF OpInv, ExhaustedInv
    <3> QED
      BY <3>3, <3>5, <3>6
  <2>3. CASE ~(next > N) /\ item[next] # "pending"
    <3>1. next' = next + 1 /\ UNCHANGED <<item, worker>> /\ next \in Items /\ next' \in Nat /\ next' > 1
      BY <1>0, <1>6, <2>3 DEF Take, OpTypeOK, Items
    <3>2. PreviewInv' /\ NoSilentEffect' /\ WorkInv'
      BY <2>1, <3>1 DEF OpInv, PreviewInv, NoSilentEffect, WorkInv, Taken, WorksOn
    <3>3. \A i \in Items : i < next' => item'[i] # "pending"
      <4>1. \A i \in Items : i < next' => i < next \/ i = next
        BY <3>1 DEF Items
      <4> QED
        BY <2>3, <3>1, <4>1 DEF OpInv, ExhaustedInv
    <3>4. \A v \in Workers : worker'[v].phase # "done"
      BY <2>3, <3>1 DEF OpInv, ExhaustedInv, Items
    <3>5. ExhaustedInv'
      BY <2>1, <3>3, <3>4 DEF ExhaustedInv
    <3> QED
      BY <3>2, <3>5
  <2>4. CASE ~(next > N) /\ item[next] = "pending"
    <3> DEFINE i == next
    <3>1. i \in Items /\ next' = i + 1 /\ next' > 1
      BY <1>0, <1>6, <2>4 DEF Take, OpTypeOK, Items
    <3>2. item'[i] = "running" /\ \A k \in Items \ {i} : item'[k] = item[k]
      BY <1>0, <1>6, <2>4, <3>1 DEF Take, OpTypeOK
    <3>3. /\ worker'[w].index = i /\ worker'[w].phase = "check"
          /\ \A v \in Workers \ {w} : worker'[v] = worker[v]
      BY <1>0, <1>6, <2>4 DEF Take, OpTypeOK
    <3>4. opJob[i] = "none" /\ item[i] = "pending"
      BY <2>4, <3>1 DEF OpInv, NoSilentEffect
    <3> HIDE DEF i
    <3>5. \A k \in Items : Taken(k)' <=> Taken(k)
      BY <3>2, <3>4 DEF Taken
    <3>6. PreviewInv'
      <4>1. \A k \in Items : item'[k] = "none" <=> item[k] = "none"
        BY <3>2, <3>4
      <4> QED
        BY <2>1, <3>5, <4>1 DEF OpInv, PreviewInv
    <3>7. \A v \in Workers, k \in Items : WorksOn(v, k) => k # i /\ v # w
      BY <2>1, <3>4 DEF OpInv, WorkInv, WorksOn
    <3>8. \A v \in Workers, k \in Items : WorksOn(v, k)' <=> WorksOn(v, k) \/ (v = w /\ k = i)
      BY <2>1, <3>3 DEF WorksOn
    <3>9. WorkInv'
      <4>1. ASSUME NEW v \in Workers, worker'[v].phase \in {"check", "perform"}
            PROVE  /\ op' = "running" /\ worker'[v].index \in Items
                   /\ item'[worker'[v].index] = "running" /\ opJob'[worker'[v].index] = "none"
        <5>1. CASE v = w
          BY <2>1, <3>1, <3>2, <3>3, <3>4, <5>1
        <5>2. CASE v # w
          <6>1. worker'[v] = worker[v] /\ worker[v].index \in Items
            BY <3>3, <4>1, <5>2 DEF OpInv, WorkInv
          <6>2. item[worker[v].index] = "running" /\ opJob[worker[v].index] = "none"
            BY <4>1, <6>1 DEF OpInv, WorkInv
          <6>3. item'[worker[v].index] = "running"
            BY <3>2, <6>1, <6>2
          <6> QED
            BY <2>1, <6>1, <6>2, <6>3
        <5> QED
          BY <5>1, <5>2
      <4>2. \A u, v \in Workers, k \in Items : WorksOn(u, k)' /\ WorksOn(v, k)' => u = v
        BY <3>7, <3>8 DEF OpInv, WorkInv
      <4>3. \A k \in Items : item'[k] = "running" => opJob'[k] # "none" \/ \E v \in Workers : WorksOn(v, k)'
        BY <2>1, <3>1, <3>2, <3>8 DEF OpInv, WorkInv
      <4>4. \A k \in Items : item'[k] = "success" => opJob'[k] = "success"
        BY <2>1, <3>2 DEF OpInv, WorkInv
      <4> QED
        BY <4>1, <4>2, <4>3, <4>4 DEF WorkInv
    <3>10. ExhaustedInv'
      <4>1. \A k \in Items : k < next' => item'[k] # "pending"
        <5>1. \A k \in Items : k < next' => k < next \/ k = i
          BY <3>1 DEF Items, i
        <5> QED
          BY <3>2, <5>1 DEF OpInv, ExhaustedInv
      <4>2. \A v \in Workers : worker'[v].phase # "done"
        <5>1. \A v \in Workers : worker[v].phase # "done"
          BY <2>4, <3>1 DEF OpInv, ExhaustedInv, Items, i
        <5> QED
          BY <3>3, <5>1
      <4> QED
        BY <2>1, <4>1, <4>2 DEF ExhaustedInv
    <3>11. NoSilentEffect'
      BY <2>1, <3>2 DEF OpInv, NoSilentEffect
    <3> QED
      BY <3>6, <3>9, <3>10, <3>11
  <2> QED
    BY <2>2, <2>3, <2>4
<1>7. ASSUME NEW w \in Workers, Check(w)
      PROVE  PreviewInv' /\ WorkInv' /\ ExhaustedInv' /\ NoSilentEffect'
  <2> DEFINE i == worker[w].index
  <2>1. i \in Items /\ WorksOn(w, i) /\ op = "running" /\ opJob[i] = "none"
    BY <1>7 DEF Check, OpInv, WorkInv, WorksOn
  <2>2. CASE worker' = [worker EXCEPT ![w] = [index |-> i, phase |-> "perform"]] /\ UNCHANGED item
    <3>1. \A v \in Workers : worker'[v].index = worker[v].index /\
             (worker'[v].phase \in {"check", "perform"} <=> worker[v].phase \in {"check", "perform"})
             /\ (worker'[v].phase = "done" <=> worker[v].phase = "done")
      BY <1>0, <1>7, <2>2 DEF Check, OpTypeOK
    <3>2. UNCHANGED <<op, item, revision, previewed, next, opFailures, record, opJob>>
      BY <1>7, <2>2 DEF Check
    <3>3. PreviewInv' /\ NoSilentEffect' /\ ExhaustedInv'
      BY <3>1, <3>2 DEF OpInv, PreviewInv, NoSilentEffect, ExhaustedInv, Taken
    <3>4. WorkInv'
      BY <3>1, <3>2 DEF OpInv, WorkInv, WorksOn
    <3> QED
      BY <3>3, <3>4
  <2>3. CASE worker' = [worker EXCEPT ![w] = NoWork] /\ item' = [item EXCEPT ![i] = "skipped"]
    <3>1. item'[i] = "skipped" /\ \A k \in Items \ {i} : item'[k] = item[k]
      BY <1>0, <2>1, <2>3 DEF OpTypeOK
    <3>2. UNCHANGED <<op, revision, previewed, next, opFailures, record, opJob>>
      BY <1>7 DEF Check
    <3> HIDE DEF i
    <3> QED
      BY <1>0, <2>1, <2>3, <3>1, <3>2, SettleStep
  <2> QED
    BY <1>7, <2>2, <2>3 DEF Check
<1>8. ASSUME NEW w \in Workers, Perform(w) \/ PerformNow(w)
      PROVE  PreviewInv' /\ WorkInv' /\ ExhaustedInv' /\ NoSilentEffect'
  <2> DEFINE i == worker[w].index
  <2>1. i \in Items /\ WorksOn(w, i) /\ opJob[i] = "none"
    BY <1>8 DEF Perform, PerformNow, OpInv, WorkInv, WorksOn
  <2>2. /\ worker' = [worker EXCEPT ![w] = NoWork]
        /\ UNCHANGED <<op, revision, previewed, next, opFailures, record>>
    BY <1>8 DEF Perform, PerformNow, Submitted
  <2>3. \E s \in {"running", "skipped", "success", "failed", "interrupted"}, j \in {"none", "live", "success"} :
          /\ item' = [item EXCEPT ![i] = s] /\ (opJob' = [opJob EXCEPT ![i] = j] \/ (opJob' = opJob /\ j = "none"))
          /\ s = "skipped" => j = "none"
          /\ s = "running" => j # "none"
          /\ s = "success" => j = "success"
    BY <1>8 DEF Perform, PerformNow, Submitted
  <2>4. PICK s \in {"running", "skipped", "success", "failed", "interrupted"}, j \in {"none", "live", "success"} :
          /\ item' = [item EXCEPT ![i] = s] /\ (opJob' = [opJob EXCEPT ![i] = j] \/ (opJob' = opJob /\ j = "none"))
          /\ s = "skipped" => j = "none"
          /\ s = "running" => j # "none"
          /\ s = "success" => j = "success"
    BY <2>3
  <2>5. /\ item'[i] = s /\ \A k \in Items \ {i} : item'[k] = item[k]
        /\ opJob'[i] = j /\ \A k \in Items \ {i} : opJob'[k] = opJob[k]
    BY <1>0, <2>1, <2>4 DEF OpTypeOK
  <2> HIDE DEF i
  <2> QED
    BY <1>0, <2>1, <2>2, <2>4, <2>5, SettleStep
<1>9. CASE Execute \/ CompleteOperation \/ Sweep
  BY <1>9 DEF Execute, CompleteOperation, Sweep, OpInv, PreviewInv, WorkInv, ExhaustedInv,
     NoSilentEffect,
              Taken, WorksOn
<1>10. CASE Collect
  <2>1. PICK w \in Workers : worker[w].phase = "done"
    BY <1>10 DEF Collect
  <2>2. next = N + 1
    BY <2>1 DEF OpInv, ExhaustedInv
  <2> QED
    BY <1>10, <2>2 DEF Collect, OpInv, PreviewInv, WorkInv, ExhaustedInv, NoSilentEffect, Taken,
       WorksOn
<1> QED
  BY <1>1, <1>2, <1>3, <1>4, <1>5, <1>6, <1>7, <1>8, <1>9, <1>10 DEF OpNext

(* OpInv holds in every state of a batch. *)
LEMMA OperationInvariant == OpSpec => []OpInv
<1>1. OpInit => OpInv
  <2> SUFFICES ASSUME OpInit PROVE OpInv
    OBVIOUS
  <2> USE OperationsAssumption DEF OpInit, Items
  <2>1. OpTypeOK
    <3>1. [exists |-> TRUE, revision |-> 0] \in RecordState
      BY DEF RecordState
    <3>2. NoWork \in WorkerState
      BY DEF NoWork, WorkerState
    <3> QED
      BY <3>1, <3>2 DEF OpTypeOK
  <2>2. PreviewInv /\ NoSilentEffect /\ FreshInv
    BY DEF PreviewInv, NoSilentEffect, FreshInv, Taken
  <2>3. WorkInv /\ ExhaustedInv
    BY DEF WorkInv, ExhaustedInv, WorksOn, NoWork
  <2> QED
    BY <2>1, <2>2, <2>3 DEF OpInv
<1>2. OpInv /\ [OpNext]_opVars => OpInv'
  <2>1. CASE OpInv /\ OpNext
    BY <2>1, OpTypeStep, OperationStep, FreshStep DEF OpInv
  <2>2. CASE OpInv /\ UNCHANGED opVars
    BY <2>2 DEF opVars, OpInv, OpTypeOK, PreviewInv, WorkInv, ExhaustedInv, FreshInv,
       NoSilentEffect,
                Taken, WorksOn
  <2> QED
    BY <2>1, <2>2
<1> QED
  BY <1>1, <1>2, PTL DEF OpSpec

(* However many workers run and whatever others do to the records between the
   preview and the submission, an account gets one job of a batch, an item shown
   as skipped had no effect, and a completed operation has nothing left open
   (operations.ts). *)
THEOREM BatchStaysSafe == OpSpec => []OperationsAreSafe
<1>1. OpInv => OperationsAreSafe
  <2> SUFFICES ASSUME OpInv PROVE OperationsAreSafe
    OBVIOUS
  <2>1. OncePerAccount
    BY DEF OpInv, PreviewInv, NoSilentEffect, OncePerAccount, Taken
  <2>2. CompletedIsSettled
    <3> SUFFICES ASSUME op = "completed", NEW i \in Items
                 PROVE  item[i] \in OpSettled /\ (item[i] = "success" => opJob[i] = "success")
      BY DEF CompletedIsSettled
    <3>1. next = N + 1 /\ previewed = N /\ i \in 1..N
      BY DEF OpInv, PreviewInv, ExhaustedInv, Items
    <3>2. item[i] \notin {"none", "pending", "running"}
      BY <3>1, OperationsAssumption DEF OpInv, PreviewInv, ExhaustedInv
    <3> QED
      BY <3>2 DEF OpInv, OpTypeOK, WorkInv
  <2> QED
    BY <2>1, <2>2 DEF OpInv, OperationsAreSafe
<1> QED
  BY <1>1, OperationInvariant, PTL

-----------------------------------------------------------------------------
(* Provisioner *)

(* What the stage of a member says of the effects asked of SSO, and of its
   logins, by value: nothing was sent before its checkpoint, everything
   before a later stage was done, an attempt that is about to be dispatched
   was never sent, and the one a member waits for is the only one that may
   still work. *)
Early(k) == CASE k = "user" -> {"new"}
              [] k = "scim" -> {"new", "sso-creating", "sso-created"}
              [] k = "seat" -> {"new", "sso-creating", "sso-created", "scim-syncing", "scim-synced"}

MemberSound(r, s, l, p, g) ==
  /\ \A k \in Effects : /\ r.stage \in Early(k) => s[k] = "none"
                        /\ r.stage \notin Early(k) \cup {Sending[k]} => s[k] = "done"
                        /\ p[k] = IF s[k] = "none" THEN 0 ELSE 1
  /\ \A n \in Logins : /\ g[n] = IF l[n] = "none" THEN 0 ELSE 1
                       /\ l[n] # "none" => \A k \in Effects : s[k] = "done"
                       /\ l[n] \in {"sent", "live"} => r.stage \in Reserved /\ r.oauth = n
  /\ r.stage \in Reserved \cup {"oauth-starting"} => r.oauth \in Logins
  /\ r.stage = "oauth-starting" => l[r.oauth] = "none"
  /\ r.state = "ready" => r.stage = "ready"

Claims == {m \in Members : row[m].stage \in Reserved}

ProvisionInv ==
  /\ ProvisionTypeOK
  /\ \A m \in Members : MemberSound(row[m], sso[m], loginTask[m], posts[m], logins[m])
  /\ IsFiniteSet(Claims) /\ Cardinality(Claims) <= LoginLimit

Steps == [stage : Stages, epoch : 0..MaxEpochs, mode : {"look", "sent", "failing"}]
StepTable == [Members -> {NoStep} \cup Steps]
RowTable == [Members -> Inventory]

(* Row x has the stage, the attempt and the state given. *)
RowIs(x, stage, oauth, state) == x.stage = stage /\ x.oauth = oauth /\ x.state = state

(* Only member m's row changes, to a row of the type. *)
RowStep(m) == row' \in RowTable /\ \A x \in Members \ {m} : row'[x] = row[x]

LEMMA StageNames ==
  /\ Sending["user"] = "sso-creating" /\ Sending["scim"] = "scim-syncing" /\ Sending["seat"] = "seat-assigning"
  /\ From["user"] = "new" /\ From["scim"] = "sso-created" /\ From["seat"] = "scim-synced"
  /\ To["user"] = "sso-created" /\ To["scim"] = "scim-synced" /\ To["seat"] = "synced"
  /\ Stages = {"new", "sso-creating", "sso-created", "scim-syncing", "scim-synced", "seat-assigning",
               "synced", "oauth-starting", "warmup", "ready", "oauth-dispatch", "oauth-wait"}
<1>1. /\ Sending["user"] = "sso-creating" /\ Sending["scim"] = "scim-syncing" /\ Sending["seat"] = "seat-assigning"
      /\ From["user"] = "new" /\ From["scim"] = "sso-created" /\ From["seat"] = "scim-synced"
      /\ To["user"] = "sso-created" /\ To["scim"] = "scim-synced" /\ To["seat"] = "synced"
  BY DEF Sending, From, To
<1>2. {Sending[k] : k \in Effects} = {"sso-creating", "scim-syncing", "seat-assigning"}
  BY <1>1 DEF Effects
<1>3. {From[k] : k \in Effects} = {"new", "sso-created", "scim-synced"}
  BY <1>1 DEF Effects
<1> QED
  BY <1>1, <1>2, <1>3 DEF Stages, Reserved

LEMMA InventoryParts ==
  ASSUME NEW r \in Inventory
  PROVE  /\ r.state \in {"provisioning", "failed", "ready", "disabled"} /\ r.stage \in Stages
         /\ r.attempts \in 0..3 /\ r.error \in {"none", "manual", "other"}
         /\ r.epoch \in 0..MaxEpochs /\ r.oauth \in 0..MaxLogins
BY DEF Inventory

LEMMA InventoryIs ==
  ASSUME NEW state \in {"provisioning", "failed", "ready", "disabled"}, NEW stage \in Stages,
         NEW attempts \in 0..3, NEW error \in {"none", "manual", "other"},
         NEW epoch \in 0..MaxEpochs, NEW oauth \in 0..MaxLogins
  PROVE  [state |-> state, stage |-> stage, attempts |-> attempts,
          error |-> error, epoch |-> epoch, oauth |-> oauth] \in Inventory
BY DEF Inventory

RowOf(state, stage, attempts, error, epoch, oauth) ==
  [state |-> state, stage |-> stage, attempts |-> attempts, error |-> error, epoch |-> epoch, oauth |-> oauth]

LEMMA RowChange ==
  ASSUME row \in RowTable, NEW m \in Members, NEW r2 \in Inventory, row' = [row EXCEPT ![m] = r2]
  PROVE  RowStep(m) /\ row'[m] = r2
BY DEF RowStep, RowTable

LEMMA RowExcept ==
  ASSUME NEW r \in Inventory, NEW stage \in Stages, NEW oauth \in 0..MaxLogins
  PROVE  /\ [r EXCEPT !.stage = stage, !.oauth = oauth] \in Inventory
         /\ RowIs([r EXCEPT !.stage = stage, !.oauth = oauth], stage, oauth, r.state)
         /\ [r EXCEPT !.oauth = oauth, !.stage = stage] \in Inventory
         /\ RowIs([r EXCEPT !.oauth = oauth, !.stage = stage], stage, oauth, r.state)
         /\ [r EXCEPT !.state = "provisioning", !.stage = stage, !.oauth = oauth] \in Inventory
         /\ RowIs([r EXCEPT !.state = "provisioning", !.stage = stage, !.oauth = oauth],
                  stage, oauth, "provisioning")
<1>1. /\ [r EXCEPT !.stage = stage, !.oauth = oauth] \in Inventory
      /\ RowIs([r EXCEPT !.stage = stage, !.oauth = oauth], stage, oauth, r.state)
  BY DEF Inventory, RowIs
<1>2. /\ [r EXCEPT !.oauth = oauth, !.stage = stage] \in Inventory
      /\ RowIs([r EXCEPT !.oauth = oauth, !.stage = stage], stage, oauth, r.state)
  BY DEF Inventory, RowIs
<1>3. /\ [r EXCEPT !.state = "provisioning", !.stage = stage, !.oauth = oauth] \in Inventory
      /\ RowIs([r EXCEPT !.state = "provisioning", !.stage = stage, !.oauth = oauth],
               stage, oauth, "provisioning")
  BY DEF Inventory, RowIs
<1> QED
  BY <1>1, <1>2, <1>3

LEMMA RowReady ==
  ASSUME NEW r \in Inventory
  PROVE  /\ [r EXCEPT !.stage = "ready", !.state = "ready", !.error = "none", !.attempts = 0] \in Inventory
         /\ RowIs([r EXCEPT !.stage = "ready", !.state = "ready", !.error = "none", !.attempts = 0],
                  "ready", r.oauth, "ready")
<1>1. "ready" \in Stages /\ 0 \in 0..3
  BY StageNames
<1> QED
  BY <1>1 DEF Inventory, RowIs

LEMMA RowPut ==
  ASSUME row \in RowTable, NEW m \in Members,
         NEW state \in {"provisioning", "failed", "ready", "disabled"}, NEW stage \in Stages,
         NEW attempts \in 0..3, NEW error \in {"none", "manual", "other"},
         NEW epoch \in 0..MaxEpochs, NEW oauth \in 0..MaxLogins,
         row' = [row EXCEPT ![m] = RowOf(state, stage, attempts, error, epoch, oauth)]
  PROVE  RowStep(m) /\ RowIs(row'[m], stage, oauth, state)
<1>1. RowOf(state, stage, attempts, error, epoch, oauth) \in Inventory
  BY InventoryIs DEF RowOf
<1>2. row'[m] = RowOf(state, stage, attempts, error, epoch, oauth) /\ row' \in RowTable
      /\ \A x \in Members \ {m} : row'[x] = row[x]
  BY <1>1 DEF RowTable
<1> QED
  BY <1>2 DEF RowStep, RowIs, RowOf

LEMMA StepTables == ProvisionTypeOK => row \in RowTable /\ step \in StepTable
BY DEF ProvisionTypeOK, RowTable, StepTable, Steps

(* The worker's step goes on from the stage it wrote. *)
LEMMA CheckpointRow ==
  ASSUME ProvisionTypeOK, NEW m \in Members, StepCurrent(m), NEW stage \in Stages,
         NEW mode \in {"look", "sent", "failing"}, Checkpoint(m, stage, mode)
  PROVE  /\ RowStep(m) /\ step' \in StepTable
         /\ RowIs(row'[m], stage, row[m].oauth, "provisioning")
<1>1. row \in RowTable /\ step \in StepTable /\ step[m] \in Steps /\ row[m] \in Inventory
  BY StepTables DEF StepCurrent, StepTable, RowTable
<1>2. row' \in RowTable /\ RowIs(row'[m], stage, row[m].oauth, row[m].state)
  BY <1>1 DEF Checkpoint, RowTable, Inventory, RowIs
<1>3. \A x \in Members \ {m} : row'[x] = row[x]
  BY <1>1 DEF Checkpoint, RowTable
<1>4. step' \in StepTable
  BY <1>1 DEF Checkpoint, StepTable, Steps
<1> QED
  BY <1>2, <1>3, <1>4 DEF RowStep, RowIs, StepCurrent

LEMMA StepDoneRow ==
  ASSUME ProvisionTypeOK, NEW m \in Members, StepCurrent(m), NEW stage \in Stages, StepDone(m, stage)
  PROVE  /\ RowStep(m) /\ step' \in StepTable
         /\ RowIs(row'[m], stage, row[m].oauth, "provisioning")
<1>1. row \in RowTable /\ step \in StepTable /\ row[m] \in Inventory
  BY StepTables DEF StepTable, RowTable
<1>2. row' \in RowTable /\ RowIs(row'[m], stage, row[m].oauth, row[m].state)
  BY <1>1 DEF StepDone, RowTable, Inventory, RowIs
<1>3. \A x \in Members \ {m} : row'[x] = row[x]
  BY <1>1 DEF StepDone, RowTable
<1>4. step' \in StepTable
  BY <1>1 DEF StepDone, StepTable
<1> QED
  BY <1>2, <1>3, <1>4 DEF RowStep, RowIs, StepCurrent

LEMMA ForgetRow ==
  ASSUME ProvisionTypeOK, NEW m \in Members, StepCurrent(m), Forget(m)
  PROVE  /\ RowStep(m) /\ step' \in StepTable
         /\ RowIs(row'[m], "synced", 0, "provisioning")
<1>1. row \in RowTable /\ step \in StepTable /\ step[m] \in Steps /\ row[m] \in Inventory
  BY StepTables DEF StepCurrent, StepTable, RowTable
<1>2. "synced" \in Stages /\ 0 \in 0..MaxLogins
  BY StageNames, ProvisionerAssumption
<1>3. row' \in RowTable /\ RowIs(row'[m], "synced", 0, row[m].state)
  BY <1>1, <1>2 DEF Forget, RowTable, Inventory, RowIs
<1>4. \A x \in Members \ {m} : row'[x] = row[x]
  BY <1>1 DEF Forget, RowTable
<1>5. step' \in StepTable
  BY <1>1, <1>2 DEF Forget, StepTable, Steps
<1> QED
  BY <1>3, <1>4, <1>5 DEF RowStep, RowIs, StepCurrent

LEMMA FailedRow ==
  ASSUME ProvisionTypeOK, NEW m \in Members, NEW terminal \in BOOLEAN, NEW error \in {"manual", "other"},
         Failed(m, terminal, error)
  PROVE  /\ RowStep(m) /\ step' \in StepTable
         /\ RowIs(row'[m], row[m].stage, row[m].oauth, "failed")
<1>1. row \in RowTable /\ step \in StepTable /\ row[m] \in Inventory
  BY StepTables DEF StepTable, RowTable
<1> DEFINE charged == IF terminal \/ row[m].attempts = 3 THEN 3 ELSE row[m].attempts + 1
<1>2. charged \in 0..3
  BY <1>1, InventoryParts
<1>3. row' = [row EXCEPT ![m] = [@ EXCEPT !.state = "failed", !.error = error, !.attempts = charged]]
  BY <1>1 DEF Failed, RowTable, Inventory
<1> HIDE DEF charged
<1>4. row' \in RowTable /\ RowIs(row'[m], row[m].stage, row[m].oauth, "failed")
  BY <1>1, <1>2, <1>3 DEF RowTable, Inventory, RowIs
<1>5. \A x \in Members \ {m} : row'[x] = row[x]
  BY <1>1, <1>3 DEF RowTable
<1>6. step' \in StepTable
  BY <1>1 DEF Failed, StepTable
<1> QED
  BY <1>4, <1>5, <1>6 DEF RowStep

LEMMA EarlyIs ==
  /\ Effects = {"user", "scim", "seat"}
  /\ Early("user") = {"new"}
  /\ Early("scim") = {"new", "sso-creating", "sso-created"}
  /\ Early("seat") = {"new", "sso-creating", "sso-created", "scim-syncing", "scim-synced"}
BY DEF Effects, Early

LEMMA ProvisionTypes ==
  ProvisionTypeOK <=>
    /\ row \in RowTable /\ step \in StepTable
    /\ sso \in [Members -> [Effects -> {"none", "sent", "done"}]]
    /\ loginTask \in [Members -> [Logins -> {"none", "sent", "live", "success", "failed", "cancelled"}]]
    /\ account \in [Members -> [status: {"missing", "refreshing", "valid", "failed", "expired"},
                                attempt: 0..MaxLogins]]
    /\ posts \in [Members -> [Effects -> Nat]]
    /\ logins \in [Members -> [Logins -> Nat]]
BY DEF ProvisionTypeOK, RowTable, StepTable, Steps

(* A step of member m that claims a slot only where one is free. *)
LEMMA CloseMember ==
  ASSUME ProvisionInv, NEW m \in Members, RowStep(m), ProvisionTypeOK',
         \A x \in Members \ {m} : /\ sso'[x] = sso[x] /\ loginTask'[x] = loginTask[x]
                                  /\ posts'[x] = posts[x] /\ logins'[x] = logins[x],
         MemberSound(row'[m], sso'[m], loginTask'[m], posts'[m], logins'[m]),
         row'[m].stage \in Reserved => row[m].stage \in Reserved \/ Occupied < LoginLimit
  PROVE  ProvisionInv'
<1>1. \A x \in Members : MemberSound(row'[x], sso'[x], loginTask'[x], posts'[x], logins'[x])
  BY DEF ProvisionInv, RowStep
<1>2. IsFiniteSet(Claims) /\ Cardinality(Claims) <= LoginLimit /\ LoginLimit \in Nat
  BY ProvisionerAssumption DEF ProvisionInv
<1>3. Cardinality(Claims) \in Nat
  BY <1>2, FS_CardinalityType
<1>4. IsFiniteSet(Claims') /\ Cardinality(Claims') <= LoginLimit
  <2>1. CASE row'[m].stage \in Reserved => row[m].stage \in Reserved
    <3>1. Claims' \in SUBSET Claims
      BY <2>1 DEF Claims, RowStep
    <3>2. IsFiniteSet(Claims') /\ Cardinality(Claims') <= Cardinality(Claims)
      BY <1>2, <3>1, FS_Subset
    <3>3. Cardinality(Claims') \in Nat
      BY <3>2, FS_CardinalityType
    <3> QED
      BY <1>2, <1>3, <3>2, <3>3
  <2>2. CASE row'[m].stage \in Reserved /\ row[m].stage \notin Reserved
    <3>1. Claims' = Claims \cup {m} /\ m \notin Claims
      BY <2>2 DEF Claims, RowStep
    <3>2. IsFiniteSet(Claims') /\ Cardinality(Claims') = Cardinality(Claims) + 1
      BY <1>2, <3>1, FS_AddElement
    <3>3. Cardinality(Claims) < LoginLimit
      BY <2>2 DEF Occupied, Claims
    <3> QED
      BY <1>2, <1>3, <3>2, <3>3
  <2> QED
    BY <2>1, <2>2
<1> QED
  BY <1>1, <1>4 DEF ProvisionInv

(* A step that asks nothing of SSO and of Login. *)
LEMMA CloseRow ==
  ASSUME ProvisionInv, NEW m \in Members, RowStep(m), step' \in StepTable,
         UNCHANGED <<sso, loginTask, posts, logins>>,
         account' \in [Members -> [status: {"missing", "refreshing", "valid", "failed", "expired"},
                                   attempt: 0..MaxLogins]],
         MemberSound(row'[m], sso[m], loginTask[m], posts[m], logins[m]),
         row'[m].stage \in Reserved => row[m].stage \in Reserved
  PROVE  ProvisionInv'
<1>1. ProvisionTypeOK /\ row' \in RowTable
  BY DEF ProvisionInv, RowStep
<1>2. ProvisionTypeOK'
  BY <1>1, ProvisionTypes DEF ProvisionTypeOK, RowTable, StepTable, Steps
<1> QED
  BY <1>2, CloseMember

LEMMA Kept ==
  ASSUME ProvisionInv, NEW m \in Members
  PROVE  /\ MemberSound(row[m], sso[m], loginTask[m], posts[m], logins[m])
         /\ row[m] \in Inventory /\ row[m].stage \in Stages /\ ProvisionTypeOK
         /\ row \in RowTable /\ step \in StepTable
         /\ account \in [Members -> [status: {"missing", "refreshing", "valid", "failed", "expired"},
                                     attempt: 0..MaxLogins]]
BY ProvisionTypes, InventoryParts DEF ProvisionInv, RowTable

(* A row that keeps its stage and its attempt. *)
LEMMA SameStage ==
  ASSUME NEW r, NEW r2, NEW s, NEW l, NEW p, NEW g, MemberSound(r, s, l, p, g),
         r2.stage = r.stage, r2.oauth = r.oauth, r2.state = "ready" => r.state = "ready"
  PROVE  MemberSound(r2, s, l, p, g)
BY DEF MemberSound

(* A row that gives up its attempt, which works no more, or has none yet:
   the effects are done. *)
LEMMA NextStage ==
  ASSUME NEW r, NEW r2, NEW s, NEW l, NEW p, NEW g, MemberSound(r, s, l, p, g),
         r.stage \notin Early("seat") \cup {"seat-assigning"}, r.stage \in Stages,
         r2.stage \in {"synced", "warmup", "ready"}, r2.state = "ready" => r2.stage = "ready",
         r.stage \in Reserved => l[r.oauth] \notin {"sent", "live"}
  PROVE  MemberSound(r2, s, l, p, g)
BY EarlyIs, StageNames DEF MemberSound, Reserved

-----------------------------------------------------------------------------
(* The steps *)

LEMMA BeginStep ==
  ASSUME ProvisionInv, NEW m \in Members, Begin(m)
  PROVE  ProvisionInv'
<1>1. row' = [row EXCEPT ![m].state = "provisioning"]
  BY DEF Begin
<1>2. RowStep(m) /\ RowIs(row'[m], row[m].stage, row[m].oauth, "provisioning")
  BY <1>1, Kept DEF RowStep, RowIs, RowTable, Inventory
<1>3. [stage |-> row[m].stage, epoch |-> row[m].epoch, mode |-> "look"] \in Steps
  BY Kept, InventoryParts DEF Steps
<1>4. step' \in StepTable
  BY <1>3, Kept DEF Begin, StepTable
<1>5. UNCHANGED <<sso, loginTask, account, posts, logins>>
  BY DEF Begin
<1> QED
  BY <1>2, <1>4, <1>5, Kept, SameStage, CloseRow DEF RowIs

LEMMA FailedStep ==
  ASSUME ProvisionInv, NEW m \in Members, NEW terminal \in BOOLEAN, NEW error \in {"manual", "other"},
         Failed(m, terminal, error), UNCHANGED <<sso, loginTask, account, posts, logins>>
  PROVE  ProvisionInv'
<1>1. /\ RowStep(m) /\ step' \in StepTable
      /\ RowIs(row'[m], row[m].stage, row[m].oauth, "failed")
  BY Kept, FailedRow
<1> QED
  BY <1>1, Kept, SameStage, CloseRow DEF RowIs

LEMMA QuietProvision ==
  ASSUME ProvisionInv, NEW m \in Members, row' = row, step' \in StepTable,
         UNCHANGED <<sso, loginTask, posts, logins>>,
         account' \in [Members -> [status: {"missing", "refreshing", "valid", "failed", "expired"},
                                   attempt: 0..MaxLogins]]
  PROVE  ProvisionInv'
<1>1. RowStep(m)
  BY Kept DEF RowStep
<1> QED
  BY <1>1, Kept, CloseRow

LEMMA SendStep ==
  ASSUME ProvisionInv, NEW m \in Members, NEW k \in Effects, Send(m, k)
  PROVE  ProvisionInv'
<1>1. /\ MemberSound(row[m], sso[m], loginTask[m], posts[m], logins[m]) /\ ProvisionTypeOK
      /\ row[m].stage = From[k] /\ StepCurrent(m)
  BY Kept DEF Send, At, StepCurrent
<1>2. /\ RowStep(m) /\ step' \in StepTable
      /\ RowIs(row'[m], Sending[k], row[m].oauth, "provisioning")
  <2>1. Sending[k] \in Stages /\ Checkpoint(m, Sending[k], "sent")
    BY StageNames, EarlyIs DEF Send
  <2> QED
    BY <1>1, <2>1, CheckpointRow
<1>3. /\ sso' = [sso EXCEPT ![m][k] = "sent"] /\ posts' = [posts EXCEPT ![m][k] = @ + 1]
      /\ UNCHANGED <<loginTask, account, logins>>
  BY DEF Send
<1>4. /\ sso \in [Members -> [Effects -> {"none", "sent", "done"}]]
      /\ posts \in [Members -> [Effects -> Nat]]
  BY <1>1, ProvisionTypes
<1>5. /\ sso' \in [Members -> [Effects -> {"none", "sent", "done"}]]
      /\ posts' \in [Members -> [Effects -> Nat]]
  BY <1>3, <1>4
<1>6. ProvisionTypeOK'
  <2>1. row' \in RowTable
    BY <1>2 DEF RowStep
  <2> QED
    BY <1>1, <1>2, <1>3, <1>5, <2>1, ProvisionTypes DEF ProvisionTypeOK, RowTable, StepTable, Steps
<1>7. /\ sso'[m] = [sso[m] EXCEPT ![k] = "sent"] /\ posts'[m] = [posts[m] EXCEPT ![k] = @ + 1]
      /\ \A x \in Members \ {m} : sso'[x] = sso[x] /\ posts'[x] = posts[x]
  BY <1>3, <1>4
<1>8. /\ sso'[m][k] = "sent" /\ posts'[m][k] = posts[m][k] + 1
      /\ \A e \in Effects \ {k} : sso'[m][e] = sso[m][e] /\ posts'[m][e] = posts[m][e]
  BY <1>4, <1>7
<1>9. sso[m][k] = "none" /\ posts[m][k] = 0
  BY <1>1, EarlyIs, StageNames DEF MemberSound
<1>10. \A n \in Logins : loginTask[m][n] = "none"
  BY <1>1, <1>9 DEF MemberSound
<1>11. MemberSound(row'[m], sso'[m], loginTask[m], posts'[m], logins[m])
  <2>1. row'[m].stage = Sending[k] /\ row'[m].state = "provisioning"
    BY <1>2 DEF RowIs
  <2>2. ASSUME NEW e \in Effects
        PROVE  /\ row'[m].stage \in Early(e) => sso'[m][e] = "none"
               /\ row'[m].stage \notin Early(e) \cup {Sending[e]} => sso'[m][e] = "done"
    BY <1>1, <1>8, <2>1, EarlyIs, StageNames DEF MemberSound
  <2>3. \A e \in Effects : posts'[m][e] = IF sso'[m][e] = "none" THEN 0 ELSE 1
    BY <1>1, <1>8, <1>9 DEF MemberSound
  <2>4. row'[m].stage \notin Reserved \cup {"oauth-starting"}
    BY <2>1, EarlyIs, StageNames DEF Reserved
  <2> QED
    BY <1>1, <1>10, <2>1, <2>2, <2>3, <2>4 DEF MemberSound
<1>12. row'[m].stage \notin Reserved
  BY <1>2, EarlyIs, StageNames DEF Reserved, RowIs
<1> QED
  BY <1>2, <1>3, <1>6, <1>7, <1>11, <1>12, CloseMember

LEMMA ConfirmStep ==
  ASSUME ProvisionInv, NEW m \in Members, NEW k \in Effects, Confirm(m, k)
  PROVE  ProvisionInv'
<1>1. /\ MemberSound(row[m], sso[m], loginTask[m], posts[m], logins[m]) /\ ProvisionTypeOK
      /\ row[m].stage \in {From[k], Sending[k]} /\ StepCurrent(m) /\ sso[m][k] = "done"
  BY Kept DEF Confirm, Reads, At, StepCurrent
<1>2. /\ RowStep(m) /\ step' \in StepTable
      /\ RowIs(row'[m], To[k], row[m].oauth, "provisioning")
  <2>1. To[k] \in Stages /\ StepDone(m, To[k])
    BY StageNames, EarlyIs DEF Confirm
  <2> QED
    BY <1>1, <2>1, StepDoneRow
<1>3. UNCHANGED <<sso, loginTask, account, posts, logins>>
  BY DEF Confirm
<1>4. row'[m].stage = To[k] /\ row'[m].state = "provisioning"
  BY <1>2 DEF RowIs
<1>5. \A e \in Effects : /\ row'[m].stage \in Early(e) => sso[m][e] = "none"
                         /\ row'[m].stage \notin Early(e) \cup {Sending[e]} => sso[m][e] = "done"
  BY <1>1, <1>4, EarlyIs, StageNames DEF MemberSound
<1>6. row'[m].stage \notin Reserved \cup {"oauth-starting"} /\ row[m].stage \notin Reserved
  BY <1>1, <1>4, EarlyIs, StageNames DEF Reserved
<1>7. MemberSound(row'[m], sso[m], loginTask[m], posts[m], logins[m])
  BY <1>1, <1>4, <1>5, <1>6 DEF MemberSound
<1> QED
  BY <1>2, <1>3, <1>6, <1>7, Kept, CloseRow

LEMMA StartOauthStep ==
  ASSUME ProvisionInv, NEW m \in Members, StartOauth(m)
  PROVE  ProvisionInv'
<1>1. PICK n \in Logins :
        logins[m][n] = 0 /\ row' = [row EXCEPT ![m].stage = "oauth-starting", ![m].oauth = n]
  BY DEF StartOauth
<1>2. /\ MemberSound(row[m], sso[m], loginTask[m], posts[m], logins[m])
      /\ row[m].stage = "synced" /\ row[m].state = "provisioning"
  BY Kept DEF StartOauth, At, StepCurrent
<1>3. n \in 0..MaxLogins /\ "oauth-starting" \in Stages
  BY StageNames, ProvisionerAssumption DEF Logins
<1>4. RowStep(m) /\ RowIs(row'[m], "oauth-starting", n, "provisioning")
  <2> DEFINE r2 == [row[m] EXCEPT !.stage = "oauth-starting", !.oauth = n]
  <2>1. row \in RowTable /\ row[m] \in Inventory
    BY Kept
  <2>2. row' = [row EXCEPT ![m] = r2]
    BY <1>1, <2>1 DEF RowTable
  <2>3. r2 \in Inventory /\ RowIs(r2, "oauth-starting", n, "provisioning")
    BY <1>2, <1>3, <2>1, RowExcept
  <2> HIDE DEF r2
  <2> QED
    BY <2>1, <2>2, <2>3, RowChange
<1>5. step' \in StepTable
  BY Kept DEF StartOauth, StepTable
<1>6. loginTask[m][n] = "none"
  BY <1>1, <1>2 DEF MemberSound
<1>7. MemberSound(row'[m], sso[m], loginTask[m], posts[m], logins[m])
  <2>1. row'[m].stage = "oauth-starting" /\ row'[m].oauth = n /\ row'[m].state = "provisioning"
    BY <1>4 DEF RowIs
  <2>2. \A k \in Effects : row'[m].stage \notin Early(k) /\ sso[m][k] = "done"
    BY <1>2, <2>1, EarlyIs, StageNames DEF MemberSound
  <2>3. \A o \in Logins : loginTask[m][o] \notin {"sent", "live"}
    BY <1>2 DEF MemberSound, Reserved
  <2> QED
    BY <1>2, <1>6, <2>1, <2>2, <2>3 DEF MemberSound
<1>8. row'[m].stage \notin Reserved
  BY <1>4 DEF RowIs, Reserved
<1> QED
  BY <1>4, <1>5, <1>7, <1>8, Kept, CloseRow DEF StartOauth

LEMMA ClaimDispatchStep ==
  ASSUME ProvisionInv, NEW m \in Members, ClaimDispatch(m)
  PROVE  ProvisionInv'
<1>1. CASE Occupied >= LoginLimit /\ step' = [step EXCEPT ![m] = NoStep] /\ UNCHANGED <<row, loginTask, logins>>
  <2>1. step' \in StepTable
    BY <1>1, Kept DEF StepTable
  <2> QED
    BY <1>1, <2>1, Kept, QuietProvision DEF ClaimDispatch
<1>2. CASE /\ Occupied < LoginLimit
           /\ Checkpoint(m, "oauth-dispatch", "sent")
           /\ loginTask' = [loginTask EXCEPT ![m][row[m].oauth] = "sent"]
           /\ logins' = [logins EXCEPT ![m][row[m].oauth] = @ + 1]
  <2> DEFINE n == row[m].oauth
  <2>1. /\ MemberSound(row[m], sso[m], loginTask[m], posts[m], logins[m]) /\ ProvisionTypeOK
        /\ row[m].stage = "oauth-starting" /\ StepCurrent(m)
    BY Kept DEF ClaimDispatch, At, StepCurrent
  <2>2. n \in Logins /\ loginTask[m][n] = "none" /\ logins[m][n] = 0
    BY <2>1 DEF MemberSound
  <2>3. UNCHANGED <<sso, account, posts>>
    BY DEF ClaimDispatch
  <2>4. /\ RowStep(m) /\ step' \in StepTable
        /\ RowIs(row'[m], "oauth-dispatch", n, "provisioning")
    BY <1>2, <2>1, StageNames, CheckpointRow
  <2> HIDE DEF n
  <2>5. /\ loginTask' = [loginTask EXCEPT ![m][n] = "sent"]
        /\ logins' = [logins EXCEPT ![m][n] = @ + 1]
    BY <1>2 DEF n
  <2>6. /\ loginTask \in [Members -> [Logins -> {"none", "sent", "live", "success", "failed", "cancelled"}]]
        /\ logins \in [Members -> [Logins -> Nat]]
    BY <2>1, ProvisionTypes
  <2>7. /\ loginTask' \in [Members -> [Logins -> {"none", "sent", "live", "success", "failed", "cancelled"}]]
        /\ logins' \in [Members -> [Logins -> Nat]]
    <3>1. logins[m][n] + 1 = 1 /\ 1 \in Nat
      BY <2>2
    <3> QED
      BY <2>2, <2>5, <2>6, <3>1
  <2>8. ProvisionTypeOK'
    <3>1. row' \in RowTable
      BY <2>4 DEF RowStep
    <3> QED
      BY <2>1, <2>3, <2>4, <2>7, <3>1, ProvisionTypes DEF ProvisionTypeOK, RowTable, StepTable, Steps
  <2>9. /\ loginTask'[m][n] = "sent" /\ logins'[m][n] = 1
        /\ \A o \in Logins \ {n} : loginTask'[m][o] = loginTask[m][o] /\ logins'[m][o] = logins[m][o]
        /\ \A x \in Members \ {m} : loginTask'[x] = loginTask[x] /\ logins'[x] = logins[x]
    BY <2>2, <2>5, <2>6
  <2>10. MemberSound(row'[m], sso[m], loginTask'[m], posts[m], logins'[m])
    <3>1. row'[m].stage = "oauth-dispatch" /\ row'[m].oauth = n /\ row'[m].state = "provisioning"
      BY <2>4 DEF RowIs
    <3>2. \A k \in Effects : row'[m].stage \notin Early(k) /\ sso[m][k] = "done"
      BY <2>1, <3>1, EarlyIs, StageNames DEF MemberSound
    <3>3. \A o \in Logins \ {n} : loginTask'[m][o] \notin {"sent", "live"}
      BY <2>1, <2>9 DEF MemberSound, Reserved
    <3>4. \A o \in Logins : logins'[m][o] = IF loginTask'[m][o] = "none" THEN 0 ELSE 1
      BY <2>1, <2>9 DEF MemberSound
    <3> QED
      BY <2>1, <2>2, <3>1, <3>2, <3>3, <3>4 DEF MemberSound, Reserved
  <2> QED
    BY <1>2, <2>3, <2>4, <2>8, <2>9, <2>10, CloseMember
<1> QED
  BY <1>1, <1>2 DEF ClaimDispatch

LEMMA TaskSeenStep ==
  ASSUME ProvisionInv, NEW m \in Members, TaskSeen(m)
  PROVE  ProvisionInv'
<1>1. /\ MemberSound(row[m], sso[m], loginTask[m], posts[m], logins[m]) /\ ProvisionTypeOK
      /\ row[m].stage = "oauth-dispatch" /\ StepCurrent(m)
  BY Kept DEF TaskSeen, At, StepCurrent
<1>2. /\ RowStep(m) /\ step' \in StepTable
      /\ RowIs(row'[m], "oauth-wait", row[m].oauth, "provisioning")
  BY <1>1, StageNames, StepDoneRow DEF TaskSeen
<1>3. MemberSound(row'[m], sso[m], loginTask[m], posts[m], logins[m])
  BY <1>1, <1>2, EarlyIs, StageNames DEF MemberSound, RowIs, Reserved
<1> QED
  BY <1>1, <1>2, <1>3, Kept, CloseRow DEF TaskSeen, Reserved

LEMMA ForgetStep ==
  ASSUME ProvisionInv, NEW m \in Members, StepCurrent(m), Forget(m),
         UNCHANGED <<sso, loginTask, posts, logins>>,
         account' \in [Members -> [status: {"missing", "refreshing", "valid", "failed", "expired"},
                                   attempt: 0..MaxLogins]],
         row[m].stage \in {"oauth-wait", "warmup"},
         row[m].stage = "oauth-wait" => loginTask[m][row[m].oauth] \notin {"sent", "live"}
  PROVE  ProvisionInv'
<1>1. /\ RowStep(m) /\ step' \in StepTable
      /\ RowIs(row'[m], "synced", 0, "provisioning")
  BY Kept, ForgetRow
<1>2. row[m].stage \notin Early("seat") \cup {"seat-assigning"} /\ row[m].stage \in Stages
      /\ (row[m].stage \in Reserved => row[m].stage = "oauth-wait")
  BY EarlyIs, StageNames DEF Reserved
<1>3. MemberSound(row'[m], sso[m], loginTask[m], posts[m], logins[m])
  BY <1>1, <1>2, Kept, NextStage DEF RowIs
<1>4. row'[m].stage \notin Reserved
  BY <1>1 DEF RowIs, Reserved
<1> QED
  BY <1>1, <1>3, <1>4, CloseRow

LEMMA AwaitTaskStep ==
  ASSUME ProvisionInv, NEW m \in Members, AwaitTask(m)
  PROVE  ProvisionInv'
<1> DEFINE status == loginTask[m][row[m].oauth]
<1>1. /\ MemberSound(row[m], sso[m], loginTask[m], posts[m], logins[m]) /\ ProvisionTypeOK
      /\ row[m].stage = "oauth-wait" /\ row[m].state = "provisioning" /\ StepCurrent(m)
      /\ UNCHANGED <<sso, loginTask, account, posts, logins>>
  BY Kept DEF AwaitTask, At, StepCurrent
<1>2. CASE StepDone(m, "oauth-wait")
  <2>1. /\ RowStep(m) /\ step' \in StepTable
        /\ RowIs(row'[m], "oauth-wait", row[m].oauth, "provisioning")
    BY <1>1, <1>2, StageNames, StepDoneRow
  <2> QED
    BY <1>1, <2>1, Kept, SameStage, CloseRow DEF RowIs
<1>3. CASE status = "failed" /\ Forget(m)
  BY <1>1, <1>3, Kept, ForgetStep
<1>4. CASE status = "success" /\ StepDone(m, "warmup")
  <2>1. /\ RowStep(m) /\ step' \in StepTable
        /\ RowIs(row'[m], "warmup", row[m].oauth, "provisioning")
    BY <1>1, <1>4, StageNames, StepDoneRow
  <2>2. MemberSound(row'[m], sso[m], loginTask[m], posts[m], logins[m])
    <3>1. row[m].stage \notin Early("seat") \cup {"seat-assigning"} /\ row[m].stage \in Stages
      BY <1>1, EarlyIs, StageNames
    <3> QED
      BY <1>1, <1>4, <2>1, <3>1, NextStage DEF RowIs
  <2>3. row'[m].stage \notin Reserved
    BY <2>1 DEF RowIs, Reserved
  <2> QED
    BY <1>1, <2>1, <2>2, <2>3, Kept, CloseRow
<1>5. CASE Failed(m, TRUE, "other") \/ Failed(m, TRUE, "manual") \/ Failed(m, FALSE, "other")
  BY <1>1, <1>5, FailedStep
<1> QED
  BY <1>2, <1>3, <1>4, <1>5 DEF AwaitTask

LEMMA WarmupStep ==
  ASSUME ProvisionInv, NEW m \in Members, Warmup(m)
  PROVE  ProvisionInv'
<1>1. /\ MemberSound(row[m], sso[m], loginTask[m], posts[m], logins[m]) /\ ProvisionTypeOK
      /\ row[m].stage = "warmup" /\ StepCurrent(m) /\ UNCHANGED <<sso, loginTask, posts, logins>>
  BY Kept DEF Warmup, At, StepCurrent
<1>2. CASE Forget(m) /\ account' = IF account[m].status = "valid"
                      THEN [account EXCEPT ![m] = [status |-> "expired", attempt |-> 0]] ELSE account
  <2>1. 0 \in 0..MaxLogins
    BY ProvisionerAssumption
  <2>2. account' \in [Members -> [status: {"missing", "refreshing", "valid", "failed", "expired"},
                                  attempt: 0..MaxLogins]]
    BY <1>2, <2>1, Kept
  <2> QED
    BY <1>1, <1>2, <2>2, ForgetStep
<1>3. CASE /\ row' = [row EXCEPT ![m].stage = "ready", ![m].state = "ready",
                                 ![m].error = "none", ![m].attempts = 0]
           /\ step' = [step EXCEPT ![m] = NoStep]
           /\ UNCHANGED account
  <2>2. RowStep(m) /\ RowIs(row'[m], "ready", row[m].oauth, "ready")
    <3> DEFINE r2 == [row[m] EXCEPT !.stage = "ready", !.state = "ready", !.error = "none", !.attempts = 0]
    <3>1. row \in RowTable /\ row[m] \in Inventory
      BY Kept
    <3>2. row' = [row EXCEPT ![m] = r2]
      BY <1>3, <3>1 DEF RowTable
    <3>3. r2 \in Inventory /\ RowIs(r2, "ready", row[m].oauth, "ready")
      BY <3>1, RowReady
    <3> HIDE DEF r2
    <3> QED
      BY <3>1, <3>2, <3>3, RowChange
  <2>3. step' \in StepTable
    BY <1>3, Kept DEF StepTable
  <2>4. MemberSound(row'[m], sso[m], loginTask[m], posts[m], logins[m])
    <3>1. row[m].stage \notin Early("seat") \cup {"seat-assigning"} /\ row[m].stage \in Stages
          /\ row[m].stage \notin Reserved
      BY <1>1, EarlyIs, StageNames DEF Reserved
    <3> QED
      BY <1>1, <2>2, <3>1, NextStage DEF RowIs
  <2>5. row'[m].stage \notin Reserved
    BY <2>2 DEF RowIs, Reserved
  <2> QED
    BY <1>1, <1>3, <2>2, <2>3, <2>4, <2>5, Kept, CloseRow
<1> QED
  BY <1>2, <1>3 DEF Warmup

LEMMA UnauthorizedStep ==
  ASSUME ProvisionInv, NEW m \in Members, Unauthorized(m)
  PROVE  ProvisionInv'
<1>1. /\ MemberSound(row[m], sso[m], loginTask[m], posts[m], logins[m])
      /\ row[m].state = "ready" /\ UNCHANGED <<step, sso, loginTask, posts, logins>>
  BY Kept DEF Unauthorized
<1>2. row[m].stage = "ready"
  BY <1>1 DEF MemberSound
<1>4. RowStep(m) /\ RowIs(row'[m], "synced", 0, "provisioning")
  <2> DEFINE r2 == [row[m] EXCEPT !.state = "provisioning", !.stage = "synced", !.oauth = 0]
  <2>1. row \in RowTable /\ row[m] \in Inventory /\ "synced" \in Stages /\ 0 \in 0..MaxLogins
    BY Kept, StageNames, ProvisionerAssumption
  <2>2. row' = [row EXCEPT ![m] = r2]
    BY <2>1 DEF Unauthorized, RowTable
  <2>3. r2 \in Inventory /\ RowIs(r2, "synced", 0, "provisioning")
    BY <2>1, RowExcept
  <2> HIDE DEF r2
  <2> QED
    BY <2>1, <2>2, <2>3, RowChange
<1>5. account' \in [Members -> [status: {"missing", "refreshing", "valid", "failed", "expired"},
                                attempt: 0..MaxLogins]]
  BY Kept DEF Unauthorized
<1>6. MemberSound(row'[m], sso[m], loginTask[m], posts[m], logins[m])
  <2>1. row[m].stage \notin Early("seat") \cup {"seat-assigning"} /\ row[m].stage \in Stages
        /\ row[m].stage \notin Reserved
    BY <1>2, EarlyIs, StageNames DEF Reserved
  <2> QED
    BY <1>1, <1>4, <2>1, NextStage DEF RowIs
<1>7. row'[m].stage \notin Reserved
  BY <1>4 DEF RowIs, Reserved
<1> QED
  BY <1>1, <1>4, <1>5, <1>6, <1>7, Kept, CloseRow

LEMMA ReleaseStep ==
  ASSUME ProvisionInv, NEW m \in Members, ReleaseReservation(m)
  PROVE  ProvisionInv'
<1> DEFINE status == loginTask[m][row[m].oauth]
           stage == IF status = "success" THEN "warmup" ELSE "synced"
<1>1. /\ MemberSound(row[m], sso[m], loginTask[m], posts[m], logins[m])
      /\ row[m].stage \in Reserved /\ row[m].state \in {"disabled", "failed"}
      /\ status \in {"success", "failed"} /\ UNCHANGED <<step, sso, loginTask, account, posts, logins>>
  BY Kept DEF ReleaseReservation, Exhausted
<1>2. stage \in {"synced", "warmup"} /\ row' = [row EXCEPT ![m].oauth = 0, ![m].stage = stage]
  BY DEF ReleaseReservation, ReleasedRow
<1> HIDE DEF stage, status
<1>4. RowStep(m) /\ RowIs(row'[m], stage, 0, row[m].state)
  <2> DEFINE r2 == [row[m] EXCEPT !.oauth = 0, !.stage = stage]
  <2>1. row \in RowTable /\ row[m] \in Inventory /\ stage \in Stages /\ 0 \in 0..MaxLogins
    BY <1>2, Kept, StageNames, ProvisionerAssumption
  <2>2. row' = [row EXCEPT ![m] = r2]
    BY <1>2, <2>1 DEF RowTable
  <2>3. r2 \in Inventory /\ RowIs(r2, stage, 0, row[m].state)
    BY <2>1, RowExcept
  <2> HIDE DEF r2
  <2> QED
    BY <2>1, <2>2, <2>3, RowChange
<1>5. MemberSound(row'[m], sso[m], loginTask[m], posts[m], logins[m])
  <2>1. row[m].stage \notin Early("seat") \cup {"seat-assigning"} /\ row[m].stage \in Stages
    BY <1>1, EarlyIs, StageNames DEF Reserved
  <2>2. loginTask[m][row[m].oauth] \notin {"sent", "live"}
    BY <1>1 DEF status
  <2>3. row'[m].stage \in {"synced", "warmup", "ready"} /\ row'[m].state # "ready"
    BY <1>1, <1>2, <1>4 DEF RowIs
  <2> QED
    BY <1>1, <2>1, <2>2, <2>3, NextStage
<1>6. row'[m].stage \notin Reserved
  BY <1>2, <1>4 DEF RowIs, Reserved
<1> QED
  BY <1>1, <1>4, <1>5, <1>6, Kept, CloseRow

LEMMA DisableStep ==
  ASSUME ProvisionInv, NEW m \in Members, Disable(m)
  PROVE  ProvisionInv'
<1>1. row[m].epoch + 1 \in 0..MaxEpochs
  BY Kept, InventoryParts, ProvisionerAssumption DEF Disable
<1>2. row' = [row EXCEPT ![m] = RowOf("disabled", row[m].stage, row[m].attempts, row[m].error,
                                      row[m].epoch + 1, row[m].oauth)]
  BY Kept DEF Disable, RowOf, RowTable, Inventory
<1>3. RowStep(m) /\ RowIs(row'[m], row[m].stage, row[m].oauth, "disabled")
  <2> DEFINE epoch == row[m].epoch + 1
  <2>1. epoch \in 0..MaxEpochs
    BY <1>1
  <2>2. row' = [row EXCEPT ![m] = RowOf("disabled", row[m].stage, row[m].attempts, row[m].error,
                                        epoch, row[m].oauth)]
    BY <1>2
  <2> HIDE DEF epoch
  <2> QED
    BY <2>1, <2>2, Kept, InventoryParts, RowPut
<1> QED
  BY <1>3, Kept, SameStage, CloseRow DEF Disable, RowIs

LEMMA RetryStep ==
  ASSUME ProvisionInv, NEW m \in Members, Retry(m)
  PROVE  ProvisionInv'
<1> DEFINE stage == IF row[m].stage = "ready" THEN "warmup" ELSE row[m].stage
<1>1. row[m].epoch + 1 \in 0..MaxEpochs
  BY Kept, InventoryParts, ProvisionerAssumption DEF Retry
<1> DEFINE epoch == row[m].epoch + 1
<1>2. row' = [row EXCEPT ![m] = RowOf("provisioning", stage, 0, "none", epoch, row[m].oauth)]
  BY Kept DEF Retry, RowOf, RowTable, Inventory
<1>3. stage \in Stages
  BY Kept, StageNames
<1>a. epoch \in 0..MaxEpochs
  BY <1>1
<1> HIDE DEF stage, epoch
<1>4. RowStep(m) /\ RowIs(row'[m], stage, row[m].oauth, "provisioning")
  <2>1. 0 \in 0..3 /\ row[m].oauth \in 0..MaxLogins /\ row \in RowTable
    BY Kept, InventoryParts
  <2> QED
    BY <1>2, <1>3, <1>a, <2>1, RowPut
<1>5. UNCHANGED <<step, sso, loginTask, account, posts, logins>>
  BY DEF Retry
<1>6. CASE row[m].stage # "ready"
  <2>1. stage = row[m].stage
    BY <1>6 DEF stage
  <2> QED
    BY <1>4, <1>5, <2>1, Kept, SameStage, CloseRow DEF RowIs
<1>7. CASE row[m].stage = "ready"
  <2>1. stage = "warmup" /\ row'[m].stage \notin Reserved
    BY <1>4, <1>7 DEF stage, RowIs, Reserved
  <2>2. MemberSound(row'[m], sso[m], loginTask[m], posts[m], logins[m])
    <3>1. row[m].stage \notin Early("seat") \cup {"seat-assigning"} /\ row[m].stage \in Stages
          /\ row[m].stage \notin Reserved
      BY <1>7, EarlyIs, StageNames DEF Reserved
    <3> QED
      BY <1>4, <2>1, <3>1, Kept, NextStage DEF RowIs
  <2> QED
    BY <1>4, <1>5, <2>1, <2>2, Kept, CloseRow
<1> QED
  BY <1>6, <1>7

(* The services act on what they were sent. *)
LEMMA SsoStep ==
  ASSUME ProvisionInv, NEW m \in Members, NEW k \in Effects, SsoExecutes(m, k)
  PROVE  ProvisionInv'
<1>1. /\ MemberSound(row[m], sso[m], loginTask[m], posts[m], logins[m]) /\ ProvisionTypeOK
      /\ sso[m][k] = "sent" /\ sso' = [sso EXCEPT ![m][k] = "done"]
      /\ UNCHANGED <<row, step, loginTask, account, posts, logins>>
  BY Kept DEF SsoExecutes
<1>2. sso \in [Members -> [Effects -> {"none", "sent", "done"}]]
  BY <1>1, ProvisionTypes
<1>3. sso' \in [Members -> [Effects -> {"none", "sent", "done"}]]
  BY <1>1, <1>2
<1>4. /\ sso'[m][k] = "done" /\ \A e \in Effects \ {k} : sso'[m][e] = sso[m][e]
      /\ \A x \in Members \ {m} : sso'[x] = sso[x]
  BY <1>1, <1>2
<1>5. ProvisionTypeOK'
  BY <1>1, <1>3, ProvisionTypes DEF ProvisionTypeOK, RowTable, StepTable, Steps
<1>6. RowStep(m)
  BY <1>1, Kept DEF RowStep
<1>7. MemberSound(row'[m], sso'[m], loginTask[m], posts[m], logins[m])
  <2>1. row[m].stage \notin Early(k)
    BY <1>1 DEF MemberSound
  <2>2. \A e \in Effects : /\ row[m].stage \in Early(e) => sso'[m][e] = "none"
                           /\ row[m].stage \notin Early(e) \cup {Sending[e]} => sso'[m][e] = "done"
                           /\ posts[m][e] = IF sso'[m][e] = "none" THEN 0 ELSE 1
                           /\ sso[m][e] = "done" => sso'[m][e] = "done"
    BY <1>1, <1>4, <2>1 DEF MemberSound
  <2> QED
    BY <1>1, <2>2 DEF MemberSound
<1> QED
  BY <1>1, <1>4, <1>5, <1>6, <1>7, CloseMember

LEMMA TaskStep ==
  ASSUME ProvisionInv, NEW m \in Members, NEW n \in Logins, TaskArrives(m, n) \/ TaskEnds(m, n)
  PROVE  ProvisionInv'
<1>1. /\ MemberSound(row[m], sso[m], loginTask[m], posts[m], logins[m]) /\ ProvisionTypeOK
      /\ loginTask[m][n] \in {"sent", "live"}
      /\ UNCHANGED <<row, step, sso, posts, logins>>
  BY Kept DEF TaskArrives, TaskEnds
<1>2. PICK status \in {"live", "success", "failed", "cancelled"} :
        loginTask' = [loginTask EXCEPT ![m][n] = status]
  BY DEF TaskArrives, TaskEnds
<1>3. loginTask \in [Members -> [Logins -> {"none", "sent", "live", "success", "failed", "cancelled"}]]
  BY <1>1, ProvisionTypes
<1>4. loginTask' \in [Members -> [Logins -> {"none", "sent", "live", "success", "failed", "cancelled"}]]
  BY <1>2, <1>3
<1>5. /\ loginTask'[m][n] = status /\ \A o \in Logins \ {n} : loginTask'[m][o] = loginTask[m][o]
      /\ \A x \in Members \ {m} : loginTask'[x] = loginTask[x]
  BY <1>2, <1>3
<1>6. account' \in [Members -> [status: {"missing", "refreshing", "valid", "failed", "expired"},
                                attempt: 0..MaxLogins]]
  <2>1. 0 \in 0..MaxLogins
    BY ProvisionerAssumption
  <2>2. \/ account' = account
        \/ account' = [account EXCEPT ![m] = [status |-> "valid", attempt |-> 0]]
        \/ account' = [account EXCEPT ![m].status = "failed"]
    BY DEF TaskArrives, TaskEnds
  <2>3. CASE account' = account
    BY <2>3, Kept
  <2>4. CASE account' = [account EXCEPT ![m] = [status |-> "valid", attempt |-> 0]]
    BY <2>1, <2>4, Kept
  <2>5. CASE account' = [account EXCEPT ![m].status = "failed"]
    BY <2>5, Kept
  <2> QED
    BY <2>2, <2>3, <2>4, <2>5
<1>7. ProvisionTypeOK'
  BY <1>1, <1>4, <1>6, ProvisionTypes DEF ProvisionTypeOK, RowTable, StepTable, Steps
<1>8. RowStep(m)
  BY <1>1, Kept DEF RowStep
<1>9. MemberSound(row'[m], sso'[m], loginTask'[m], posts'[m], logins'[m])
  <2>1. \A o \in Logins : /\ loginTask'[m][o] = "none" <=> loginTask[m][o] = "none"
                          /\ loginTask'[m][o] \in {"sent", "live"} => loginTask[m][o] \in {"sent", "live"}
    BY <1>1, <1>5
  <2>2. row[m].stage # "oauth-starting"
    BY <1>1 DEF MemberSound, Reserved
  <2> QED
    BY <1>1, <2>1, <2>2 DEF MemberSound
<1> QED
  BY <1>1, <1>5, <1>7, <1>8, <1>9, CloseMember

LEMMA ProvisionStep == ProvisionInv /\ [ProvisionNext]_provisionVars => ProvisionInv'
<1> SUFFICES ASSUME ProvisionInv, [ProvisionNext]_provisionVars PROVE ProvisionInv'
  OBVIOUS
<1>1. ASSUME NEW m \in Members, StepNext(m) PROVE ProvisionInv'
  <2>1. CASE Fenced(m)
    <3>1. step' \in StepTable
      BY <2>1, Kept DEF Fenced, StepTable
    <3> QED
      BY <2>1, <3>1, Kept, QuietProvision DEF Fenced
  <2>2. CASE StepFails(m) \/ Ambiguous(m) \/ DispatchUnconfirmed(m) \/ ChargeFailure(m)
    BY <2>2, FailedStep DEF StepFails, Ambiguous, DispatchUnconfirmed, ChargeFailure
  <2>3. CASE BeginAuthorization(m)
    <3>1. row[m].oauth \in 0..MaxLogins
      BY Kept, InventoryParts
    <3>2. account' \in [Members -> [status: {"missing", "refreshing", "valid", "failed", "expired"},
                                    attempt: 0..MaxLogins]]
      BY <2>3, <3>1, Kept DEF BeginAuthorization
    <3> QED
      BY <2>3, <3>2, Kept, QuietProvision DEF BeginAuthorization
  <2> QED
    BY <1>1, <2>1, <2>2, <2>3, StartOauthStep, ClaimDispatchStep, TaskSeenStep, AwaitTaskStep, WarmupStep,
       SendStep, ConfirmStep DEF StepNext
<1>2. CASE WorkerDies
  <2>1. step' \in StepTable
    BY <1>2 DEF WorkerDies, StepTable
  <2>2. PICK m \in Members : TRUE
    BY <1>2 DEF WorkerDies
  <2> QED
    BY <1>2, <2>1, <2>2, Kept, QuietProvision DEF WorkerDies
<1>3. CASE UNCHANGED provisionVars
  <2>1. UNCHANGED <<row, step, sso, loginTask, account, posts, logins>>
    BY <1>3 DEF provisionVars
  <2> QED
    BY <2>1 DEF ProvisionInv, ProvisionTypeOK, Claims
<1> QED
  BY <1>1, <1>2, <1>3, BeginStep, ReleaseStep, UnauthorizedStep, DisableStep, RetryStep, SsoStep, TaskStep
     DEF ProvisionNext

LEMMA ProvisionInitSound == ProvisionInit => ProvisionInv
<1> SUFFICES ASSUME ProvisionInit PROVE ProvisionInv
  OBVIOUS
<1>1. 0 \in 0..MaxLogins /\ 0 \in 0..MaxEpochs /\ 0 \in 0..3 /\ 0 \in Nat /\ LoginLimit \in Nat
  BY ProvisionerAssumption
<1>2. ProvisionTypeOK
  <2>1. row \in RowTable
    BY <1>1, StageNames DEF ProvisionInit, RowTable, Inventory
  <2>2. step \in StepTable
    BY DEF ProvisionInit, StepTable
  <2>3. /\ sso \in [Members -> [Effects -> {"none", "sent", "done"}]]
        /\ loginTask \in [Members -> [Logins -> {"none", "sent", "live", "success", "failed", "cancelled"}]]
        /\ account \in [Members -> [status: {"missing", "refreshing", "valid", "failed", "expired"},
                                    attempt: 0..MaxLogins]]
        /\ posts \in [Members -> [Effects -> Nat]]
        /\ logins \in [Members -> [Logins -> Nat]]
    BY <1>1 DEF ProvisionInit
  <2> QED
    BY <2>1, <2>2, <2>3, ProvisionTypes
<1>3. \A m \in Members : MemberSound(row[m], sso[m], loginTask[m], posts[m], logins[m])
  BY EarlyIs DEF ProvisionInit, MemberSound, Reserved
<1>4. Claims = {}
  BY DEF ProvisionInit, Claims, Reserved
<1> QED
  BY <1>1, <1>2, <1>3, <1>4, FS_EmptySet DEF ProvisionInv

LEMMA ProvisionInvHolds == ProvisionSpec => []ProvisionInv
BY ProvisionInitSound, ProvisionStep, PTL DEF ProvisionSpec

LEMMA ProvisionInvImplies == ProvisionInv => BuildIsSafe /\ LoginsAreBounded
<1> SUFFICES ASSUME ProvisionInv PROVE BuildIsSafe /\ LoginsAreBounded
  OBVIOUS
<1>1. \A m \in Members : MemberSound(row[m], sso[m], loginTask[m], posts[m], logins[m])
  BY DEF ProvisionInv
<1>2. NothingIsReplayed
  <2>1. \A m \in Members : \A k \in Effects : posts[m][k] \in {0, 1}
    BY <1>1 DEF MemberSound
  <2>2. \A m \in Members : \A n \in Logins : logins[m][n] \in {0, 1}
    BY <1>1 DEF MemberSound
  <2> QED
    BY <2>1, <2>2 DEF NothingIsReplayed
<1>3. \A m \in Members : \A n \in Logins : Working(m, n) => row[m].stage \in Reserved /\ row[m].oauth = n
  BY <1>1 DEF MemberSound, Working
<1>4. OneLoginPerMember
  BY <1>3 DEF OneLoginPerMember
<1>5. EntitledBeforeLogin
  BY <1>1 DEF EntitledBeforeLogin, MemberSound
<1>6. LoginsAreBounded
  <2> DEFINE W == {x \in Members \X Logins : Working(x[1], x[2])}
             f == [x \in W |-> x[1]]
  <2>1. f \in Injection(W, Claims)
    <3>1. \A x \in W : x[1] \in Claims /\ x = <<x[1], row[x[1]].oauth>>
      BY <1>3 DEF Claims
    <3>2. f \in [W -> Claims]
      BY <3>1
    <3>3. \A x, y \in W : f[x] = f[y] => x = y
      BY <3>1
    <3> QED
      BY <3>2, <3>3 DEF Injection, IsInjective
  <2>2. IsFiniteSet(Claims) /\ Cardinality(Claims) <= LoginLimit /\ LoginLimit \in Nat
    BY ProvisionerAssumption DEF ProvisionInv
  <2> HIDE DEF W, f
  <2>3. IsFiniteSet(W) /\ Cardinality(W) <= Cardinality(Claims)
    BY <2>1, <2>2, FS_Injection
  <2>4. Cardinality(W) \in Nat /\ Cardinality(Claims) \in Nat
    BY <2>2, <2>3, FS_CardinalityType
  <2>5. Cardinality(W) <= LoginLimit
    BY <2>2, <2>3, <2>4
  <2> QED
    BY <2>5 DEF W, LoginsAreBounded
<1> QED
  BY <1>2, <1>4, <1>5, <1>6 DEF BuildIsSafe, ProvisionInv

(* The Provisioner (provisioner.ts, prewarmWorker.ts): whatever crashes, times
   out, is fenced or retried by an operator, nothing is sent to SSO or Login a
   second time, a member has one login on its way or running, and only for
   a user that SSO has created, synchronized and given a seat. *)
THEOREM BuildIsSafeHolds == ProvisionSpec => []BuildIsSafe
BY ProvisionInvHolds, ProvisionInvImplies, PTL

(* The logins that really work, in whatever state their rows are, are at most
   loginMaxPending, for any number of members: a slot is never released before
   its task has ended. *)
THEOREM LoginsAreBoundedHolds == ProvisionSpec => []LoginsAreBounded
BY ProvisionInvHolds, ProvisionInvImplies, PTL
=============================================================================

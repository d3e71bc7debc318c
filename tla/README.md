# A TLA+ model of ghcp-api-console

The repository is a gateway that offers GitHub Copilot accounts to callers. A
**Proxy** serves the requests and lends its accounts from a **user pool**, a
background worker builds and repairs those accounts, **Login** authorizes them
with a headless browser, **SSO** creates their users at GitHub, and a **console**
lets operators watch and intervene. All of it may run as several replicas and be
restarted at any time. This project models those parts, checks them on small
instances, and proves their safety for instances of any size: of the pool and
its stores, of the requests and the gate they pass, of building members and
logins, of SSO, enterprises and storage, of the console, diagnostics, upgrades
and offline tools.

## Inventory

| Component | State | Operations | What is hard | What makes it correct |
|---|---|---|---|---|
| User pool store (`userPool/store.ts`, SQLite) | accounts, leases, inference and catalog holds, cooldowns, settings | acquire, acquireCatalog, heartbeat, finish, cool, recoverUnauthorized, quarantine, release, disable, retry, reclaim, reserve, pending, update, fail | every call is one transaction, but calls of requests, worker and operators interleave; rows outlive the process that wrote them | a member has one caller; a request in flight keeps its rows; a stale report changes nothing |
| User pool store (`userPool/mysqlStore.ts`) | the same tables | the same | row locks, named locks, skipped rows, bounded sweeps, rollbacks, several replicas | the promises of SQLite without its single writer; no circle of waits |
| Caller gate and deadlines (`mysqlCallerGate.ts`, `mysqlDeadline.ts`) | tickets per caller, connections of the driver | acquire, retain, release, retry | connections that arrive after their request gave up | one admission per caller at a time, tickets neither leak nor are dropped twice |
| Pool requests (`userPool/runtime.ts`, `admission.ts`, `routes/compatible.ts`) | the held lease in memory, timers, abort controllers | admit, forward, finish, account for | disconnects, deadlines, late admissions, a draining upstream, a heartbeat under way | what was admitted is finished once, and not before the upstream is done |
| Answer streams (`routes/compatible.ts`, `userPool/responseCompletion.ts`) | a buffer, a verdict | cut into events, forward, collect usage | the network cuts anywhere | cuts do not matter |
| Models cache (`copilot/copilotClient.ts`) | entry per credential, shared refresh | look up, refresh, clear, retire | refreshes of a replaced credential, waiters that leave | only the latest credential has a snapshot |
| Ranking and replenishment (`shared/enterprise/poolRanking.ts`, `scheduling.ts`, the stores) | inventory, names, policies | plan, reserve, edit | rounding, caps, names shared with direct accounts | within caps and target, shares kept |
| Prewarm worker: ownership (`userPool/worker.ts`) | tenure, pending election, running steps, stop flag | ensureOwner, renewTenure, schedule, advance, stop | replicas; calls that time out and execute later; steps that outlive a tenure | at most one worker acts; somebody takes over |
| Prewarm worker: steps, Provisioner (`worker.ts`, `provisioner.ts`) | stage of the account row, login reservations | SSO user, SCIM, seat, OAuth login, warmup | external calls without idempotency keys, crash between call and checkpoint | nothing is replayed; ready only for the credential that worked; logins within their limit |
| Copilot credentials (`db/sqliteStorage.ts`, `routes/internalApi.ts`, `accountsApi.ts`) | token, status, attempt id per account | begin, prepare, save, fail, cancel, import, invalidate | callbacks of superseded attempts | only the current attempt writes |
| Direct-mode accounts (`db/mysqlStorage.ts`, `copilotAuthManager.ts`, `copilotOauthTokenImport.ts`) | account row, initialization claim | getAuth, import, reject, delete | replicas initialize one identity; statements commit one by one | an account keeps its enterprise and its token |
| Login task queue (`login/src/tasks`, `db/tasksRepo.ts`) | tasks, attempts, queue, runs | enqueue, run, cancel, retry, delete, recover | cancel races success; restart; calls executed late | one outcome per attempt; nobody stays "refreshing" |
| Login browser automation (`login/src/auth`) | the page, the device code, the abort signal | authorize | the page navigates between a look and an act | secrets are typed only where they belong; no browser is left |
| SSO users, SCIM and seats (`sso/src/users`) | user rows, SCIM users, seats, Proxy accounts | create, synchronize, seat, suspend, delete, ensure | three systems, calls that take effect and fail | what is recorded is true; nothing is left behind |
| EMU import (`sso/src/users/emuImport*.ts`) | plan rows | preview, apply, expire | a plan grows stale; two appliers | one local user per SCIM user, a row is applied once |
| SAML identity provider (`sso/src/saml`, `sso/src/routes/samlRoutes.ts`) | a signed cookie | login, respond, log out | tabs overwrite each other's cookie; users are deleted and created again | a response names whoever proved himself |
| Enterprise registry, readiness, policy (`shared/enterprise`, `proxy/src/clients/enterpriseReadiness.ts`, `db/enterpriseRepo.ts`) | registry per service, cached comparison, enterprise rows | load, compare, activate, drain | services restart one by one with different files | no two enterprises are mixed up; only what was compared serves |
| Batch operations (`shared/operations.ts`) | previews, items, jobs | preview, execute, poll, expire | several workers, lost submissions | one job per account; what is shown is what happened |
| Console (`console/src/web`) | batches, rows, selection, location | preview, execute, poll, load, pick, navigate | answers out of order, unmounted lists, ended sessions | no accepted batch is forgotten; rows are those of the scope on screen |
| Diagnostics (`proxy/src/diagnostics`) | files per replica, shared cutoff | append, rotate, list, clear | replicas on one volume, crash in a block | the newest are kept, cleared stay cleared, secrets redacted |
| Request statistics and export (`mysqlStorage.ts`, `shared/export.ts`) | rows per account | record, prune, export | pages of a table that changes | an export is one table |
| Schema migrations (`db/*igrations.ts`, `sqliteService.ts`) | schema, records of steps | open, step, lock, check | DDL commits at once; replicas serve meanwhile | what is recorded is complete; no data is lost |
| Upgrade tools (`upgrade/`) | the target, a lock, a report | validate, copy, verify, commit | lost COMMIT answers, overlapping runs, an early Proxy | all or nothing, and said so |
| Startup and shutdown (`shared/src/shutdown.ts`, `proxy/src/server.ts`) | connections, timers, resources | start, drain, release, exit | hanging releases, second signals | ends, and is clean when it says so |
| Console server, budgets, request translation, deployment scripts | – | – | – | not modelled, see the end |

Interactions: requests, the worker and operators share the pool's tables; Login
calls back into the Proxy's credential table, whose trigger
`user_pool_credential_fence` invalidates pool members; the worker calls SSO,
Login and Copilot over HTTP between two fenced checkpoints; the console submits
batches to the services, which submit logins; every service reads the same
registry file, at its own start.

`PROJECT.json` lists the hazards of this code at their lines, with the
properties that cover them or the reason why none does.

## Modules

| Module | Models |
|---|---|
| `UserPool`, `UserPoolProofs`, `UserPoolReworkProofs` | the SQLite store, the pool side of requests, worker steps, writers of credentials; proofs of sharing; proofs of rework, and about `MysqlMigrations` and `ServiceDb` |
| `PoolOwner`, `PoolOwnerProofs` | ownership of the worker over the statements of both stores; proofs |
| `CallerGate`, `CallerLine` | the gate of the MySQL store and the driver's connections; the abstract line it implements |
| `MysqlStore`, `MysqlProofs` | transactions of the MySQL store and their locks; proofs, and proofs about `CallerGate`, `PoolImport` and `DirectImport` |
| `ReclaimCursor` | the cursor of its bounded sweep |
| `Replenishment` | ranking, plan, reservation, policies and settings |
| `Provisioner` | stages with external effects; login slots |
| `PoolRequest` | one request in the event loop, to its single `finish()` |
| `SseStream`, `ModelsCache` | answers of Copilot and its model catalogue |
| `ProxyProofs` | proofs about `PoolRequest`, `ModelsCache`, `Shutdown` and `Diagnostics` |
| `LoginTasks`, `LoginTasksProofs` | the attempt protocol between Proxy and Login, and its queue; proofs, and proofs about `ConsoleRows` and `ConsoleOperations` |
| `BrowserLogin` | one login in its browser |
| `LoginProofs` | proofs about `BrowserLogin`, `Operations` and `Provisioner` |
| `Accounts`, `RequestStats` | the MySQL storage in direct mode |
| `SsoUsers`, `EmuImport`, `SamlSession` | the SSO service |
| `IdentityProofs` | proofs about `SamlSession`, `EmuImport`, `SsoUsers`, `Accounts`, `RequestStats`, `EnterpriseRegistry` and `Readiness` |
| `EnterpriseRegistry`, `Readiness` | the rules that accept a registry; the life of an enterprise |
| `Operations`, `ConsoleOperations`, `ConsoleRows` | a batch at the service; batches, rows and selection in the browser |
| `Diagnostics` | the error log on a shared volume |
| `MysqlMigrations`, `ServiceDb` | schema upgrades in MySQL and SQLite |
| `PoolImport`, `DirectImport` | the offline tools |
| `Shutdown` | start and graceful shutdown |
| `MC…` | instances for TLC |

An operator commented "Mutant" is a plausible wrong version of the operator that
follows it; `PROJECT.json` names the property each one breaks.

*Suites.* `MCPoolWaits`, `MCPoolRework`, `MCLogins`, `MCMysqlStore`, `MCProxy`,
`MCOperators` and `MCIdentity` each put several components side by side. Those
components share no state: the variable `part` says which of them a behaviour is
about and never changes, the others stay in one initial state, and fairness is
asked of the actions of that part only. A suite therefore checks each of its
components as a run of its own would. Where components do interact, the
interaction is inside one module: requests, worker and credential writers in
`UserPool`, Proxy and Login in `LoginTasks`, worker, SSO and Login in
`Provisioner`, SSO, GitHub and Proxy in `SsoUsers`, the services' registries in
`Readiness`, replicas in `PoolOwner`, `MysqlStore`, `Accounts`, `Diagnostics`
and `MysqlMigrations`.

### The pool

**UserPool.** *State.* One variable per column that matters: `state`, `stage`,
`generation`, `attempt` (attempt_id), `attempts`, `manual` (last_error in
MANUAL_ERRORS), `retryAt`, `coolUntil`, `verified` (verified_at not NULL),
`reauthCount`, `reauthAt`; `status` and `token` of proxy_accounts; `lease`,
`hold` (both hold tables, told apart by `kind`), `cooldown`; `enterprise`. In
memory: `handle`, the HeldLease of each running request, and `job`, the worker's
step on each member. History: `proven`, the token of the last successful warmup,
and the field `born` of a lease, the generation in which it was inserted.

*Actions.* Each store operation is an immediate SQLite transaction and so one
action, its trailing `reclaim()` included: `AcquireLeased`, `AcquireNew`,
`AcquireCatalog`, `RecoverUnauthorized`, `Cool`, `Quarantine`, `Finish`,
`Release`, `Disable`, `Retry`, `Reclaim`, `Pick` (pending). A refused admission
keeps its reclamation, so it is `Reclaim`. A step of the worker is several
actions, cut where the code awaits: `Pick`, `Claim`, then for the login stages
`LoginStep`, `LinkAccount`, `LoginConfirmed`, and for warmup `PinCredentials`,
`ReadAccount`, `Warmed`, `Promote`, or `ResetStage` and `InvalidateRejected`
after a 401; `StepFail` and `LoseJob` end it. `BeginLogin`, `SaveToken`,
`FailLogin` and `ImportToken` write credentials at any time. `LoseHandle` is the
death of the Proxy process, or a `finish()` that fails.

*Abstractions.* The order in which idle members and enterprises are ranked is
open: any idle member may be chosen (`Replenishment` has the ranking). Worker
ownership, the pause switch and the login capacity only remove steps and are
left out (`PoolOwner`, `Provisioner`). The stages before warmup are one stage
"login". A token is named by the generation that stored it. `Quarantine` has no
caller in production; it is kept because it is an operation of the store. A
Proxy in direct mode on the same database sees no pool, so reauthorization and
import may hit a member in any state. All members exist from the start;
`Replenishment` and `Provisioner` create them.

**PoolOwner.** *State.* `dbOwner`, `dbLeft` (owner_until minus the database
clock); per worker the local `tenure` (id and age), the `request` under way
(claim, renew or release; sent, accepted or refused), the tenures captured by
running steps (`active`), `stopped`, `leaving` and `stopState`; `orphans`, the
calls whose client gave up; `lost`, a history flag. *Actions.* A call is cut
into sending it (`SendClaim`, `SendRenew`, `StopDrained`), its execution in the
database (`Execute`), and its answer (`Claimed`, `NotClaimed`, `Renewed`,
`NotRenewed`, `Released`). `CallFails` abandons it; `ExecuteOrphan` executes an
abandoned call later, or drops it. `Expire`, `StorageFails`, `Stop`, `Crash`,
`Launch` and `StepEnds` are the rest of the worker. `active` also stands for the
batch that observes login reservations, which `ensureOwner` waits for in the
same condition. *Abstractions.* Time is relative and saturates at the TTL, so
behaviours are unbounded. The database clock and `performance.now()` are assumed
to advance at the same rate; nothing else is assumed of them. A UUID is reused
only when nothing refers to it.

**CallerGate** has one `call` per admission, its ticket, the line of each caller
(`active`, `waiters`), the queue of the driver and the leased connections. A
deadline settles every wait once (`TimeOut`); a connection that the driver lends
afterwards is disposed of, and only then is the ticket dropped. **CallerLine** is
what that amounts to: a bounded line per caller in which only the first uses a
connection. `ImplementsLine` is `INSTANCE CallerLine` with
`line <- Line` (the active ticket, then the waiting ones) and `using` (the
entries in the driver and the connections of a caller).

**MysqlStore** runs the transactions of admission, completion, sweep and
operators statement by statement. Writes take effect at COMMIT; candidates are
read without a lock and looked at again behind their row lock (`SKIP LOCKED`
included). Expiry is a flag that a step may raise. What a credential does is in
`UserPool`. Which members the caller's catalog cooldowns bind is left open: an
admission may lock any further members, in their order, besides those it knows.
**ReclaimCursor** isolates the cursor: due members, locked members, a batch
limit.

**Replenishment** takes its plan from one aggregate of the supply, ranks
enterprises by share with the arithmetic of the code, and reserves names one by
one while direct accounts take names too and operators edit policies.

**Provisioner** has a checkpoint before every external effect. An effect is
`sent`, may be executed at any later time (`SsoExecutes`, `TaskArrives`), and is
looked up by the step that finds its checkpoint. Login slots are counted where
the code counts them and released in the three places that release them.

**PoolRequest** is one handler: the admission and its timeout, the response's
`close` and `finish`, the abort, the hold's heartbeat and renewal, the body that
drains, `finishing` as the promise it is. A statistic that the code records
before it answers is a step of its own (`ListModels`, `Fallback`,
`PreflightError`, then `AnswerModels`): the deadline's 504 may be sent during
that await, the answer then throws, and the catch block records again.
**SseStream** reads texts of lines cut
anywhere, with `\r\n` between two chunks included. **ModelsCache** has entry
objects and refresh objects as the code has, because identity of objects is what
`clearModelsCache` plays with.

### Credentials and logins

**LoginTasks** has the Proxy's row (`oauth`), Login's rows (`task`,
`attemptRow`), Login's memory (`pending`, `run`, `finisher`, `retry`), which a
crash empties, and the calls on the network (`prepare`, `submission`): a call
whose client gave up may still execute. Each handler is cut where it awaits, so
`saveToken` checks the attempt, asks GitHub and stores as two steps.

**BrowserLogin**: the page is what the code can tell of its URL, and `Navigate`
may change it before every step, so a click ends wherever the page is when the
next step looks. `fillSsoField` checks the host and `fillFirst` awaits the
locator: two steps, and `Navigate` may come between them. The abort signal may
fire at any step. The pages themselves are external. **Accounts** cuts the calls of direct mode at every SQL statement.

### SSO and enterprises

**SsoUsers** has the local rows, the SCIM users and seats at GitHub, and the
accounts of the Proxy. A request is cut at password hashing and at every call; a
call to GitHub may take effect and fail, or be visible only later. **EmuImport**
has snapshot, plan rows and appliers; others create, bind, delete and rename
users meanwhile. **SamlSession** is the cookie of one browser: a request carries
the cookie of the moment it was sent and overwrites it with its response. Every
`GET /sso` records a pending request, also one without a SAMLRequest or without
an ID, and the next login answers it, then with an unsolicited response. Cookies
of the baseline, which carry no times, are among the initial states. XML,
signatures and templates are external.

**EnterpriseRegistry** is a pure function from a file and an environment to
profiles, or a refusal to start; of the fields it keeps those a rule of the
registry, a blocker or a comparison is about, and of a field's syntax whether it
is accepted and what its normal form is. **Readiness** lets three services
restart with different files and follows an enterprise from draft to draining.

### Operators and storage

**Operations** is a batch at the service; **ConsoleOperations** the hook that
shows it, with the calls on the network, and **ConsoleRows** a list with its
loads, selection and location hash. **Diagnostics** has files of blocks per
replica and the shared cutoff. **RequestStats** stamps a record before it is
inserted, as the code does. **MysqlMigrations** runs a script of statements per
replica that may stop anywhere; **ServiceDb** has the same for SQLite, where a
step is a transaction and the baseline is not. **PoolImport** and
**DirectImport** are the tools, down to the answers of GET_LOCK, COMMIT and
ROLLBACK. **Shutdown** has connections, handlers, the two timers and the
resources; a handler goes on after its response, to record its statistic or to
finish its hold (`tails`), and its connection may be idle meanwhile.

## Runs

| Run | Instance | Shows |
|---|---|---|
| `pool_sharing` | 2 callers, 2 members, 2 requests, clock to 3 | who holds what, and for how long: exclusive leases, one caller per member, requests stay pinned, provisional leases are bounded, cooldowns follow callers |
| `pool_rework` | 2 callers, 1 member that is reworked, 1 request, clock to 2, generations to 6 | types; a member being rebuilt is unused, a lease keeps one generation, a verified credential is the one that worked; only its generation renews a lease, a draining enterprise admits nobody, only a rejected token is erased, manual errors are final; upgrades of 2 replicas that disagree and of 2 openers are complete and lose nothing |
| `pool_waits` | 1 caller, 1 member, 2 requests, clock to 4; a gate of 4 admissions by 2 callers, 3 tickets, a line of 2, 1 connection, 1 retry | holds of a dead Proxy and expired leases end; every admission is decided and its ticket dropped; the gate implements the line |
| `owner` | 2 workers, 2 UUIDs each, TTL 2, latency 1, 1 failure | a tenure is backed by the row, one worker at a time, steps of one tenure, no row left after a clean stop, some worker takes over |
| `operators` | 1 account, 1 task, 2 attempts, 1 crash, 1 lost call; a batch of 3 records of 2 accounts; a list with 2 batches and 1 session change; rows of 2 enterprises, 2 filters, 2 pages; 2 replicas' logs of 2 files | rows, queue and token agree; cancel wins and ends; one job per account and no silent effect; what the console keeps and shows; what the log keeps, lists and hides |
| `login_retry` | 1 account, 2 tasks, 2 attempts, 2 concurrent retries; 2 members with 1 login slot | nobody stays refreshing, one browser per account, logins within their limit |
| `mysql_store` | 2 sessions, 2 callers, 2 members, 2 requests, 2 events; 2 enterprises, 5 names, target 3 | one caller per member across lease and catalog rows, a caller stays on one member, no circle of waits; growth within caps, target and shares; 2 imports of 3 kinds of backup and 3 runs of the direct copy are whole or absent |
| `proxy` | one request of any kind; 2 credentials, 3 lookups, 2 refreshes; 3 members in batches of 1; one login; 2 connections; 1 member with 2 logins and 2 interventions; a batch of 2; streams of up to two events | nothing is replayed and a login follows its seat; the hold guards the upstream; an inference is counted once, anything else twice only when the 504 came between its record and its answer; late refreshes change nothing; secrets and browsers; shutdown; cuts do not matter; and everything that is waited for comes |
| `identity` | 2 names, 2 requests, limits 1 and 2; 2 SCIM users, 2 names, 2 appliers, 3 changes by others; 2 tabs, 2 AuthnRequests and a visit without one, 3 requests sent; 3 registry files, 1 reload, 1 policy change | limit, pool users, seats and leftovers; stale plans; proven and single responses; registry rules, fixed identities, compared activation; 3 calls of getAuth on 2 replicas and 1 import, 2 recorders of statistics |
| `login_recovery` | 1 account, 1 task, 1 crash | a finding, below |
| `console_expired` | 1 record, 2 batches | a finding, below |
| `retry_race` | 1 account, 1 task, 3 attempts, 2 concurrent retries | a finding, below |

*Bounds.* In `UserPool`, `MaxTime` ends the clock, `LastAdmission` the
admissions (so that liveness runs drain), `MaxGeneration` stops rework,
`WorkedMembers` selects the members whose credential and worker steps are
explored. Durations are one or two ticks: every order of deadline, drain window,
provisional and renewed expiry occurs. Two callers and two members are enough
for a sharing conflict, which involves two rows; one member suffices for rework,
whose conflicts are between the member's own versions; six generations let a
credential be replaced, rejected, replaced and verified again. Elsewhere the
rule is the same: two of every actor that may conflict with its like, three
where two of them have to meet a third (lookups of a cache, tasks of a line,
runs of a copy, starters of an account), one crash or lost call because the
code handles each by itself, and limits that the instance reaches (tickets,
slots, caps, files, page and batch sizes). Every bound is a constant named in a
guard. All safety properties but two are proved for every size, see below.

*Deadlock* is not checked in any run: behaviours stop when the clock, the
failures, the changes of others or the requests are exhausted, when every worker
was stopped, or when a request, a login, a process or a tool has done its work.
That nobody who still waits is stuck is stated by the liveness properties and,
for locks, by `NoLockCycle`.

*Symmetry* is used for safety only: callers, requests and sessions; members
where none is singled out; tasks and attempts of one account.

*Exemptions.* Some properties name a history flag that lifts them for one
behaviour the code does not exclude; each is described under Observations:
`overtaken` (ConsoleOperations), `stale` (ConsoleRows), `crossed` (Diagnostics),
and requests sent twice in `AnsweredOnce` (SamlSession). `SeatIsTrue` and
`NothingIsLeft` (SsoUsers) leave out users on whom two requests overlapped: the
late effect of one of them is modelled, what it leaves behind is not constrained.

*Simplifications* a reader should know of. `Refused` (ConsoleOperations) assumes
that a 400 never answers a batch that was accepted before: only what is submitted
is looked at, and the page submits the same again. `Reauthorize` (LoginTasks)
switches the account and sends the submission in one step: nothing but the caller
knows of the submission before it is sent, so the time between is time on the
network. `RebuiltChildren` (ServiceDb) keeps the child rows: the code turns
foreign keys off around the rebuild of their parent, and this part of the
invariant guards that, against a rebuild that cascades.

### Fairness

Nothing is ever assumed of callers, operators, callbacks or failures. Assumed is:

- *Clock and polls* (`UserPool`): the clock advances, and `Reclaim` runs, because
  every poll of `schedule()` begins with `reclaim()` on a `setInterval`.
- *Ownership*: the clock advances, each worker's heartbeat interval goes on, the
  calls it awaits return, an abandoned call is eventually executed or dropped.
- *Gate*: continuations run, a transaction ends because its deadline destroys the
  socket, and (strongly) the driver lends a connection to an entry whenever it
  can again and again, because its own queue is first in, first out.
- *Request, cache, browser, login tasks, batch*: an awaited step returns, because
  every call and every page operation has a timeout; holds expire; a dead Login
  is restarted. A refresh of a job may fail each time; failures are counted.
- *Sweep and build*: the worker polls, its steps have a deadline, exhausted
  reservations are observed in rotation.
- *Shutdown*: timers fire. A release that hangs is assumed to keep a handle of its
  own open: the timers are unreferenced, and a process with nothing else left
  would exit by itself.

### Refinement

`GateIsALine` contains `ImplementsLine`, the specification of `CallerLine` under
the mapping above: joining, using and leaving the line happen in the abstract
order, and every other step of the gate is a stutter. It is checked as a property
of `pool_waits` and proved step by step (`GateIsALineHolds`). Its mutant asks the driver for a connection without retaining
the ticket, so that a timed-out admission leaves the line while the driver still
owes it one.

## Findings

- `login_recovery` (`login/src/tasks/recovery.ts:24`). After a crash Login reports
  each interrupted attempt once. The prepare call of that attempt may still be
  executing at the Proxy, which ignores the report and then switches to the
  attempt: the account stays `refreshing` with nobody working on it, which the
  comment at line 19 says it does not.
- `console_expired` (`console/src/web/components/Operations.tsx:257`). When an
  execute finds its preview gone, the catch block clears the current operation
  and the finally block no longer recognizes its own request. Pending mark and
  busy flag stay, and the list refuses the preview that the service's answer asks
  for, until it is mounted anew.
- `retry_race` (`login/src/tasks/retry.ts:24`). `retryTask` looks at the slot of
  the previous attempt before it awaits the Proxy and not again. When another
  retry of the task is queued, runs and fails meanwhile, the first one reserves
  the next attempt while the failed one still holds the slot for its report; the
  queue then drops the prepared attempt (`queue.ts:81`) and the task stays
  pending until it is cancelled or Login restarts. The refusal at line 24 says
  that a retry waits for the slot.

### Observations

Met while modelling, without a statement of the repository they contradict:

- The SSO baseline adds the seat column and refuses pending plan rows of older
  versions in two statements that commit separately; a crash between them leaves
  the old rows pending.
- Two overlapping runs of the direct copy whose sources have the single shape and
  no row in common may both commit.
- A lost answer of COMMIT followed by a failing rollback is reported as a plain
  error by the direct copy.
- In the console, a read that overtakes its execute clears the unconfirmed mark
  (`overtaken`); rows shown as stale after a failed load can be picked under the
  new filter (`stale`); `allMatching` is never set by the page.
- `models`, `count_tokens` and failed preflights record their statistic, await it
  and then answer. When the deadline answers 504 in between, the answer throws and
  the catch block records a second statistic for the request
  (`compatible.ts:88`, `169`, `207`, `217`).
- After `res.end` a handler still records its statistic and finishes its hold. Its
  connection counts as idle then, so a shutdown may close storage under it and
  still exit with code 0 (`compatible.ts:392`, `runtime.ts:192`,
  `server.ts:183`). Only handlers whose response is open are waited for.
- The page may navigate between the host check of a field and its `fill`, which
  resolves the locator anew (`HeadlessPlaywrightAuthStrategy.ts:432`). What is
  proved is that nothing else brings a credential to another page.
- A `GET /sso` without an AuthnRequest makes the next login answer with an
  unsolicited response (`samlRoutes.ts:74`, `93`).
- Two overlapping clears of the diagnostics may move the shared cutoff back
  (`crossed`); a crash in the middle of a rotation costs one more file.
- Some defensive branches are unreachable in the model: the missing fence in
  `userPool/mysqlMigrations.ts`, the retry of a task that is already queued.

## Proofs

Every theorem holds for all values of the constants that satisfy the
assumptions of its module: any sets of callers, members, requests, sessions,
workers, tasks and accounts, any durations and bounds. What a run shows of a few
of each, a theorem shows of any number.

*Sharing* (`UserPoolProofs`).

- `TypeCorrect`: types, among them that the reauthorization counter stays within
  its limit.
- `Sharing`: the inductive invariant `SharingInv`. `OneCallerPerMember` speaks of
  requests in flight, whose rows may be deleted by others, so it is not inductive
  alone. It follows from: the rows of both hold tables and the lease table
  together pair callers with members one to one (`OneToOneIn`); every inference
  hold has its lease (`HoldHasLeaseIn`); a request whose hold would not have
  lapsed still has its row, unchanged (`HandleHasHold`). The last one is where
  the drain window counts: reclamation deletes a hold only once it expires, and
  a lease only if its member has no live hold.
- `MembersAreNotShared`, `RequestsStayPinned`, `LeasesStayExclusive` are its
  consequences and the theorems behind `pool_sharing`.

*Rework* (`UserPoolReworkProofs`). A member can be failed, retried and rebuilt
while requests and worker steps that began with its former credential are still
on their way. `Rework` proves `ReworkInv`, whose argument is the generation:
whatever takes a member from its callers raises its generation and cuts its
leases, so an unexpired lease is of its member's generation
(`LeaseHasOneGeneration`), and a step of the worker compares the generation it
was picked with, so what it found then is still so (`MemberIsSound`).
`LeasesKeepTheirTimes`, `CredentialsStaySound` and the action property
`StepsAreLegal` (a late success revives no lease, a draining enterprise admits
nobody, only a rejected token is erased, manual errors are final) follow.

*Ownership* (`PoolOwnerProofs`). `OwnershipInvariant` proves `OwnerInv`: a
tenure, and likewise an accepted claim or renewal whose answer is still under
way, of age *a* < TTL has the row with at least TTL - *a* left; an abandoned
release names an id that no tenure and no other call uses; a worker only asks
for ids of its own; a claim is sent only when no step runs.
`LocalTenureIsBacked`, `AtMostOneOwner` and `StepsAreOfOneTenure` follow.
`StopHandsOver` adds `HandoverInv`, the books of `stop()`: as long as no call of
a worker was lost, a row of one of its ids is known to it, as its tenure, a call
under way, or the id it is leaving, so a stop that reports success left none.

*The MySQL store* (`MysqlProofs`). The promises of the SQLite store rest there on
one writer at a time; here a transaction reads at one time and writes at
another. `StoreInvariant` proves `StoreInv`: what a transaction still knows when
it writes (`TransactionIsSound`), the locks behind which it knows it
(`LocksAreOwned`), and the pairing itself (`OneToOne`, `HoldHasLease`). The
proof shows that every step is `Confined`: it removes or adds rows only of
members whose credential row its transaction has locked, and gives a caller
something new only under that caller's named lock; the lemma `OthersStay` turns
this into the fact that what any other transaction knows stays true. Hence
`StoreStaysSafe`. `NoCircle` proves that lock waits are not circular: in a set of
transactions that wait for one another, look at the greatest member whose row
one of them owns; its owner either waits for a greater one or, being an
operator, owns no row while it waits.

*The gate* (`MysqlProofs`). `GateIsALineHolds` proves both halves of
`GateIsALine`. `GateInv` says of every call, by where it is, what it holds
(`CallsSound`), of every ticket that its admission is in the line of its caller
exactly once (`ScopesSound`), and that the count of tickets is the cardinality of
their set (`TicketsSound`). Under it each action of the gate is a step of the line
or leaves it unchanged.

*Building members* (`LoginProofs`). `ProvisionInv` says of each member what its
stage tells about the effects asked of SSO and about its logins (`MemberSound`),
and that the rows which claim a login slot are at most the limit. A login at work
is always one of them, whence `LoginsAreBoundedHolds`; a stage is never behind an
effect, whence `BuildIsSafeHolds`.

*Requests, cache and shutdown* (`ProxyProofs`). `RequestStaysSafe`: `RequestInv`
adds what the flags of a handler say of each other (an operation is marked until
its body is read, a finished answer has aborted its request, a success is known
before its response ends), and by stage how many statistics there are: a second
one exists only if the 504 was sent. `CacheStaysCurrent`: `CacheInv` adds that
whatever is asked for an entry that the map has is newer than the last clear, so
a late refresh reaches only entries the map has dropped. `ShutdownStaysSafe`:
`ShutdownInv` adds what each stage of the process still has and that a handler
whose response is open while its connection is closed was cut; nothing is
promised to the tails of handlers that have answered.

*Diagnostics* (`ProxyProofs`). `DiagInv`: the records of a replica are ordered
over its files, the files behind a recent record are full, a list under way is
ahead of what rotations may still move past it, and a clear is later than all
that was written before it. A record that is no longer on the volume has as many
newer ones as the other files hold (`Kept`), because a rotation drops a file with
only full ones before it. `DiagnosticsStaySafe` follows.

*Logins and batches* (`LoginProofs`). `BrowserStaysSafe`: `BrowserInv` bounds the
attempts of each loop, says where the flow can be while a browser starts or
closes, and that a field about to be filled was checked on the page that is open
or the page has moved since (`CheckedPage`). `BatchStaysSafe`: `OpInv` says that
an item is with one worker, which has submitted nothing for it yet, or has been
submitted.

*Login's queue* (`LoginTasksProofs`). `LoginStaysConsistent` proves `LoginInv`:
the rows of tasks and attempts agree (`RowsAgree`), an account has at most one
active task (`OneActive`), a browser works on the current attempt of its task
(`RunsAgree`), an entry of the queue is of a pending task whose slot is free and
every queued task has one (`QueueAgrees`, `QueueHolds`), retries and submissions
have attempts of their own, and a crash leaves the rows and nothing else. These
parts take the tables as arguments: `drain()` runs in the middle of a step, after
a row was closed and before the step ends, and the lemma `DrainStep` is applied
to the tables of that moment. `OneBrowserAtATime` follows. `QueueStaysSound`
needs also that only stored tokens are saved (`StoreInv`), and `CancelAlwaysWins`
the fence of the Proxy (`FenceInv`): an attempt that was marked failed is not the
one its account waits for, and no prepare call under way can make it so again,
because a call's attempt is never the current one before the call has switched
to it.

`WaitingIsAttended` adds `AttendInv`: in a behaviour without crash or loss the
attempt an account waits for is, at every moment, with exactly those who will
hand it on or report it.

*SSO* (`IdentityProofs`). `SessionStaysSafe`: `SamlInv` says of the cookie and of
every open request that the user it names has proved the row it names
(`SessionProven`, `TabSound`), and of an AuthnRequest that was never in two hands
that at most one open request knows of it and none once it is answered
(`IdSound`). `ImportStaysSafe`: `EmuInv` says that rows exist while their plan
does and have their names (`PlanIsSound`); the rest follows from what is
looked at again in the transaction that applies a row, among it that the name and
the SCIM user about to be bound are free. `UsersStaySafe`: `UsersInv` says by stage what a request has found
and done (`StageFits`), what the row, GitHub and the Proxy have for a user nobody
disturbs (`Tracks`), and that requests on one user disturb each other
(`DisturbedTogether`).

*Storage and enterprises* (`IdentityProofs`). `StorageStaysSafe`: `AccountsInv`
says that whoever believes it holds the initializer's lease does (`LeasedHolds`);
`StatsInv` that an export has sent the first pages of its snapshot and no more
(`ExportHolds`). `EnterprisesStaySafe`: `ReadyInv` says that the profiles every
service has loaded keep the rules, what a pending change of a policy has found of
its row (`ChangeSound`), and that what is remembered as ready was compared by
this Proxy (`ComparedSound`).

*Console* (`LoginTasksProofs`). `ConsoleStaysSafe`: `RowsInv` ties the rows and
the selection of a list to the scope on screen, because only the load with the
newest number may show rows and that one is for the list on screen (`LoadsFit`);
`ConsInv` follows each accepted batch through calls, memory and saved state
(`KeptSaved`, `KeptShown`).

*Upgrades* (`UserPoolReworkProofs`). `UpgradesStaySafe`: `UpgradeInv` says what an
opener that has passed a statement may rely on although others run the same
script (`PassedChanges`), that a recorded step is applied, and that replicas
which serve agree; `DbInv` that an opener past the upgrade of the credentials
left it recorded, so that no later copy drops a stored one.

*Offline tools* (`MysqlProofs`). `ImportInv` says what a transaction of the tool
knows behind its lock, and what an operator may have been told by then
(`ReportIsTrue`); `DirectInv` that a run has written only rows of its own
(`WrittenIsOwn`), that a commit is whole, and that every stored row came from a
Proxy or with all the rows of its run (`StoredIsWhole`). `CopiesStayWhole`, `OfflineToolsStaySafe` and
`DirectCopyStaysWhole` follow.

Some of these theorems are stated of `MCSpec`: they extend a suite module, whose
specification leaves the constants open, so the property and the theorem are the
same formula.

*Assumptions on constants.* Durations are positive naturals where the code
configures them so, absent rows and objects differ from rows and objects,
UUIDs belong to one worker, an attempt id is drawn for one account; identities of
MySQL members are ordered and finitely many, because admission locks bound
members in the order of their identities; a batch has a worker, because
`operations.ts:149` starts `Math.max(1, …)` of them; objects of the cache are
numbered, because only their identity matters; replicas of the error log are
numbered and finitely many, as are the names of users and the rows of a copy; the
normal form of a text of the registry is its own normal form; a visit without an
AuthnRequest forces nothing; limits, page sizes and bounds are naturals. All are
evaluated by the runs.

*Only model-checked.* Liveness (`PoolWaitsEnd`, `WaitsEnd`,
`SomeWorkerTakesOver`, `CancellationEnds`), which with fairness and ENABLED is out
of the prover's reach. `CutsDoNotMatter`: that the reader's answer does not depend
on where a text is cut is an induction over the text. `GrowthIsSafe`: the ranking
sorts and sums over the enterprises, which are inductions too. And
`RefreshingIsAttended` with crashes and losses, where it is false: see the
finding.

## Plan

The modelling is done as far as "Not modelled" says, and the safety properties
the runs check are proved but for the two above. What is left:

1. The parts of `GrowthIsSafe` that need no induction, the caps and the target: a
   reservation is behind the counts it has locked, whatever the ranking chose.
2. A bound on what `SeatIsTrue` and `NothingIsLeft` leave out: what two requests
   that overlap on one user may leave behind, and which later request repairs it.

## Not modelled

- *Console server, budgets.* A session cookie and thin remote clients; no state
  of their own.
- *Request translation.* A stateless conversion of HTTP bodies.
- *Deployment and operations scripts.* Manifests, overlays and screenshots.
- *Console pages.* Forms, dialogs and tables of `App.tsx` beyond lists, batches
  and navigation hold no protocol; neither do the aggregates of the usage pages
  and the read-only listings of the management API.
- *External systems.* GitHub (SCIM, seats, device flow, pages), Copilot, the SQL
  databases and the driver of MySQL are modelled only as the code uses them.
- *Syntax.* XML, signatures and passwords of SAML, the syntax of single fields of
  a registry, SQL column definitions, and the wording of reports and logs.

# TLA+ models of the pluggable platform

The repository is a TypeScript monorepo: a *control plane* through which operators
change the platform (`apps/platform-control-api`), a *product API*
(`apps/api`), *workers* (`apps/workers`), domain *services*, and *adapters* for
PostgreSQL, Redis, queues, event buses and storage behind capability ports.
The models here cover the parts whose correctness depends on how several
processes interleave over a shared store, and on what is left behind when one
of them fails between two steps. Paths below are relative to the repository's
root.

## 1. Inventory

| Component | State | Operations | What makes it correct |
|---|---|---|---|
| Change requests and desired state (`apps/platform-control-api/src/change-machine.ts`, `server.ts`, `store.ts`) | `control_change_request_runtime` (one JSON record per change, with its own trail), `control_runtime_state` (version and document), `control_audit_runtime` | POST `/changes`, POST `/changes/:id/transition`, PUT and GET `/desired-state` | a stored trail is a path of the state graph; no requestor approves his own production change; the desired state is written only under an approved change; one version per write; a saved state is audited unless its request fails or its row is rolled back |
| Control pages, emergency controls, overview (same files) | `control_page_runtime` | PUT `/pages/:page`, POST `/emergency` (read, merge, write, audit), GET `/overview` (ten reads), the collector's refresh | a kill switch stays as the last operator set it; a page never goes back to an older snapshot |
| Operator authentication (`auth.ts`) | none | bearer token to operator, `requireControlWrite` | writes need `platform:write` |
| Section 19 control plane (`src/section19`) | `platform_change`, `configuration_version`, `audit_event` | create, transition (a second, different graph), activate a configuration version, health, drift | one active configuration; an activation that was answered took effect; who approves a production change is not its requestor |
| Outbox and inbox (`adapters/postgres/src/outbox.ts`) | `outbox_events`, `inbox_events` | `appendOutbox`, `OutboxPublisher.flushOnce`, `run`, `stop`, `consumeInboxOnce` | no committed event is lost, none is marked unsent, each is handled and reported as new once |
| Idempotency (`apps/api/src/idempotency.ts`, Redis and PostgreSQL adapters) | key to response, with an expiry | `get`, `putIfAbsent`, `commitOrRead` | while a key lives, all its requests get one response |
| Rate limits (`apps/api/src/rate-limit.ts`) | counters per key and window | `consume` | at most the limit per window |
| Workers (`apps/workers/src/runner.ts`) | active count, stopping flag | `run`, `requestStop`, `gracefulShutdown` | a job ends as completed, retried or dead-lettered, once per attempt; shutdown waits for active jobs |
| Job queues (BullMQ, SQS, RabbitMQ adapters) | external | `enqueue` | an idempotency key enqueues one job |
| Workflow, reporting, notification services | run and report rows | save, then enqueue | a job has its row |
| Tenant, integration and audit services | workspaces, connections, audit rows | look up, then save | unique slug, unique connection name |
| Upload pipeline (`services/document/src/upload-security.ts`) | quarantine and approved objects | sign, read, inspect, put approved, delete quarantined, enqueue | nothing is approved that was not inspected; an approved upload is processed |
| AI gateway (`services/ai/src/gateway.ts`) | token usage | quota check, call with retries and fallback, add usage | once a tenant's quota is reached, only calls already under way are still charged |
| Resilience library (`packages/platform-sdk/src/resilience.ts`, `cache-aside.ts`) | failure counts, active calls, waiters, loads in flight | retry, timeout, circuit breaker, bulkhead, `cacheAside`, shutdown | no slot of a bulkhead is lost or given twice; a call is not answered with an older value than was cached before it |
| Capability container and provider registry (`packages/platform-sdk/src`) | the resolved document | merge layers, validate, `resolve` with health check and fallback | what is served undegraded has what it depends on |
| Locks (Redis, PostgreSQL advisory) | lock keys | `withLock` | one holder |
| Configuration, dependency and policy engines (`packages/*-engine`) | none | merge, validate, plan, evaluate | the engines agree on what they both state |
| Tenant-scoped ports (`packages/security`) | none; names in shared services | wrap cache, lock, queue, storage, secrets, search, bus, model | no name is reached from two tenants or workspaces |
| Operations collector (`services/operations`) | none | `collect`: seven sources of AWS, each of which may fail | findings that stand are shown, or the page says that it is degraded |
| Change orchestration (`infrastructure/step-functions`) | execution state | a state machine of tasks with Catch clauses | every failure ends in a recorded state |
| Web and admin applications, infrastructure as code | browser state | views | no program logic of the kind modelled here |

**How they interact.** The admin application calls the control API; the control API and Section 19 share one `pg`
pool. Every handler is a chain of awaits, and there are several replicas, so the queries of different requests
interleave freely; only `outbox.ts` and `database.ts` hold a connection for a transaction, and Section 19's activation
asks the pool for one per statement, so that a query of another handler may get the connection on which such a
transaction is open, and be committed or rolled back with it. Services write rows and then call a queue port; workers
run the jobs and consult the idempotency port. Events leave through the outbox and enter a consumer through the inbox;
the bus delivers at least once.

**What is hard.** Read, check and write back without a lock (changes, emergency page, slugs, quotas); a state change
and its audit row in separate statements; crashes between a database write and a queue or bus call; duplicate delivery
racing itself; expiry between two steps; refreshes that overlap; limits taken from a counter read before an await.
`PROJECT.json` lists each hazard at its line with the properties that cover it.

## 2. Plan

The order was by what the platform promises first: that production changes are approved and recorded, then that
committed events are not lost, then the rest of the control plane, the request and job paths, and the libraries.
Every module below is written, checked, and proved about as section 5 says.

| Module | Models | Composes |
|---|---|---|
| `ChangeMachine` | state graph, guards, the new record | - |
| `ChangeControl` (+ `_proofs`) | control API handlers over PostgreSQL | `ChangeMachine` |
| `ChangeLifecycle` | abstract: each request acts at once | `ChangeMachine`; `ChangeControl` implements it |
| `EventDelivery` (+ `_proofs`) | outbox, publishers, bus, inbox | - |
| `EventLog` | abstract: an event is committed, sent, handled, reported as new | `EventDelivery` implements it |
| `ControlPages` (+ `_proofs`) | pages, emergency, refreshes | - |
| `ConfigActivation` (+ `_proofs`) | activation of a configuration over a pool of connections | - |
| `AtomicActivation` | abstract: a version asked for becomes active in one step | `ConfigActivation` implements it until a statement strays |
| `IdempotencyStore` | the idempotency port over each adapter | - |
| `ApiRequests` (+ `_proofs`) | rate limit, quota, idempotent creation | `IdempotencyStore` |
| `Jobs` (+ `_proofs`) | workers, queue ports, the workflow service | `IdempotencyStore` |
| `JobLedger` | abstract: a row, its job, the job's effects, errors and end | `Jobs` implements it |
| `DesiredState` | merge, validation, dependency rules | - |
| `CapabilityContainer` (+ `_proofs`) | container, provider registry | `DesiredState` |
| `Leases`, `DomainServices`, `Resilience`, `CacheAside`, `AIGateway`, `Uploads`, `TenantScope`, `MemoryLimiter`, `Section19Changes`, `OperationsCollector` | one library or service each | - |
| `Services` (+ `_proofs`) | those ten side by side | all ten |

The `MC` modules give the constants of a run their values. What could be added: an abstract page store
for `ControlPages`, the Section 19 in-memory repository, and more of the validation rules in `DesiredState`.

## 3. Modules and the code

### ChangeMachine, ChangeControl, ChangeLifecycle

`ChangeMachine` is stateless: `forward` is the table of `change-machine.ts`, `create` and `transition` are the records
the handlers build, and `CreateAllowed`, `TransitionAllowed`, `MayMutate` are the guards of `server.ts`. A stored
change is `state`, `actorId`, `approvedBy`, the proposal and the trail; timestamps and comments are left out, and so
is who entered each state of the trail, because only the approver matters and is in `approvedBy`.

`ChangeControl` has one action per awaited query. `pc[r]` is the await a request is at and `target`, `payload`,
`desired`, `version` are its locals. `CreateChange` and `TransitionChange` read and check; `saveChange` is the upsert,
which overwrites whatever is stored; `AuditChange` the insert after it. `BeginPutDesired`, `setDesiredState`,
`AuditDesired`, `AuditApplied`, `getConfigVersion`, `getDesiredState`, `Respond` are PUT, and the last three with
`BeginGetDesired` are GET. `Crash` ends a request anywhere, which also stands for a query that fails (the error
handler answers 500). Requests that are refused change nothing and are not steps. `current` is the row a request read
its change from, until its write; from it `Overtaken` tells whether another request saved the change meanwhile.

The pool is shared with Section 19, so a query may get a connection on which an activation has left a transaction open
(`Stray`; how that comes about is in `ConfigActivation`). `held[c]` is then what the row was before that transaction
wrote it, `Rows` what a query may find of it, inside and outside, and other writers wait for the row's lock;
`heldAudit` is the audit rows inserted there. `CommitRow`, `RollBackRow` and `EndAudit` are the end of the transaction,
for each row by itself, since transactions are not told apart: that allows more than one COMMIT or ROLLBACK does. The
queries of the desired state are taken to commit by themselves. `AppliedChangesWereApproved`, `ReplyIsNotOlder` and
`OneWriterPerVersion` are therefore about PUTs whose own queries stay out of such a transaction: a desired state that
is rolled back gives its version to the next write too. `approvals`, `history`, `lost`, `undone` (audit rows rolled
back) and `reverted` (changes of which a save was) are history variables.

`ChangeLifecycle` is what the API promises: the same operators applied at once to the records as they are. It is also
the behaviour over `InMemoryControlStore`, whose operations update its maps before they first yield.

### EventDelivery

One action per await of `outbox.ts`. `BeginFlush` is `BEGIN` and the `SELECT ... FOR UPDATE SKIP LOCKED`, `publish` is
`bus.publish` with the `UPDATE` after it, `CommitFlush` the `COMMIT`; `FlushFails` is any error or the end of the
process: the transaction rolls back, what the bus has it keeps, and since `run` catches nothing the loop is over until
`Restart`. `SelectInbox`, `handler`, `InsertInbox` and `CallFails` are `consumeInboxOnce`; `CommitUnheard` is its
COMMIT that took effect and was not heard of, which leaves a row that no call reported as new. The bus is external: it
keeps what it was sent, delivers until a call returns, and may deliver again (`DeliverAgain`), also while a call is in
flight. `handled` and `accepted` are history variables. The order of rows in a batch, and what an event carries, are
left out.

`EventLog` is what that amounts to for one consumer: no batches, locks, transactions or calls, only the events that
were committed, sent, marked, handled, recorded in the inbox and answered for, each step resting on the one before and
none undone. An event is reported as new at most once, by the call that recorded it, and not at all if nobody heard.

### IdempotencyStore, ApiRequests

`IdempotencyStore` is the port with its three adapters: `response` keeps what was last stored under a key, `live`
whether it has not expired, and `Occupied` is where they differ: Redis and the in-process map forget an expired entry,
PostgreSQL keeps its row, which `get` no longer returns and `ON CONFLICT DO NOTHING` still meets.

`ApiRequests` follows a request through `apps/api`: `Arrive`, `ConsumeRequestLimit` and `ConsumeQuota` are the
`onRequest` hook, where each limiter's Lua script is one atomic command; `LookUp` is the handler's `get`, `Commit` and
`ReadWinner` the two steps of `commitOrRead`. `EndWindow` and `EndQuotaPeriod` are a window's `PEXPIRE`; `Expire` an
entry's. `Fail` is a command that rejects (500); `LoseReply` is the Redis client sending a command again whose reply
was lost, after it took effect: an `INCR` that counts twice, a `SET NX` that is then told that the key is taken.
`seen`, `admitted` and `served` are history variables. What a resource consists of is left out: a response is named by
the request that made it.

### Jobs

`Start`, `saveRun`, `enqueue`, `StartFails` are `WorkflowService.start`. A message is a job with the attempt of its
envelope; `run` is its delivery to a worker that can accept it, `LookUp`, `handler`, `HandlerThrows`, `Record` the
awaits in `WorkerRunner.run`, `RetryOrBury` its `catch` with the hook that succeeds, `HookFails` with the hook that
throws. The idempotency store and either hook may be missing (`hooks`): without the store nothing is looked up or
recorded, and without the hook the job is answered and nothing comes after it (`dropped`). `Finish` is the `finally`,
part of every action that ends a call. The timer is not an action: it aborts a
signal, and a handler that heeds it throws. `requestStop`, `Replace` and `Crash` are shutdown, its graceful end with
the replacement that follows, and the end of a process with calls in flight. The queue and what the hooks do are
external (the repository has ports for them): a message comes back when its call rejects or its process dies,
`DeliverAgain` returns one unasked. `queue` is the kind of the adapter: "plain" takes every job (SQS), "unique" may add
nothing for a key it has had (BullMQ's `jobId` while it remembers the job, SQS FIFO for minutes), and "unconfirmed" may
lose any message, since RabbitMQ's plain channel confirms nothing (`MayIgnore`). `StartFails` is an enqueue that did
nothing, or one that took the job and whose answer was lost. Which kind and which hooks is chosen at the start, among
`Settings`. Retry delays are left out: a message that waits may be delivered at any time.

`HandedOn` says which settings hand on every failed attempt: both hooks, over a queue that takes every retry. The
promise that a job is not lost, and the liveness, are for those; for the others `JobsAreKept` says that a job is lost
by an attempt that failed, and by nothing else.

`JobLedger` is what that amounts to without deliveries, processes and calls: a row is saved before its job is taken, a
handler's effect comes before COMPLETED, `max_attempts` errors before the dead letters, and nothing is taken back. It
does not say that a job has one end: a job delivered twice may be both completed and buried.

### ControlPages

`PutPage`, `PutEmergency` and `PostEmergency` are the handlers up to their write: a POST has read the emergency page
and merged what its body names into it (`Merge`). `setPage`, `AuditPage`, `AuditUpdate` and `Respond` are the
statements that follow, and `Fail` is a query that rejects, or the end of the process. `refreshOperations` is a tick
of the timer, here or in another replica, `collect` the moment a snapshot is complete; from there `setSnapshot` and
`AuditSnapshot` run for each page in any order, as `Promise.all` lets them, and one that fails leaves the others
going. An audit row may be inserted in an open transaction of an activation (`recordAudit`, `heldAudits`,
`heldUpdates`), which `EndAudit` and `EndUpdate` commit or roll back; upserts of pages are taken to commit. The
emergency page is a setting for each switch and for maintenance mode; other pages hold what an operator put there, or
a snapshot, named by the order of collection. `writes`, `dropped`, `undone`, `refused`, `behind`, `last`, `asked`,
`stale` and `lost` are history variables: `lost` is the settings that a POST undid because they were changed after it
had read the page.

### ConfigActivation

Each statement of `activateConfigVersion` (and of the audit after it, and of another handler's single write) is
`Lend`, when the pool gives it a connection, and then the statement, whose last effect is `Release`. The pool and
PostgreSQL are external: a connection holds its transaction (`tx`, `locked`, `view`, `inserted`), updates wait for
locked rows, `ux_configuration_active` refuses a second active row or waits for one that is being updated, a failed
statement aborts the transaction around it, and COMMIT then rolls back. `Refuse`, `StatementFails` and
`ConnectionLost` are errors, and `AfterError` is the `try` and `catch`. `strayed` tells whether a statement has run in
another request's transaction or outside its own. `AtomicActivation` is what an activation is meant to be: one step.

### DesiredState, CapabilityContainer

`DesiredState` has no state. A document is a selection for each of ten capabilities, with the two feature flags and
the flag that the rules read; `deepMerge`, `validateDesiredState`, `assertLockedState`, `validatePlatformState` and
`resolveDependencyIssues` are the functions of the engines over such documents. `DEPENDENCY_RULES` is the table of
`packages/dependency-engine`.

`CapabilityContainer` merges a layer a step (`MergeLayer`, `resolveDesiredState`), validates (`Construct`), and then
resolves: `ToPrimary`, `ToFallback` and `Throws` are the ways out of `resolve`, since a factory or a health check may
succeed now and fail the next time.

### Services and its ten components

The ten modules below share no state with one another, so one module, `Services`, sets them side by side. Its variable
`subject` is chosen at the start and says which of them moves; the others stay as they begin. What is proved of a
component is proved of the component's own specification, and `SubjectsAreComponents` carries it over to `Services`.

* `Leases`: `withLock` over both adapters. `acquire` takes the key or the session's lock, `fn` is the end of the
  guarded function, `release` the script that compares tokens, or the unlock. `EndLease` is the time to live of a
  Redis key, which nothing renews, `AcquireUnheard` a `SET NX` whose reply never came, `CallerDies` a process that
  ends: a Redis key then stays until it expires, a session lock goes with its connection.
* `DomainServices`: `createWorkspace`, `createConnection`, `request` (reporting), `queueDelivery` and `record`, await
  by await. `savedAs` is what the services make of a name before they save it; the lookup of `createWorkspace` is with
  the slug as it is saved, as in the code.
* `Resilience`: `Bulkhead`, `CircuitBreaker`, `withRetry` and `withTimeout` around one another, callback by callback.
  A bulkhead that is full keeps waiters; a call that returns frees its slot and wakes the first, whose continuation
  (`GoOn`) comes later and may meet a newcomer that took the slot. `AttemptFails` covers a rejection and a time limit;
  after the latter the operation is one of `orphans` and still runs.
* `CacheAside`: `cacheAside` with its breaker and its load in flight, for one key: `CacheGet`, `TryFails` (a get that
  rejects, or a breaker that is open), `JoinOrLoad` (a flight that is joined or begun), `LoadReturns`, `CacheSet`,
  `LeaveFlight`. A value is the version that was loaded; `ChangeLoaded` is the source moving on, `ExpireCached` the
  entry's time to live, `RecordRejects` and `ReportSet` the telemetry, which may reject as well.
* `AIGateway`: `generate`, await by await: authorization, `getUsedTokens`, attempts with retries, `AskFallback`,
  `validateOutput`, `addUsage`, `Report`. `NewMonth` starts a new window of the quota. An answer is charged for the
  tokens of its input and its output, of which the code limits the latter only: `Charges` is any set of numbers, and
  what is bounded is how many charges come once the quota is reached (`overdrawn`), not how much each is.
* `Uploads`: one upload. `ClientPuts` may come at any time while the signed URL lives, also between `getObject` and
  `putApproved`; the code copies the bytes it read. The checks of bytes are two sets of contents.
* `TenantScope`: names as sequences of segments. `UseKey`, `UseObject`, `UseSecret` and `Ask` are the operations of
  the scoped ports, `tenantKey`, `storagePrefix`, `tenantCredentialPrefix` and `relativeCredentialName` the names they
  make; `ResolvePath` is what the filesystem adapter does with a name, segment by segment, and S3 keeps it. `touched`
  and `asked` record which context reached what.
* `MemoryLimiter`: `consume` as one step, since it has no await. The `Map` is its entries, `windows`, and the order in
  which their keys were first set, the relation `older`; `Newest` is the periodic cleaning and the eviction of the
  oldest windows.
* `Section19Changes`: the routes of a change. `PostChange` and `PostTransition` start them, `CheckPolicy` is the read
  that the policy is evaluated on, `requireChange` the service's own second read, `saveChange` and `appendAudit` the
  statements after it. The body of a creation is not validated and is spread over the defaults, so the record may be
  any (`Bodies`), and may be written over one that exists, of which the upsert keeps the requestor and the environment.
  `held` is the row before an open transaction of an activation wrote it, `ActivationEnds` that transaction's end.
* `OperationsCollector`: one collection. The seven sources answer in any order or fail (`Unavailable`), and the
  findings of Security Hub and Inspector come and go meanwhile; GuardDuty is two calls.

## 4. Runs

| Run | Checks | Shows |
|---|---|---|
| `change_control` | `TrailLegal`, `SeparationOfDuties`, `AuditAccountsForTrail`, `AppliedChangesWereApproved`, `ReplyIsNotOlder`, `OneWriterPerVersion`, `StraysOnlyOvertaken` | what two requests in flight cannot break, one of which may fail or run a statement in an open transaction; and that only an overtaken request, or a rollback, does what the atomic lifecycle does not |
| `change_sequential` | `ImplementsLifecycle` | one request at a time, with crashes, implements the atomic lifecycle in production and elsewhere |
| `change_lost_update` | `StateMovesForward` (violated) | two transitions in flight: a stored change goes back |
| `event_delivery` | `MarkedWasSent`, `AcknowledgedWasHandled`, `ImplementsEventLog`, `EveryEventIsHandled` | outbox and inbox under failures, competing publishers and racing duplicates: nothing marked unsent, nothing accepted twice, nothing undone, nothing lost |
| `inbox_second_consumer` | `AcknowledgedWasHandled` (violated) | a second consumer of an event is told it is done |
| `api_requests` | `AnswersWereLive`, `CreatedOncePerLife`, `ConflictMeansRace`, `LimitsHold` | racing requests with one key, expiry between their steps, limits shared by replicas, commands sent twice |
| `jobs` | `JobsAreKept`, `RecordedIsSkipped`, `ActiveIsExact`, `KeepsLedger`, `EveryJobEnds` | a job from its row to its end, under failures, stops, crashes and duplicates: not lost but by a queue or a runner that may drop it, not handled again once recorded, and not ended before its effect or its errors |
| `control_pages` | `SettingsStayUnlessRaced`, `WritesAreAudited`, `FreshUnlessOverlapped` | the emergency page under racing operators, refreshes that overlap and fail in part, audit rows in an open transaction |
| `config_activation` | `AtMostOneActive`, `AtomicUnlessStrayed`, `AnsweredTookEffect` | two versions are never active; an activation whose statements stay together is a single step |
| `config_rollback` | `SomeVersionActive` (violated) | one whose statements do not can leave no version active |
| `services` | one property or two of each component, below | each library and service against the calls and failures it races with |
| `capability_container` | `PrimariesMeetRules` | what four of sixteen layers make of the defaults is rejected, or serves nothing undegraded without its dependencies |

`services` checks `ExclusiveUnlessLost` (`Leases`), `TakenNamesAreRefused` (`DomainServices`), `SlotsAreKept`
(`Resilience`), `CallsNeverGoBack` (`CacheAside`), `QuotaOvershoot` (`AIGateway`), `ApprovedPassedInspection` and
`UploadsAreKept` (`Uploads`), `ScopesAreDisjoint` (`TenantScope`), `LimitHoldsUnlessEvicted` (`MemoryLimiter`),
`ApprovalsAreByOthers` (`Section19Changes`) and `StandingFindingsAreShown` (`OperationsCollector`). Types are
proved, not run; the type invariants are in the modules and hold in every run.

**Bounds.** `change_control`: two requests (every race here is between two), one change id (handlers touch one change;
the desired state is shared anyway), two operators (a requestor and an approver), one document besides the empty one,
versions up to 3 (two writes, so two writers can race on the first row and on an existing one), trails of up to five
states (`MaxTrail`; a draft is `APPROVED` in its fifth, where it may be applied, and a request that read it one state
earlier may still overtake the write with a fifth state of its own), and one request that is lost or one row that
strays into an open transaction (`MaxMishaps`, `MaxStrays`), a save or an audit row, which is then committed or rolled
back. The states after `APPROVED` are in the two other runs: `change_sequential` has whole trails, two documents and
two lost requests (one can hit the create and one a transition), `change_lost_update` whole trails and two requests.
`event_delivery`: two events and batches of up to two (a full batch and a partial one), two publishers, two racing
calls of one consumer, two interruptions (a retry that fails again, or one on either side; a COMMIT nobody hears of is
one) and two unasked duplicates.
`inbox_second_consumer` adds the second consumer.

`api_requests`: four requests over two keys of two workspaces, a request limit of two and a quota of three, so that
both limits refuse someone, two requests race on a key while a third comes after its expiry; one expiry per key, one
window that ends, two failures. `jobs`: two runs with one key (one job or two, by queue), two processes with room for
one job each and two attempts, one failure or stop, one unasked delivery, one expiry; a process has a second slot, so
that taking one job too many would show. It runs over three settings: a plain queue with the store and both hooks,
where every job must end; a unique queue with `onRetry` alone; and one without confirms, without store or hooks.

`control_pages`: two operators and two refreshes (each race is of two), two pages of a refresh, one switch besides
maintenance mode, and one failure or audit row in an open transaction. `config_activation`: two activations, a write
of another handler, two versions and one that does not exist, three connections and two failures, so that there are as
many connections as users, a transaction can abort and its connection be lost. In `config_rollback`, with two
connections, the statements stray without any failure; the one failure is what its ROLLBACK does not undo.

`services`: three holders of one lock, so that a late release can meet a third; two calls with names that three
spellings make equal or not; three users of a bulkhead of one, a threshold of two failures and two attempts, with four
calls and one orphan at a time; three calls of the cache over three versions, a threshold of two and two rejections,
so that the breaker opens and a load outlives a change; two calls of the gateway that may both pass the quota, a
retry, a fallback and a new month, with answers that cost nothing, less than the quota and more; two inspections of
one upload with three contents, of which one is refused; two tenants, two workspaces (one of them the tenant's root)
and eight keys, with dots, slashes and what would name another scope; three keys of a limiter that tracks two, over a
window that ends; six requests of two operators, enough to approve and provision a change while another request
rewrites it, with creations of four kinds: as meant, by either operator, of another environment, and approved by its
own requestor; two findings, of different severity and on more than one page, two of whose changes and one failed
source fall into the collection.

`capability_container`: four of the five layers, in production, each of which changes one thing (sixteen of them,
those that the rules and the validation read). That is enough to break a rule twice over; the theorems have no such
bound.

**Fairness** is assumed in `jobs` and `event_delivery`. In `jobs`: a start that saved its row goes on, a call in
flight goes on (the handler is promised to end, as its signal asks it to), the queue delivers while some process
accepts, and a process that has stopped is replaced. In `event_delivery`: a publisher's loop goes on while its process
runs; the orchestrator replaces a process that ended (`docs/reliability/failure-matrix.md`, "Worker down", "Pod/task
down"); the bus delivers what was not acknowledged; a call in flight goes on. All of it is weak. Failures are never
forced, and there are at most `MaxInterruptions` of them: with a bus that refuses for ever no outbox delivers.

`CHECK_DEADLOCK FALSE` appears with `event_delivery`, where polling an empty table is not a step once everything is
delivered; with `api_requests`, `jobs`, `control_pages` and `services`, whose requests, jobs, refreshes and calls are
finitely many and all end; and with `capability_container`, where a document may be rejected. In `config_activation`
and `config_rollback` an activation may also wait for the locks of a transaction whose ROLLBACK ran on another
connection. The changes runs check for deadlock.

## 5. Proofs

**`ChangeControl_proofs`**, for any sets of requests, change ids, operators, proposals and documents and any bounds:
`TypeCorrect`, `TrailsAreLegal`, `RequestorIsNotApprover`, `ApproversMatchTrails`. The stored records alone are not
inductive, since a save writes a record that was built earlier: `IInv` says of every record *in the hands of a
request* what the invariants say of stored ones (`Sound`), and that a request about to use an identifier has one. The
guards establish it when the record is built; the upsert only moves it, and a rollback brings back a record that was
stored before, which `StoredSound` includes. Over `IInv` come three parts for one property each: `VersionInv` (what a
request holds of the versions it read or was told exists, and which audit rows they account for), for
`RepliesAreNotOlder` and `VersionsHaveOneWriter`; `AuditInv` (which state the row of a request in flight, or of a
crashed one, or of one whose row was rolled back, is missing), for `AuditsAccountForTrails`; `ApprovalInv` (an
approval was committed, by another operator, before the write under it), for `AppliedChangesHaveApprovals`. The
refinement has two theorems. `OnlyOvertakenStray` is for any number of requests: every step of the detailed model is a
step of `ChangeLifecycle` or a stutter, unless it is the write of a request that was overtaken, or a save rolled back
with an activation. It needs `ReadInv`, that what a request is about to write is what the lifecycle allows of the row
it read (`current`). With one request slot and no stray (`MaxStrays = 0`) nobody is overtaken, and
`SequentialRequestsAreAtomic` follows, crashes included; its hypothesis, that all requests are equal, is what
`change_lost_update` lacks. The constants are under `ConstantsAssumption`: the null values are not values, and the
bounds are numbers.

**`EventDelivery_proofs`**: `DeliveryTypeCorrect`, `NothingIsMarkedUnsent`, `RowsHaveOneClaim`,
`EventsAreAcceptedOnce` (not run), and, for a single consumer, `SoleConsumerHandles` and the refinement
`DeliveryImplementsLog`: every step is one of `EventLog` or a stutter; without that assumption both are false, as
`inbox_second_consumer` shows. The invariant has a publishers' half (what a transaction holds are unpublished rows of
its own, marking follows sending) and a consumers' half (the handler took effect before a call inserts its row, hence
for the consumer each row names); a step of one side leaves the other side's variables alone, so each half is proved
against half of `Next`.

**`ApiRequests_proofs`**: `RequestTypeCorrect`, `RequestsShareTheAnswer`, `LimitsAreKept`, `KeysCreateOnce` and, for
adapters other than PostgreSQL, `ConflictsAreRaces`. The invariant has three parts: a request at work has seen what is
live under its key, and one that found it taken has seen something; a counter counts at least the requests it let
pass; the creations under a key are at most its expired lives plus the live one, a statement about cardinalities that
each commit and expiry keeps.

**`Jobs_proofs`**: `JobTypeCorrect`, `JobsAreNotLost`, `CompletedJobsTookEffect`, `BuriedJobsWereTried`,
`ActiveCountIsExact`, `RecordedKeysAreSkipped` and the refinement `JobsKeepLedger`, for any sets and bounds, over any
kind of queue and with any hooks. Lemmas say once where a message, a call, a start and an ended job come from in a
step; the invariants then follow without going through the actions again. The type of `active`, a natural number,
itself rests on its exactness. The refinement needs the origin of what a call carries (its job was taken), the effects
behind every recorded key, the errors behind every attempt count, and `NotYet`, that a start has no key before it is
made and no row before it saves one. `CompletedJobsTookEffect` and `BuriedJobsWereTried` follow from the ledger too,
and are not run.

**`ControlPages_proofs`**: `TypeCorrect`, `SettingsStay`, `PagesAreAudited`, `PagesAreFresh`. `Unasked` says of a POST
in flight that over a setting it was not asked to change it is about to write what is there, unless the setting
changed after its read; `CountInv` counts upserts, the statements between, and audit rows wherever they were inserted
(`Rows`: committed, in an open transaction, or rolled back with one), so that the end of a transaction only moves a
row; `SnapshotInv` says what a
page shows once a refresh has written it: its snapshot, a newer one, one that was still being stored, or an
operator's.

**`ConfigActivation_proofs`**: `TypeCorrect`, `OneActiveVersion`, `ActivationsAreAtomic`, `AnswersTookEffect`,
`TransactionsEnd`. `LockInv` (a row another transaction changed is locked by it; two transactions never lock one row)
and the index give the first, wherever statements run. The others hold while no statement has strayed: `OwnInv` then
says that a transaction belongs to the request that opened it, which is still in it, and that what was committed is in
effect. `TransactionsEnd`, that no connection keeps a transaction whose request is over, and `ActivationsAreAtomic`
are proved and not run. `ActivationsAreSteps` goes further: until a statement strays, every step is one of
`AtomicActivation` or a stutter. It needs `PendingInv`: an activation about to commit has made active the version its
request asked for and nothing else, and no request took effect, or has its row, before its time.

**`Services_proofs`** has a theorem for each component's main property over the component's own specification;
`SubjectsAreComponents` carries them to the composition, of which `EveryServiceHolds` states them all, with the types.
The invariants say, for each: who holds a lock and did not lose it (`LeaseInv`); that a call past its lookup had a
free name when it began (`DomainInv`); that the waiters of a bulkhead are the calls that wait, each once
(`ResilienceInv`); that the calls past the quota check bound the charges to come (`GatewayInv`); that bytes past
their inspection passed it (`UploadInv`); whose name it is (`ScopeInv`, from lemmas about sequences joined and their
parts, and about paths resolved); that a key's window has the count of what passed in it, unless it was dropped
(`LimiterInv`, over `KeptFits`: cleaning leaves room); that the numbers collected count at least the findings that
stood (`CollectorInv`, over `Counts`); that the one load in flight has read nothing older than the cache has held
(`CacheInv`); that a record past approval has the approver that a transition or a creation's body gave it, stored, held
or in a request's hands, and that all of them agree on the requestor while nothing was rolled back (`Section19Inv`).
`ScopesStayApart` covers storage that keeps names as they are and the filesystem, which resolves them; of the latter
it excludes ids that are empty, "." or "..", which the ports take as they are and with which it is false.
`AnswersAreKept` (a call that returned left its row and its job) is proved and not run.

**`CapabilityContainer_proofs`**: `ValidationCoversDependencies` (a valid document breaks no dependency rule), and
from it `PrimariesHaveDependencies` and `EnginesAgree`, for any defaults, layers and environment. The library never
asks the dependency engine when it validates (`validate-all.ts:6`); the theorem is why it need not.
`ResolvedProvidersAreSupported` (what is resolved, the fallback too, is a provider of the capability that has a
factory) is proved and not run. `ContainerTypeCorrect` rests on `MergedIsDocument`: a layer whose fields have their
types (`IsPatch`, which `types.ts` says of layers) makes a document of a document.

**Only model-checked.** Liveness (`EveryEventIsHandled`, `EveryJobEnds`) and whatever rests on `ENABLED`: every
invariant and every action property of a run that passes is stated by a theorem. Where a proof needs an induction, the
least counterexample of a set of numbers serves (`LeastIsThere`), since the library's induction rules cannot be
instantiated. `ImplementsLifecycle` with several requests is false, and so are the properties of the three runs that
expect a violation.

## 6. Findings

* **Lost updates of changes** (`change_lost_update`). The transition handler reads, checks and saves the whole record
  in separate statements; the upsert compares nothing. Of two transitions in flight the later save wins: a change can
  leave `COMPLETED`, and the surviving trail, legal in itself, hides the other.
* **One inbox row for all consumers** (`inbox_second_consumer`). The lookup and the primary key ignore
  `consumer_name`.
* **Transactions without a connection** (`config_rollback`). `BEGIN`, two `UPDATE`s and `COMMIT` or `ROLLBACK` are
  each a call of `pool.query`. When another statement takes the connection in between, the first `UPDATE` is committed
  at once and `ROLLBACK` undoes nothing. `tests/architecture/validate_section19.py:21` looks for the words `BEGIN` and
  `ROLLBACK`. Two active versions are never possible: `AtMostOneActive` rests on the index alone.

What the models show of the code, and no document contradicts:

* **Kill switches** (allowed by `SettingsStayUnlessRaced`). Of two POST `/emergency` in flight, the later write undoes
  the switch of the earlier, whose operator was told it is set.
* **Expired keys over PostgreSQL.** `PostgresIdempotencyAdapter` never removes an expired row, so its key is refused
  for ever; `ConflictMeansRace` fails with `Backend = "postgres"`, and `apps/api/src/server.ts:32` requires Redis in
  production.
* **Handlers run twice.** The inbox is read without a lock and written after the handler, so a duplicate in flight
  runs it again; that one call reports it as new is what remains true (`ImplementsEventLog`).
* **Runs that started without a job** (allowed by `MayIgnore`). With BullMQ or SQS FIFO a second run with a key in use
  is saved and answered, and gets no job; over RabbitMQ any run may, since `enqueue` returns after `sendToQueue` on a
  channel without publisher confirms. A retry that such a queue does not take ends its job (`dropped`), and so does a
  runner without `onRetry` or `onDeadLetter`, which answers `RETRYING` or `DEAD_LETTERED` and enqueues nothing.
* **Audit rows rolled back** (allowed by `AuditAccountsForTrail` and `WritesAreAudited`). On the pool shared with
  Section 19 an insert may run in the open transaction of an activation: its request is answered, and a `ROLLBACK` of
  another takes the row away. The same holds for a save of a change (`RollBackRow`).
* **AI quota.** Only the output tokens of an answer are limited, and its input tokens are charged too: once the quota is
  reached no new call passes, but what the calls under way still cost has no bound.
* **Uploads.** A crash between the delete and the enqueue leaves an approved object that no job names, and a retry
  then fails with `OBJECT_NOT_FOUND`. With two inspections and a second put between them, the job's `sha256` may name
  other bytes than the approved object has.
* **Resilience.** Attempts that timed out keep running outside the bulkhead's bound, and a late success of a call that
  began earlier closes an open circuit.
* **`cacheAside`** finds a flight by its key alone: a call with another cache or loader and the same key is given the
  first one's value.
* **Section 19.** The body of a creation is spread over the defaults (`routes.ts:31`, `service.ts:20`): it may store a
  change as approved, name its requestor and its approver, or write over an existing change. `ApprovalsAreByOthers`
  says what remains: approvals by transition. No transition route asks for `FAILED`, so the rollback route succeeds
  only for a change that such a body stored as `FAILED`.
* **Operations.** GuardDuty's severities are never counted, and a CloudTrail that cannot be read, like a source that
  is not configured, leaves the posture `HEALTHY`.
* **Fallbacks** are asked neither for their health nor for their dependencies: a lock may fall back to Redis where
  Redis is not active.
* **Rate limits in one process.** Past the bound on tracked keys a key whose window was dropped starts a new one, and
  may pass its limit.
* **Tenant names** are apart because ids are single segments and no workspace is called `_root` (over a filesystem,
  also because no id is "." or ".."); the filesystem adapter's resolution of `..` stays inside its scope only because
  the scoped port checks keys first.

## 7. Not modelled

* Operator authentication, which keeps no state (a request's operator is free in the models); the health routes, and
  routes that only read, such as `GET /overview`, whose ten reads show whatever each page holds at the time.
* User interfaces, infrastructure as code and deployment: no program logic of the kind modelled here. The Step
  Functions definition names Lambda functions that are not in the repository.
* The clients of external services (event buses, queues, storage, search, secrets): one call each; the models that use
  them say what the call does.
* Desired-state writes and upserts of pages in an open transaction of an activation, which could be rolled back with it
  (the properties of `ChangeControl` and `ControlPages` about versions, documents and settings presume that they
  commit); an event that the bus always refuses, which holds up every younger one.
* The migrator, which a deployment runs alone, and `transaction`, a wrapper of SQL.
* The actual state (one upsert), the metadata check of the secrets page and the identity checks (filters of an input),
  the session registry (a map of one call each), the null fallbacks, and the shutdown hooks, which run one after
  another at the end of a process.
* Of the validation: flags other than `rag` and `logging`, limits, kill switches and the static workflow table. A
  cache `set` that takes effect after it was reported as failed.
* Wording of messages, headers, logging, timestamps and JSON encoding. `PROJECT.json` names every component with its
  status.

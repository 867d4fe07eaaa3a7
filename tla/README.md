# Verification of the NestJS backend foundation starter

TLA+ models of the starter's state-keeping parts, the TLC runs that check them
on small instances, and TLAPS proofs of their invariants for every instance.
Paths below are relative to the repository root. `PROJECT.json` ties every
definition to the lines it models and every property to a run and a mutant.

## The system

Four processes share PostgreSQL and Redis: the HTTP API, the worker (BullMQ
consumers), the cron leader and the migration runner.

| Part | State | Operations | Correct when |
|---|---|---|---|
| Transactional outbox (`libs/infrastructure/src/outbox`) | `outbox_events` rows; per call a batch, an ownership flag, timers | append in the use case's transaction; `processPending()`: claim, heartbeat, publish, mark | an appended event is settled once; processed only if handled; given up exactly at its budget; eventually settled |
| Domain event router and handlers (`.../events`) | none | `route()`, `handle()` enqueues a job | all handlers of an event ran before it counts as published |
| HTTP idempotency (`.../idempotency/idempotency.service.ts`) | lock, fence and result key of one scope and key | `execute()`: look, fence, lock or wait, run, store, clean up | one execution per key; replies belong to the payload; no key is blocked for nothing |
| Email worker and job store (`apps/worker`, `.../redis-job-execution.store.ts`) | one key per email: a token, `completed` or `sent-ambiguous` | acquire, extend, complete, release, mark ambiguous | no second mail behind a marker, a marker means a mail |
| Queue gateway (`.../bullmq`) | BullMQ jobs (external) | add with job id, attempts, removal | repeated adds collapse, jobs end |
| Distributed lock (`.../locks`) | a lease key | `runWithLock()` with heartbeat | one holder, while it renews in time; a late release leaves the next holder's lock alone |
| Cron schedule (`apps/cron`) | `tickRunning`, `shuttingDown` | tick: lock, enqueue the fixed job | the outbox job keeps coming |
| Accounts (`libs/application`, `libs/domain`, user repository) | `users` rows with unique email and Google subject | register, login, Google sign-in and link, change, forgot and reset password | a session that is accepted belongs to the current password; a user and its event appear together |
| Cookie sessions (`.../auth/redis-session-store.service.ts`) | sessions, user index | create, get, delete, list, revoke one, others, all | every live session is indexed, a revocation finds all |
| JWT tokens (`.../auth/jwt-auth-token.service.ts`, `redis-jwt-token-store.service.ts`) | tokens, families, user index, denied access tokens | save, rotate, revoke family, revoke all, deny, verify | a refresh token is used once, a reuse ends its family, superseded tokens are refused |
| One-time tokens | reset tokens and the pointer to a user's last; OAuth states | save, consume | consumed once |
| Configuration (`.../config`) | none after start-up | parse, cross-field rules, options, drivers | a process that serves has leases with room and no half-wired driver |
| Controllers, guards, Google flow, filter (`apps/api`) | none of their own | guard, limit, validate, handle, map errors | every request ends in a status its route documents |
| Rate limiter (`.../rate-limit`, `RedisService.incrementWithTtl`) | a counter per prefix and address | count with expiry | a window lets its limit through, and ends |
| Health | none | probes with timeouts | 503 when a dependency is down |
| Cache, migrations, storage, mail adapters, logging, audit, OpenAPI | see "Not modelled" | | |

How they interact. The API authenticates and limits a request, then runs one use
case. A use case that creates a user appends an event in its database
transaction; the cron leader enqueues the outbox job; a worker claims rows and
routes each event to its handlers; the welcome handler enqueues an email job
with a fixed job id and an idempotency key; the email processor sends behind
that key. A password change bumps `users.auth_version` and revokes the sessions
or token families of the user; the guard compares that version with the one in
the session or token.

What is hard: every one of these steps is separated from the next by an await,
leases expire while their holders live, timers are late, processes die between
two commands, commands are applied while their answer is lost, rows are written
back whole from what was read earlier, and BullMQ restarts jobs on its own. The
`hazards` of `PROJECT.json` list where each of these bites. Some of them the
code simply has: an entry without a property says which exemption names it, or why
nothing is claimed.

## Plan

Done: 1. the outbox and its contract; 2. HTTP idempotency; 3. the email worker,
its invariants proved; 4. lock and cron tick with the fixed job id; 5. accounts,
reset tokens and cookie sessions; 6. JWT token families with their contract;
7. configuration, routes, guards, rate limiter, Google flow and filter of the
API; 8. the timing theorem behind the outbox lease.

Left: `Delivery`, the outbox, a router with several handlers and the email key
composed under one abstract specification (an event's mail is sent at least
once). Each part is modelled; today one handler is registered for one event, so
the composition adds only what `EmailDelivery.Enqueue`, which may come again,
already allows. The JWT and the session driver are two modules; a deployment
uses one of them.

## Modules

### OutboxContract, OutboxProcessor

`OutboxProcessor` models the table (`row`) and any number of concurrent
`processPending()` calls (`worker`; one per BullMQ slot or process). A call's
`pc` is where it awaits: `claiming` inside the claim's transaction, `publishing`
inside the router, `marking` and `failing` at the two marks. `todo` is the rest
of its batch, `seen` the attempts its claim read, `token` its worker id, `lost`
`ownershipLost`, `inFlight` `heartbeatInProgress`.

- The claim is two actions, its `SELECT ... FOR UPDATE SKIP LOCKED` and the
  commit of its `UPDATE`; rows in between are locked, other statements on them
  wait, other claims skip them. `now` is taken at the select. The heartbeat is a
  firing interval and a statement that settles later with the stamp it read when
  it fired.
- `delivered` is a history variable, `faults` bounds crashes and errors. A
  statement that rejects may or may not have been applied.
- Time is relative: rows hold the age of `locked_at` and the rest of their
  delay, so no clock grows; ages beyond the lease are one value, `Stale`.
  `Timely` says whether timers fire when due and statements take at most
  `MaxLag`; with `Timely = FALSE` anything may be arbitrarily late.
- The event order is `created_at`; an event is appended when its transaction
  commits. Audit and logs are left out: they are caught and change nothing.

`OutboxContract` is what producers may rely on, without leases, workers or time.
The refinement maps pending and processing to `open` and attempts to counted
failures.

### OnceContract, Idempotency

One scope and key, the requests in `Req`. `lock`, `fence` and `result` are the
Redis keys (the lock holds a request, standing for its random token), and `req`
is the position and locals of each `execute()`. One action per Redis command or
script. `Unlock` and `Unfence` are the two commands of the `finally` block. The
result and the fence live for hours and are not let expire; the lock expires at
any time, which is counted as a fault while its holder still renews it.

`OnceContract` is what a caller may rely on, without lock, fence or waiting: the
key is a register for a response. A call whose handler took effect may store its
own response, and a call is answered with what the register holds at that moment,
if that is for its payload. `calm` says that nothing has failed: then one handler
takes effect, the register is written once and an answer stands. The refinement
shows the handler's effect as `executed`, the result key's request as `stored` and
`faults = 0` as `calm`.

### EmailDelivery

One keyed job and the slots that run it. `Start`, `StalledCheck` and `Settle`
are BullMQ (external): a waiting job goes to a free slot, a job whose worker is
silent goes back once (`maxStalledCount`), and a run that no longer has the job
cannot settle it. The rest is `EmailProcessor.process()` and the store. The mail
server accepts, refuses, or accepts with its answer lost. The markers' retention
(30 days) is not let run out, and a job without an idempotency key has nothing to
model.

### CronLock

`RedisDistributedLock.runWithLock()`, the tick of `OutboxSchedule` and the one
BullMQ job with id `outbox-process-pending`. A tick is `acquiring`, `acquired`
(the key is set, its answer under way), `adding` (in the handler, heartbeat
running) and `releasing`. Commands are executed at one instant; the answers that
matter (to the acquire and to an extend) come up to `MaxLag` later. `lost` is the flag
of the same name; `Orphan` is the token of a process that is gone. Time is
relative: the lock holds its remaining life, a tick its next heartbeat. The job
is absent, waiting or active; an `add` under an id that is present does nothing.

### Sessions, Accounts

`Sessions` holds the Redis commands of the session store and of the management
service, `Accounts` the use cases over the `users` table; `Accounts` extends
`Sessions`, because issuing and revoking sessions is part of its use cases. Each
SQL statement and each Redis command is one action, so any two requests
interleave between any two of them.

- A transaction's writes stay in `pending` until `Commit`; a write that collides
  with a row another transaction has not committed yet waits for its outcome, one
  that collides with the table is refused.
- `update()` of the repository writes back the whole row read earlier: `call[c].user`
  is that row, `UpdateUser` writes it as it is.
- A request creates at most one user, session and token; they bear its name.
  `Old` is an account with a session and an event that was there before.
- History: `redeemed` counts password changes by a reset token, `overwritten`
  has the accounts whose newer row was overwritten by an older one, `lapsed` the
  sessions whose index ran out between its `SADD` and its `EXPIRE`, `owed` what
  a revocation must find, `password` of a session what the row held when read.
- A session or a reset token that expires counts as a fault; an index may expire
  once every session its TTL was set for is gone. Reading a record and removing
  or pruning it is one action where only this removal can follow: an id that is
  gone is never used again.

### FamilyContract, RefreshTokens

`RefreshTokens` is the JWT driver for one user: one action per Lua script or
plain command of the token store, and the positions of login, refresh, logout,
password change and access verification between them. `record`, `family`,
`index` and `denied` are the four kinds of keys; `claims` is what a pair was
signed with, `Known` the tokens a client has been answered. A family's two keys
share one TTL and expire together; the index TTL is only ever extended and so
outlasts them. History: `settled` is the last version whose revoke-all is
through, `orphaned` the families an index was deleted under, `stale` whether a
version was overwritten by one computed from an older, `exchanged` the rotations
won with each token.

`FamilyContract` is what a holder of tokens relies on: a family's tokens come one
from the other, and a family that has ended stays ended. The refinement shows a
family's current token as `live` only while both its keys are there.

### Configuration, Endpoints, Api

`Configuration` is `env.schema.ts` and the option and driver factories: an
environment is a partial function from the variables to values, numbers where the
schema coerces to one (`Empty` stands for the empty text), `Issues` what validation reports (cross-field
rules only once every field parsed, as zod does), `Config` the options of the
modules that are modelled, `Wiring` which implementations the composition roots
choose. `Endpoints` is the route table, with guards, limits and documented
statuses as the decorators have them, the outcomes of each handler under the
wired drivers, and the exception filter. `Api` is the process: it validates,
probes Redis, wires or exits, then takes concurrent requests through Express,
guard, limiter, pipe, handler and filter; the Google flow is modelled command by
command. `Screen` is Express: CORS answers an origin that is not configured with a
plain `Error`, and the body parser may fail. The parser is external: its syntax
errors reach the filter as 400, which Nest's mapping of `SyntaxError` gives them,
and what it does not read at all (too large, an unknown encoding) as an error the
filter does not know. A body can come with any route, health checks included.
`valid` is what the `ValidationPipe` finds of body, query and parameter, the
queries of the two Google routes among them; the callback clears its state cookie
only after that. Redis (`counter`, `stored`) outlives the process. The handlers' own
steps are those of `Accounts`, `Sessions` and `RefreshTokens`; here a handler
ends in one of its outcomes, or in a failing dependency.

## Runs

| Run | Instance | Result |
|---|---|---|
| `OutboxSafety` | 2 calls, 2 events, batch 2, 2 attempts, lease 1, 3 worker ids, arbitrary delays, 1 fault | 1.2 million states, no error |
| `OutboxLease` | 3 calls, 2 events, batch 1, lease 4, heartbeat 2, lag 1, handler timeouts | no event in two handlers |
| `OutboxLiveness` | 2 calls, 2 events, batch 2, 1 fault, timely timers (`Timely`, no lag), fair | every event is settled |
| `OutboxBatchLease` | as `OutboxLease` with 2 calls and batch 2 | **violated**: see below |
| `Idempotency` | 3 requests, one of another payload, 1 fault, fair | 32 thousand states, no error; implements `OnceContract` |
| `IdempotencyUnfenced` | 2 requests, no fault | **violated**: see below |
| `EmailDelivery` | 2 slots, 2 attempts, 1 stall, 2 enqueues, 2 faults, fair | no error |
| `EmailLost` | as above with 1 enqueue and 1 fault | **violated**: see below |
| `CronLock` | 2 leaders, lock of 4 s, lag 1, 2 attempts, 2 faults, fair | 38 thousand states, no error |
| `Accounts` | 3 requests, 2 at a time, 2 emails, 1 Google subject, 2 passwords, 1 fault | 606 thousand states, no error |
| `RefreshTokens` | 4 requests, 2 at a time, 1 fault | 458 thousand states, no error |
| `Api` | 69 deployments, 2 requests at a time, 4 in all, 2 OAuth states, 1 fault | 721 thousand states, no error |

Why the bounds suffice for what they show.

- Outbox: two calls are needed for a steal, a third lets a row be stolen while an
  earlier owner's statement is still out; two events are the least for a batch
  with a row that waits; two attempts give a retry and an exhaustion. Three worker
  ids let a call begin again while rows still carry older ids. A lease of 1 makes
  steals common in `OutboxSafety`; `OutboxLease` needs the true proportion
  (heartbeat at most half of the lease, as the environment schema enforces).
- One fault is a crash, an error, or a live lock or key that expires;
  `EmailDelivery` has two, for a stall and a lost lease together, and `CronLock`
  two, for a crash that leaves the key and a failed job.
- `MaxActive` bounds the requests under way together in `Accounts` and
  `RefreshTokens`; one more request than that comes after them and sees what they
  left (in `RefreshTokens` two more: a login to make a second family and a
  refresh of what is left). Two emails and one subject give both unique-index races.
- `MaxSent` bounds the requests of one behaviour of `Api`. Four requests exceed
  limits of 1 (the options') and 3 (two decorators'); the decorators' limits of 5,
  10 and 30 are not reached, and differ from these by their numbers alone. `Traffics` gives the clients one
  route at a time, and the two revocation routes that share a counter together.
  Requests come from one address. `State` bounds the states issued.

Symmetry is used only in runs without liveness. Deadlock is checked where the
system never stops or stops in states named by `Terminating`: the outbox, email,
idempotency and cron runs. `Accounts`, `RefreshTokens` and `Api` say
`CHECK_DEADLOCK FALSE`: each request is made once (or `MaxSent` are used up), and
then nothing is left to do.

### What the violated runs show

- `OutboxBatchLease`: README.md line 1253 says the heartbeat prevents duplicate
  reclaim. It renews only the row being published. A batch's later rows age from
  the claim on; if one handler takes the whole lease, a second call reclaims and
  publishes the next row, and the first call, which does not look at the lease
  before it starts, publishes it too.
- `IdempotencyUnfenced`: a failed call releases the lock and then deletes the
  fence unconditionally. A request that took the lock between the two runs
  without the fence README.md line 1457 promises.
- `EmailLost`: README.md line 1563 calls the failure model at-least-once. A run
  lost after `acquire()` leaves the key leased longer than BullMQ waits; the next
  run finds it taken, returns, and the job is completed with no mail sent.

### Properties worth a word

- `OwnedSnapshotIsFresh`: `markFailed()` writes an absolute `attempts` computed
  from the claim's row. That loses no count only because whoever may still write
  holds a current snapshot, which depends on the row locks of the claim and the
  uniqueness of worker ids together.
- `ContractSpec` of `Idempotency` goes beyond `AnswersWereExecuted` and
  `ExecutedOnce`: an answer is the response that was stored when it was given, a
  waiter's and a late caller's as much as the holder's, and with nothing failed no
  answer is ever taken back. Its mutant answers a late finisher with its own response
  where the script found another one stored.
- `FailedExactlyWhenExhausted` relates the claim's filter to the threshold of the
  mark: a mismatch leaves rows open that nothing selects.
- `ExecutedOnce`, `NothingLeftBehind` and `SentOnce` hold while nothing fails; with
  faults the code promises less, and the violated runs show how much less.
- `AnswersWereExecuted`, `MarkersMeanSent`, `MarkersStick` hold under all faults.
- `HandlersExclude` says that two cron handlers overlap only if one of them has
  been told it may have lost the lock. It does not say that one leader enqueues
  per interval, as README.md line 1248 puts it: the lock is released as soon as
  the job is enqueued, a second leader may take it in the same interval, and it
  is the fixed job id that collapses the two.
- `AcceptedMeansCurrent` holds because the guard compares `authVersion`, not
  because a revocation finds every session. It exempts the accounts in
  `overwritten`: a Google link, a change and a reset that ran together write rows
  read before each other, and the last one brings back an older password or
  version. `stale` is the same exemption in `RefreshTokens`.
- `SessionsIndexed` exempts `lapsed` sessions, `FamiliesIndexed` and
  `NoStaleExchange` families in `orphaned` (saved while a revoke-all listed the
  index and before it deleted it). A refresh that compared the version before the
  change can still rotate such a family after it; from then on the family fails
  on its version, as README.md line 2289 says of families that are in no index.
- `EventsMatchUsers` is about a user and its event; that emails are unique is the
  index's, which `Duplicate` and `Undecided` stand for.
- `ResetTokenOnce` says each token is redeemed at most once. Two requests for a
  reset that run together leave two tokens alive, which the code allows.
- `ResponsesDocumented` names its exceptions. Two are statuses no decorator
  documents: the Google callback answers 409 when it loses a race with a
  registration, and a body that is no JSON is a 400 on the routes that take no
  input (`auth/me`, health). Four are a 500 with nothing failing: CORS refuses an
  origin with an `Error` the filter does not know (`main.ts:91`); so does the body
  parser a body it does not read; a lost race of two links of one subject
  (`DuplicateRecordError` is not mapped there); and a rate-limit window of a
  fraction of a second, accepted by the schema but refused by `EXPIRE` after
  `INCR` has counted. The two of Express come before any guard or limit.
- `LeasesLeaveRoom` leaves out cron locks below two seconds: the heartbeat has a
  floor of one second and the schema accepts a lock from one second on.

## Fairness

- `OutboxProcessor`: weak fairness of claiming (cron keeps enqueueing), of each
  statement (the database answers), of the handler (the code awaits it for ever,
  so nothing can be said about one that never settles), of the timers and of
  time. None of appends, handler timeouts or faults.
- `Idempotency`: weak fairness of each request's steps; strong fairness of the
  wait's deadline, which is enabled again and again as the loop returns to its
  head while the wall clock runs.
- `EmailDelivery`: weak fairness of BullMQ's pickup and stalled check and of each
  slot's steps. None of the expiry of leases and of enqueues.
- `CronLock`: weak fairness of BullMQ running and completing a job, of each
  leader's interval and commands, of its heartbeat, of its restart by the
  supervisor, and of time. None of failing jobs, crashes and rejected commands,
  which the fault bound ends.
- `Accounts`, `RefreshTokens` and `Api` state safety only.

## Proofs

Each proof module strengthens the properties to an inductive invariant; each
action has a lemma that it preserves it, and the theorems of `PROJECT.json`
combine them. The constants are arbitrary up to the named assumptions of the
modules: bounds are natural numbers, attempts and leases positive, `None`, `Old`
and `Orphan` are none of the requests, processes or rows.

`OutboxProcessor_proofs` proves, for any number of events and calls, any batch
size, attempts, lease, heartbeat, delay and number of faults: type correctness,
that worker ids are unique (`TokensDistinct`), `OwnedSnapshotIsFresh`, `FailedExactlyWhenExhausted`,
`ProcessedWasDelivered`, and that the module implements `OutboxContract`. The
assumptions are `SizesAssumption` and `ChoicesAssumption`. None of the
properties is inductive alone; `IInv` adds what a call knows at each `pc`:
`ClaimsFresh` (between the two halves of a claim its rows are still open and have
the attempts it read, which is what the row locks buy, and no row carries its
worker id yet), `WorkerShape` (the current event is one of the batch, a running
call has a worker id), `TodoAppended` and `MarkingDelivered` (a call at the mark
has delivered its event). The refinement theorem maps each action to a contract step or a
stutter under `IInv`.

`OutboxLease_proofs` proves the timing argument: `LeaseSuffices` states that under
`Roomy` (one event per batch, no faults, timers and statements that keep their
time, and `HeartbeatInterval + 2 * MaxLag <= LockTtl`) no event is in two handlers.
The schema keeps the heartbeat at most half of the lease, so `Roomy` asks that
delays are at most a quarter of it. The batch of one is necessary, as
`OutboxBatchLease` shows. The invariant bounds the age of a row in work by what
is left until its next stamp, and says that a claim locks one event of its own.

`Idempotency_proofs` proves type correctness, `AnswersWereExecuted`,
`ExecutedOnce` and `NothingLeftBehind` for any set of requests and payloads. The
invariant for `ExecutedOnce` says that while nothing has failed, whoever is past
the recheck holds the lock, and an executed handler is either that holder's or has
left its result; the one for `NothingLeftBehind` follows who still has to delete
the lock and the fence. Three theorems more:

- `KeepsContract`, the refinement of `OnceContract`, under any crashes, errors and
  lost locks. A call is answered where it stores or reads the result, not where
  `execute()` returns, and a fault in the `finally` block may withdraw its answer.
  `Pending` strengthens the invariant: a call's handler has taken no effect before
  it is done running, and the call has no answer until only the clean-up is left.
  Each group of actions has a lemma that gives its abstract step or stutter.
- `AnswersAgree`: while nothing fails, all requests answered with a value have the
  same one.
- `FencedUnlessHandlerFails`: `HandlerRunsFenced`, which `IdempotencyUnfenced`
  refutes, holds while nothing fails and no handler throws. So without
  faults a handler runs unfenced only where another call's handler threw, as in
  the counterexample.

`EmailDelivery_proofs` proves type correctness, `MarkersMeanSent`, `SentOnce` and
`MarkersStick` for any number of slots, tokens, attempts, stalls and enqueues. Its
`SentUnlessFaults` states when the property `EmailLost` refutes does hold: as long
as nothing failed, a completed job has sent its mail; a run that then finds the key
taken finds a marker, because no earlier run left its token behind, and markers mean
mail.

`CronLock_proofs` proves type correctness, `HandlersExclude` and
`OnlyHolderLetsGo` for any number of leaders and any ttl and lag that satisfy
`TimingAssumption` (a heartbeat falls due, is executed and is answered within the
ttl); the invariant says that a handler that was told nothing holds the lock with
time for its next renewal.

`Accounts_proofs` proves all six properties of the `Accounts` run for any set of
requests, emails, subjects and passwords. Its invariant states what the tables
and keys say of each other (`StoreInv`: what names a user names one that is
there, a session's version and password were read together) and what each
request has in its hands at each position (`Own`). `RefreshTokens_proofs` proves
all eight properties of its run, the refinement of `FamilyContract` included; its
invariant says that a pair's record, its family's key and the index change
together in each script.

Both modules have an `InTurn` theorem about the exemptions their properties make:
with `MaxActive = 1` (one request under way at a time, each free to fail anywhere)
`overwritten` stays empty, and so do `orphaned` and `~stale`. The exempted states
are races, and no sequence of requests reaches one. The invariant (`Turns`) says
that what the one busy request read is still so when it writes.

`Api_proofs` proves all four properties of the `Api` run for any deployments, any
number of requests, states, failures and probe attempts. `EnvironmentAssumption`
says that a variable the schema coerces to a number is one; whether it is in its
range, or there at all, is open. The invariant has four parts.

- `IInv` types the process, its configuration and the requests, and says that a
  record read by a callback is deleted by one only and that every origin a
  browser is sent to was checked or configured (`StateSpentOnce`).
- `Validated`: a process that probes or serves has an environment without issues,
  and the wiring its options choose. From this and the schema's cross-field rules
  `LeasesLeaveRoom` follows by arithmetic on the environment; the delays
  of `RetryDelaySeconds` are compared for attempts 1 to 7, one by one, since the
  provers know no exponentiation.
- `Windows`: a counter has counted at least what it let through, and what it let
  through is within the limit of every route that shares it. It does not mention the
  process, because the counters outlive it; `WindowHolds` follows.
- `Progress`: what a request can have become at each position, given its route's
  record. The proof of `ResponsesDocumented` has one lemma per route that reads its
  record and one per way to an answer.

Only model-checked: the liveness properties `AllSettled`, `EveryCallEnds`,
`JobEnds` and `OutboxKeepsRunning`, out of the prover's reach as all liveness under
fairness is. Of the violated properties the theorems `LeaseSuffices`,
`FencedUnlessHandlerFails` and `SentUnlessFaults` say under which conditions they
hold. The modules declare no recursive operator, and no theorem needs induction
over data, which is out of reach too.

## Not modelled

- Storage and the mail adapters with their templates: I/O and formatting. The
  send of `EmailDelivery` is accepted, refused or unanswered.
- The cache gateway: no module of the repository calls it.
- Migrations: one PostgreSQL advisory lock around drizzle's migrator.
- Logging, audit and OpenAPI: reporting; audit errors are caught.
- The synchronous `forRoot()` variants of modules (the applications use
  the asynchronous ones), the roles guard and the idempotent decorator, which no route
  uses (`Idempotency` models the service behind the latter), and the loading of
  `.env` files.
- CORS preflights and response headers, security headers, the cookie parser, the
  API documentation's pages and paths without a route: none reaches a handler or
  touches state.
- A fan-out of the event router to several handlers: one is registered.
- Token signatures, expiry claims and password hashes are not computed: a token
  is what it claims, a password is compared as a value.
- The retention of results, fences and markers, which is hours to weeks, is not
  let run out.

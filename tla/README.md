# A TLA+ model of FastAPI-Fish

FastAPI-Fish is a backend template: accounts with two roles, access tokens (JWT)
and rotating refresh tokens stored as hashes, PostgreSQL behind SQLAlchemy, one
unit of work per service call.  This directory models the part of it in which
requests can disturb each other (the services, the transactions they run in and
the tokens they exchange), what it promises its clients in the abstract, the
connection pool below it and the browsers above it, the paging of the list of
accounts, the start-up of several containers on one database, and the
propagation of trace ids.  It is checked with TLC, and its most important safety
properties are proved with TLAPS.

Paths below are relative to `src/src/app/` unless they say otherwise.

## 1. Inventory

| Component | Code | State it keeps | Operations |
|---|---|---|---|
| AuthService | `services/auth_service.py` | none of its own: accounts and refresh tokens in the database | `register`, `login_user`, `refresh_tokens`, `logout`, `verify_access_token` |
| UserService | `services/user_service.py` | the same | `create_user`, `update_user`, `deactivate_by_id`; reads `get_all_users`, `get_by_id` |
| JWTService | `services/jwt_service.py`, `core/utils/time_helper.py` | the key and two lifetimes; reads the clock | mint and decode tokens, hash tokens and passwords |
| Persistence | `infrastructure/models`, `/repositories`, `/unit_of_work`, `alembic/versions` | tables `users`, `refresh_tokens`; one transaction per request | `get_by_*`, `add`, `update`, `deactivate`, `delete_*`, commit, rollback |
| HTTP API | `api/v1/endpoints`, `/dependencies`, `/exceptions` | none | 4 + 7 endpoints, authentication, role checks, error mapping |
| Start-up | `main.py`, `actions/first_admin.py`, `actions/run.py`, `src/src/entrypoint.sh`, `src/src/alembic/env.py`, `src/docker-compose.yml` | the tables and the bootstrap administrator | wait for the database, migrate, create the administrator, restart |
| Pool and probes | `infrastructure/database/db_helper.py`, `api/endpoints/health.py` | 50 + 10 connections | take and return a connection, readiness |
| Listing | `core/utils/paginated.py`, `repositories/user_repository.py:31-62` | none: the walk is the client's | filter, count, page |
| Trace ids, error bodies | `core/middleware/trace_id.py`, `api/v1/exceptions/*`, `core/utils/loc2field.py` | a context variable | tag responses, render errors |
| Refresh cookie | `api/v1/utils/cookies.py` | the browser's cookie jar | set, delete |
| Settings, logging, metrics, scripts | `core/settings.py`, `core/logger.py`, `api/endpoints/metrics.py`, `src/actions` | configuration | none that the API's behaviour depends on |

**How they interact.**  An endpoint gets an `AsyncSession` from the pool, and
`get_current_user` and the service share it.  A request with a bearer token runs
two transactions one after the other: `verify_access_token` opens and ends a
unit of work of its own, then the service opens the second.  What the first
returned (`acting_user`) is used in the second and not read again.  All
communication between requests goes through the two tables; between requests
and PostgreSQL, through row locks.

**What is hard.**  The process is one event loop, so Python code between two
awaits is atomic, but every database statement is an await: requests interleave
at each statement (and, with replicas of the process, still only there as far as
shared state goes).  PostgreSQL runs at READ COMMITTED, so a row read by one
statement may be different in the next.  Statements fail, acknowledgements of
COMMIT are lost, the process dies.  Time passes between reading a token and
using it.

**What makes each component correct.**

- Accounts: one account per address; an administrator is made by an
  administrator; a deactivated account is locked out.
- Sessions: a used refresh token never comes back; a session ends only by a
  request entitled to end it; a deactivation ends the sessions that were there.
- Persistence: all of a request's writes or none; no deadlock.
- Tokens: the signed token and the stored row agree on the account, and the
  token never outlives the row.
- API: each accepted request is answered, or ends with the process.
- Start-up: one bootstrap administrator; nobody is served before it exists;
  every container serves in the end.
- Trace ids: the id a client reports is the id of its own request.
- Pool and probes: every connection comes back; nobody waits for a connection
  with another one, or a row somebody needs, in hand; readiness tells the truth.
- Listing: nothing that was not asked for; nothing skipped that stayed in place.
- Cookie: a browser is left with a dead cookie only for a reason it can know.

## 2. Modules

```
JWTService   clock, tokens, decode                       Integers
  Store      tables, transactions, locks, repositories
    Requests handler state, unit of work, faults
      AuthService   statements of the auth service
        UserService statements of the user service
          Api       endpoints, Init, Next, Spec, Fairness, FairSpec
            ApiSafety     properties
              ApiHistory    history variables: requests in sequence, deactivations
              ApiInvariant  inductive invariants
                ApiProofs, SafetyProofs   theorems, the second on the first
                  RefinementProofs   with ApiRefinement
                    ClientProofs     with ApiHistory and Browser
                    PoolProofs       with Pool
              ApiRefinement the core implements Service
                MCApi, MCHistory   instances for TLC
              Pool          the core on a connection pool, and the probe
                MCPool
              Browser       the core behind cookie jars
                MCBrowser

Service      the abstract specification: accounts and sessions, atomic requests

Listing      filter, order, pages and totals over a changing table
  MCListing
  ListingProofs  theorems

Startup      containers, the migration, the bootstrap administrator
  StartupProofs  theorems
TraceId      the middleware and its context variable
  TraceProofs    theorem
```

### State of the core

| Variable | Code |
|---|---|
| `now` | `TimeHelper.now_utc()`, in ticks; `Second` ticks make a second |
| `users`, `tokens` | the committed rows of the two tables |
| `tx[r]` | the uncommitted writes of request `r`'s transaction, which are also the row locks it holds; `fate` says how it ended |
| `pc[r]` | the statement the handler is suspended at, named `method.repository_call` |
| `req[r]` | what the client sent |
| `actor[r]` | the `UserData` from `get_current_user` |
| `mem[r]` | the handler's locals: `user`, the minted pair, the rows a DELETE has selected |
| `resp[r]` | status and tokens the client received |

`ApiHistory` adds two history variables, which no action reads: `before[r]`, the
requests that had been answered when `r` began, and `settled[r]`, those that had
committed when `r` executed the `UPDATE` on the account it is to change.
`HistorySpec` is `Spec` with them, `FairHistorySpec` adds `Fairness`.

### Actions of the core

One action per database statement, with the Python before the next one:
`RegisterLookup`, `RegisterAdd`, `RegisterUpdate`, `IssueTokenPair`,
`LoginAuthenticate`, `RefreshGetToken`, `RefreshGetUser`, `RefreshDelete`,
`RefreshIssue`, `LogoutDelete`, `VerifyAccessToken`, `CreateLookup`, `CreateAdd`,
`CreateUpdate`, `UpdateLoad`, `UpdateWrite`, `DeactivateLoad`, `DeactivateWrite`,
`RevokeSnapshot`, `RevokeDelete`; `Finish` is the commit in
`UnitOfWork.__aexit__` with the response.  `Post*`, `PutUser` and `DeleteUser`
are the endpoints with the checks they make before the first statement.
`DatabaseError`, `AnswerLost` and `Crash` are the faults, `Tick` the clock.

### Start-up

`Startup` has the same form: `stage[p]` is the statement that process `p` is
suspended at, `pending[p]` its uncommitted row.  A process of `Container` runs
`entrypoint.sh` (`WaitForPostgres`, `MigrateCheck`, `MigrateCreate`,
`MigrateCommit`) and `lifespan` (`AdminLookup` to `AdminRefresh`) and serves; one
of `Script` runs `create_admin` only, at any time, and does not wait for the
database.  A statement that fails ends the process (`set -e`; nothing in
`create_admin` catches); `docker-compose.yml` restarts a container and
PostgreSQL, `restart: unless-stopped`.  `accounts` holds only rows with the
bootstrap address, which `uq_users_email` makes at most one: other accounts do
not matter to start-up.  The compose file starts one application container; the
model takes any number, since nothing in the entrypoint relies on being alone.
Two branches of `entrypoint.sh` are left out: without `DB_URL` it does not wait
(line 5), and without an `alembic` executable it does not migrate (lines 24-29).
`core/settings.py` cannot do without the one and the Dockerfile installs the other, so
no container of this project takes them, and no property depends on them.

### Trace ids

`TraceId` has one action per step of `TraceIdMiddleware.dispatch` and of an
error handler.  A request has two contexts, that of the task which runs
`dispatch` and the copy in which `call_next` runs the application.  `Ambient` is
what the request may find in the variable: a server that starts a pipelined
request from the task of the one before hands its context on.  A client sends an
id of its own, none, or one that it was given with an earlier answer (`Received`).  The framework's
own error pages (404, 405) count as an endpoint that returned: they have the
header and no `traceId`.

### The abstract service

`Service` knows accounts and sessions and lets each request act at most once, in
one step, or never (`Abandon`).  It has no tokens, no transactions and no
failures.  What it promises is what a client may rely on: a registration makes
the account and its session together, a refresh ends one session and opens
another of the same account in the same step, a logout ends at most one, only an
account that is left inactive loses sessions, and of an account only the role
and the activity ever change.  It is as weak as the code requires: a refresh may
find its session gone (overlapping refreshes open one each), and a deactivation
may leave sessions that are opened meanwhile.

`ApiRefinement` maps the core onto it: the committed rows are the accounts and
the sessions (a session is named after the request that minted its token), and a
request is over when its transaction has ended.  Statements stutter, `Finish`
and `AnswerLost` are the abstract action, `Raise`, `Refuse` and `Crash` are
`Abandon`.

### Pool and probes

`Pool` puts the steps of the core under a pool of `Conn` connections.  A session
takes one at its first statement (`Connect`) and gives it back when
`UnitOfWork.__aexit__` closes it; a request with a bearer token does so twice.
`PooledStep` is a step of the core on a live connection, `BrokenConnection` the
same statement on one that PostgreSQL has ended (`Disconnect`): it fails,
`RepositoryError` unmapped, and the pool replaces every connection that is not
lent.  In `CommitCutOff` the connection ends behind a COMMIT, before its
acknowledgement.  `PoolTimeout` is QueuePool's `TimeoutError`.  A probe is `GetReadiness`, `SelectOne` (which
leaves the loop by `break`), `Finalise` (the event loop closes the abandoned
generator), or one of the ways into `except Exception`.

`Disconnect` ends one connection, at any moment.  Its transaction is rolled back and
its locks are free at once, while the handler goes on until its next statement.  A
restart of PostgreSQL is every connection ended, one after the other; statements
that fail because the database is down look like `DatabaseError` in `faults`.  Any
free slot may be lent, and any
free slot may or may not have had a connection to lose: QueuePool's choice among
them is not relied upon.

`ImplementsCore` maps the pool onto `Api` with its faults.  Connections are not seen,
and a request whose connection is cut off counts as failed from that moment
(`Cut`, `CoreTx`, `CorePc`): for the core, a disconnect is `DatabaseError` of the request that
has the connection, or nothing if no request has it; being lent a connection that is
closed, or getting none for 30 seconds, is `DatabaseError`; `CommitCutOff` is
`AnswerLost`; that the handler notices, changes nothing.

### Browsers

`Browser` is one browser per active seed account: `jar` is its cookie
`refreshToken`, `landed` the requests whose answer it has received.  A browser sends `/refresh`
and `/logout` with whatever the jar holds at that moment, and other requests with
an access token from a body it has received.  `Receive` delivers an answer, in any
order; a lost answer never comes.  `Expire` is `Max-Age`: it counts the
token's lifetime from the arrival of the answer, so the browser drops the cookie at
some time after the token has expired, by its own clock.

### Listing

`Listing` is one administrator's walk: `GetFiltered` and `CountFiltered` are the two
statements of `get_all_users`, `TurnPage` the client that reads `items` and `total`
and asks for the next page.  Between any two of them another request may commit
(`Create`, `Change`).  `_apply_filters` is `Passes`.  ILIKE is `Like`, on
sequences of characters folded to one case: there is a place in the text for each
character of the pattern, from the beginning to the end.  `MCListing` compares it with
the usual recursive matcher on all short texts and patterns; in this form, without
recursion, it can be proved about.  `Orders` is every order that
`ORDER BY is_active DESC, created_at DESC` allows.  `created_at` is read before the
INSERT, so a new row may be older than rows already there.  The role check before
the walk is that of the core (`Allowed`).

### Abstractions of the core

- A request slot is used once.  What it asked, what it was told and how its
  transaction ended stay in the state, so that the properties can speak of them.
- An account is named after the request that created it, a token after the
  request that minted it: ids and `jti` are fresh uuid4s.  SHA-256 is taken to
  be injective, so a stored hash is the token itself.
- Clients present any token any client was ever given, or none.  Tokens nobody
  was given are left out: `decode_token` refuses them as it refuses none at all.
- `passwordOk` stands for the outcome of argon2; `full_name`, `password`,
  `created_at` and `updated_at` are left out, since no decision in the services
  depends on them.
- The `SELECT` by which `BaseRepository.add` refreshes the new object sees only
  the transaction's own row and is merged with the `INSERT`; the commit of the
  read-only transaction in `verify_access_token` is merged with its `SELECT`.
- The `UPDATE`s lock account rows in a mode that does not conflict with the
  foreign-key lock an `INSERT` into `refresh_tokens` takes, so that insert does
  not wait.
- `delete_all_for_user` is two actions because PostgreSQL chooses the rows from
  the snapshot at the start of the statement and may then wait for one of them.
  The rows it locks before it meets one it must wait for are not modelled as
  locked: it holds them while it waits.  A circle of such waits would need two
  DELETEs over several tokens of one account, but each of them holds the
  account's row by then, and only one can.
- A wait for a row is a guard: the action is disabled while another transaction
  holds it.  What the statement then sees is the newest committed version, as
  PostgreSQL re-evaluates the row after the wait.
- Validation errors (422) and the GET endpoints change nothing and are not part
  of the core.

## 3. Checks

`MCApi` gives the instances: two seed accounts, `admin` (an administrator) and
`user`, each with an address, an access token and a refresh token, and two or
three further requests that clients may send at any time.  `Ops`, `Roles`,
`Actives`, `Email` and `MaxTime` bound what they send and how far the clock
goes; each `.cfg` names them.  Requests that have not begun are interchangeable,
so the runs without a liveness property use that symmetry.  `MCPool` has one seed
account, `MCListing` three accounts and one that is yet to come; `Startup` and
`TraceId` are small enough to be checked as they are.  A state in which
every request has been answered has no successor: `CHECK_DEADLOCK FALSE`; that
no request is stuck is `EveryRequestAnswered` and `EveryCallAnswered`.

| Run | Instance | Properties | Shows |
|---|---|---|---|
| `sessions` | 3 of login, refresh, logout and a PUT that deactivates or re-activates, with history; `user` is inactive at first | `ConsumedTokenGone`, `SessionInv`, `NoSessionLost`, `ReuseRefused`, `DeactivatedIsLockedOut`, `DeactivationRevokes`, `ImplementsService` | a used token never comes back and is refused afterwards, nobody is logged out by a stranger's request, a deactivation takes the sessions with it, and what follows it is refused |
| `accounts` | 2 of register, create, PUT, login, refresh, every role, with history; 3 addresses; half-second ticks | `UniqueEmail`, `NoSelfPromotion`, `RoleInv`, `RowMatchesToken`, `DemotedIsNoAdmin` | the look-up race ends in one account and a 409, stale reads promote nobody unasked, a demotion binds whatever begins after it, and the truncated expiry in the token never exceeds the row's |
| `faults` | 2 of all seven, with failures, lost answers and crashes, with history; fairness | `TypeInv`, `AllOrNothing`, `NoSessionLost`, `DeactivatedIsLockedOut`, `NoCircularWait`, `LockOrder`, `DeactivationRevokes`, `EveryRequestAnswered`, `ImplementsService` | a request is its abstract step or nothing, wherever it fails; an account is never deactivated without its sessions, nor the other way round; a failure logs nobody out; every wait ends |
| `pool` | 2 of register, refresh, DELETE and a probe on 2 connections, 2 disconnects; fairness | `AllOrNothing`, `PoolInv`, `NoPoolDeadlock`, `EveryCallAnswered`, `ConnectionsReturned`, `ImplementsCore` | callers that wait for connections, and rows, never wait for each other in a circle and are all served; a connection that ends between two statements, or behind a COMMIT, commits no half and is a fault the core knows |
| `browser` | 3 of login, refresh, logout, DELETE from 1 browser, with faults and a clock | `JarFollowsStore` | crossing, late and lost answers leave a dead cookie only behind a failure, a deactivation or an answer still under way, also when the cookie expires meanwhile |
| `listing` | pages of 1 and 2 over 3 to 4 accounts, 7 filters, 3 writes | `ListingTypeOK`, `OnlyWanted`, `NothingSkipped`, `TotalCoversItems`, `ListingInv` | the walk shows what was asked for and skips nothing that stayed in place |
| `startup` | 3 containers, 1 script, 2 faults; fairness | `StartupInv`, `OneBootstrapAccount`, `ServingIsBootstrapped`, `EveryContainerServes` | the races and crashes of start-up leave one administrator, and whoever loses or crashes serves after a restart |
| `traces` | 2 requests, 2 client ids | `ReportedTraceIsOwn` | error bodies carry their own request's id |
| `double_refresh` | 2 refreshes | `RefreshTokenUsedOnce` | **violated** |
| `late_session` | login or refresh, and DELETE | `InactiveHasNoSession` | **violated** |
| `readiness` | 1 request and a probe, 1 disconnect | `ReadyWhenReachable` | **violated** |
| `untraced_error` | as `traces` | `EveryResponseTraced` | **violated** |

**Why the bounds are enough.**  Each hazard is a race of two requests about one
row; the third request in a run is there to provide what the race is about (a
token minted a moment ago, a deactivation, a logout) or to wait behind both.  The
clock needs one second with a fraction to show the truncation, and enough ticks
to expire the token while a request runs.  With faults, two requests give every
point of failure of the one against every state of the other.

`sessions` deactivates by PUT, which is the harder case: it decides by what it has read
whether to revoke.  Two PUTs that overlap, one of an account that was inactive, and a third
request between them reach the exception in `DeactivationRevokes`; without it TLC
finds a counterexample.  DELETE, the other way to deactivate, has the same
statements behind its `UPDATE`; it is in `faults`, `pool`, `browser` and
`late_session`, and in the theorems.  With it `sessions` would have more than twice as many states.

With two connections, two requests and a probe there is always a caller too
many: each of the three can be the one that waits, behind one that waits for a
row and one whose generator has not been finalised. Two disconnects can cut off both
that have a connection, each at each of its statements. In `browser` two requests of the browser cross each
other, and the third uses the cookie that the crossing left behind, or sets it;
a browser sends no cookie but its own, so another one would add nothing but its
size (`JarsFollow` is for any number). The walk needs two pages of two accounts
for a row to move across a border, a fourth account to push, and wildcards, an
escape and an exact filter each alone and two columns together; three writes fit
one between any two statements of the first page and one after it.

At start-up three containers give a winner, a loser and one that comes after
both, at each of the two races; `MaxFaults` bounds crashes, failed statements, lost
acknowledgements and outages together: with two of them one container fails twice,
or one after the other does.  A trace id can be taken only from one other context
at a time: two requests suffice.

**Fairness.**  `FairSpec` and `FairHistorySpec` have weak fairness of `Step(r)` for each request: the
event loop resumes a handler once PostgreSQL has answered, and PostgreSQL
answers a statement whose row is free.  A statement that waits for a row is
disabled, and weak fairness suffices since no row is fought over for ever:
every holder commits without waiting for a token or an address behind it.
Nothing is assumed of clients, of the clock or of faults.

`PoolSpec` adds weak fairness of `Connect(x)` for each caller.  A caller may see the
free connections taken by others, but only finitely often: every request is sent
once.  A probe's statement and the finalisation of its generator (the event
loop's `asyncgen` hooks, run when the suspended generator is collected) are fair
too.  `PoolTimeout` and `ProbeTimeout` may happen and are not relied upon: without
them everybody is served all the same.

`Startup!FairSpec` has weak fairness of a process's statements, of
`StartContainer` and of `DatabaseStarts`, which is what `restart: unless-stopped`
of both services says.  Faults are bounded, the script need not run, and
`ChangeAccount` is free.

**What binds whom, and when.**  Three properties state how far a stale read can reach.
`DeactivatedIsLockedOut` and `DemotedIsNoAdmin` are about requests that begin after the
answer to the PUT or DELETE: such a request reads the account anew, at login, refresh
or in `get_current_user`.  A request that has passed that statement acts on what it
read until it ends, also as an administrator who is none any more; nothing in the
repository promises otherwise, and no property claims it.  `DeactivationRevokes` is
about effects: in the step in which an account becomes inactive, the sessions
disappear that were committed when its row was locked.  `update_user` may skip the DELETE wrongly only if
`was_active` was read as false, the account has been re-activated since, and the
PUT writes it back to false: it has been *overtaken* by the other PUT.  The exception
says exactly this; the kept sessions are usable again when somebody re-activates the
account.

**Conditions that are part of a property.**  `NothingSkipped` and
`TotalCoversItems` hold while no row leaves the filter or moves to the inactive
ones (`calm`): if one does, everything behind it moves up and OFFSET skips a row,
which is how paging by offset works and contradicts no document.
`NothingSkipped` excepts rows that share their `created_at` with another: PostgreSQL
may order them differently for each page.  Neither is reported as a divergence.
A filter with a backslash hides matching rows, one with `%` or `_` shows more;
nothing says what they should find.

### The four disagreements

1. **A refresh token can be used twice** (`double_refresh`).  Both requests find
   the row (`auth_service.py:111`), both execute the DELETE (119); the second
   one waits for the first, deletes nothing, does not notice and mints a pair.
   One cookie has become two sessions, each of which rotates on its own.
   `README.md:182` and
   `test_refresh_rotates_cookie_and_invalidates_previous_refresh_token` say
   that the refresh invalidates the token.  What does hold is
   `ConsumedTokenGone` and `ReuseRefused`: requests that do not overlap are
   kept apart.
2. **A deactivated account can keep a session row** (`late_session`).  A login
   that has passed `is_active` inserts its row after the DELETE.  The row is of
   no use as long as the account is inactive (`DeactivatedIsLockedOut`), but a
   later reactivation revives it, against
   `test_deactivate_revokes_all_refresh_tokens`.
3. **Readiness fails with the database up** (`readiness`).  The engine is created
   without `pool_pre_ping` (`db_helper.py:22`).  After a restart of PostgreSQL, or
   any other end of a pooled connection, the probe may be lent one that is closed, its `SELECT 1` fails, and it
   answers 503 (`health.py:23-26`) although a new connection would work, against
   `src/README.md:189` ("200 if the database is reachable, else 503").  The pool
   replaces its connections when it notices, so the next probe succeeds.
   Requests fail in the same way, with a 500.
4. **A 500 has no trace id** (`untraced_error`).  An exception that
   `register_exception_handlers` does not map (a `RepositoryError`, say) passes
   through `dispatch` before it sets the header (`trace_id.py:22-25`), and the
   server's own error page has neither the header nor a `traceId`, against
   `README.md:196` ("Every response carries an `X-Trace-Id` header").

A lost update that contradicts nothing the repository says: `update_user` writes
back the role and the activity that it read one statement before, so a PUT that
names neither undoes what an administrator committed meanwhile.  What is checked
is `NoSelfPromotion`: a role that comes back was once granted.

## 4. Theorems

The proofs hold for any set of requests, accounts, addresses and any lifetimes,
with faults and without.  They use `TimeAssumption`, `SeedAssumption` and
`NullAssumption` (the sentinel `Null` is none of the values), with
`PoolAssumption` on the pool (probes are no requests, and neither is `Null`), or
`StartupAssumption`, or `TraceAssumption` (no id is the empty string), or
`ListingAssumption` (the types of what the walk is given: a finite table of distinct
accounts, texts of any length, page sizes of at least one), which TLC evaluates in
every run of their modules.

| Theorem | Module | Statement |
|---|---|---|
| `TypeCorrect` | `ApiProofs` | `Spec => []TypeInv` |
| `LocksInOrder` | `SafetyProofs` | `Spec => []LockOrder` |
| `DeadlockFree` | `SafetyProofs` | `Spec => []NoCircularWait` |
| `RolesFit` | `SafetyProofs` | `Spec => []RoleInv` |
| `AdminsAreGranted` | `SafetyProofs` | `Spec => []NoSelfPromotion` |
| `SessionsFit` | `SafetyProofs` | `Spec => []SessionInv` |
| `ConsumedStaysGone` | `SafetyProofs` | `Spec => []ConsumedTokenGone` |
| `EmailsAreUnique` | `SafetyProofs` | `Spec => []UniqueEmail` |
| `WritesAreAtomic` | `SafetyProofs` | `Spec => []AllOrNothing` |
| `RowsMatchTokens` | `SafetyProofs` | `Spec => []RowMatchesToken` |
| `SessionsAreKept` | `SafetyProofs` | `Spec => []NoSessionLost` |
| `ServiceIsImplemented` | `RefinementProofs` | `Spec => ImplementsService` |
| `UsedTokensAreRefused` | `ClientProofs` | `HistorySpec => []ReuseRefused` |
| `LockedOut` | `ClientProofs` | `HistorySpec => []DeactivatedIsLockedOut` |
| `RightsEnd` | `ClientProofs` | `HistorySpec => []DemotedIsNoAdmin` |
| `SessionsAreRevoked` | `ClientProofs` | `HistorySpec => DeactivationRevokes` |
| `JarsFollow` | `ClientProofs` | `BrowserSpec => []JarFollowsStore` |
| `ConnectionsFit` | `PoolProofs` | `PoolSpec => []PoolInv` |
| `PoolImplementsCore` | `PoolProofs` | `PoolSpec => ImplementsCore` |
| `AtomicOnPool` | `PoolProofs` | `PoolSpec => []AllOrNothing` |
| `SafeOnPool` | `PoolProofs` | `PoolSpec => [](UniqueEmail /\ NoSelfPromotion)` |
| `PoolImplementsService` | `PoolProofs` | `PoolSpec => D!ImplementsService`, the service seen through the core |
| `PoolDeadlockFree` | `PoolProofs` | `PoolSpec => []NoPoolDeadlock` |
| `ListingTypes` | `ListingProofs` | `Spec => []ListingTypeOK` |
| `OnlyWantedIsShown` | `ListingProofs` | `Spec => []OnlyWanted` |
| `ListingFits` | `ListingProofs` | `Spec => []ListingInv` |
| `NothingIsSkipped` | `ListingProofs` | `Spec => []NothingSkipped` |
| `TotalsCover` | `ListingProofs` | `Spec => []TotalCoversItems` |
| `TracesAreOwn` | `TraceProofs` | `Spec => []ReportedTraceIsOwn` |
| `StartupCorrect` | `StartupProofs` | `Spec => []StartupInv` |
| `OneAccount` | `StartupProofs` | `Spec => []OneBootstrapAccount` |
| `ServesBootstrapped` | `StartupProofs` | `Spec => []ServingIsBootstrapped` |

**Types.**  `TypeOK` is not inductive: a handler dereferences `mem[r].user` and
`req[r].email`, which may be `Null` for other statements.  `TypeInv` adds `Fits`:
the statement belongs to the endpoint called, the body has the fields that
endpoint requires, and the locals a statement uses have been assigned.

**Deadlock.**  `LockOrder` says what a transaction may hold at each statement:
nothing where it waits for an account row, at most account rows where it waits
for a token row, and only after its last wait token rows.  In a circle of waits
take the requests that wait for token rows: those they wait for hold token rows,
and hence wait for nothing.  If nobody waits for token rows, everybody waits for
account rows, and those they wait for hold one, but then do not wait for account
rows.  No induction over the circle is needed, so the argument covers any number
of requests.

**Roles.**  `RoleInv` extends `NoSelfPromotion` to what is not committed yet:
an ADMIN row in a transaction, and an ADMIN row that `update_user` has read and
is about to write back, go back to a grant, or the request is itself a grant by
an administrator.  The role check at `user_service.py:84` is what makes the
first step true for a user's own update; that grants are never withdrawn from
the record makes the stale read harmless.

**Sessions.**  `SessionInv` says who knows which token: a token is minted by the
request it is named after and stored by it alone; a client knows it only after
that request committed; so whoever presents a token presents one whose only
insertion lies in the past.  From the DELETE until the commit the row is in
`tx[r].dels`; a concurrent request that found the row earlier can delete it
again, but nobody can insert it again.

**Accounts.**  `AccountInv` extends `UniqueEmail` to the rows that are inserted and
not committed, which is what `uq_users_email` and the wait for another transaction's
insertion provide, and says of each statement which rows its transaction has
written by then.  `AllOrNothing` follows because a transaction publishes its rows in
one step and nobody else ever writes a row named after its request.

**Rows and tokens.**  `TokenInv` carries `RowMatchesToken` back to the rows in
transactions, and with it that the account exists which the pair is minted for:
no statement deletes an account.  The truncation of `exp` to seconds only shortens the
token, which `TimeAssumption` makes an inequality for any `Second`.  `KeepInv` says
what is in `tx[r].dels` and why: the row of the token the client presented, or, in a
request that leaves its target inactive, rows whose `user` is the target.  A row that
is gone was in some `dels` that was committed.

**Refinement.**  `ImplementsService` is `S!Spec`.  `EffectInv` says what the writes of a
transaction amount to: the one account row, which nobody else writes and which is
what the endpoint makes of it, the one token row, its owner, and, at the COMMIT, that
nothing is missing.  A COMMIT is then the abstract step of its endpoint
(`CommitStep`): the row of a registration is new because no account bears the name of
a request that has not committed; the sessions that a deactivation deletes are its
target's by `KeepInv` and `TokenInv`.  A call is `Ask`, a rollback and a crash are
`Abandon`, and every other step changes nothing that `Service` sees (`QuietStep`).
A refresh that finds its session gone, and a logout of one, are steps of `Service` in
which the session that ends is not there.

**Requests in sequence.**  `HistoryInv` says how far a request gets that began after
another was answered.  One that presents a token which an earlier request used up is
at its first statement or has ended without success: the row is not there when it
looks, by `SessionInv`, and never comes back.  One that acts for an account which an
earlier request deactivated has not passed the statement that reads `is_active`, and
one that acts as an administrator by a token of an account which an earlier request
demoted has not passed `get_current_user`.  This needs that the row stays as it was
left until another PUT of the account commits (`ChangeStays`): no other endpoint can
undo either.

For `DeactivationRevokes` the invariant follows the sessions that were there when
the request wrote the account (`Earlier`): `RevokeSnapshot` selects them all,
`RevokeDelete` puts into `tx[r].dels` those that are left, and none is added, since
no request that had committed by then can store another.  A PUT that skips both
statements has read its target as inactive: `ReadFits` says that it still is, so
that nothing becomes inactive by the commit, or that a PUT which leaves it active has
committed since `r` began.  The account row is locked from the `UPDATE` on, so nobody
changes the case afterwards.

**Browsers.**  Every behaviour of `BrowserSpec` is one of `Spec`, so the invariants of
the core hold behind the browsers too.  `BrowserInv` adds that a cookie is the token of
an answer which this browser has received, and that no cookie is the token of a
`/refresh` or `/logout` whose successful answer has arrived: the answer took the
cookie away, and a later one can only bring its own token, which is new.  `PairFits`
is what makes the cookie of a successful answer exist.  With `NoSessionLost` a dead
cookie was then used up by a request that has not been heard of, or failed.

**Pool.**  `PoolInv` is inductive: a connection that is lent belongs to somebody at
work, nobody has two, and a request that has written something has a live connection.
The last part needs that `verify.get_by_id`, after which the connection is given back
although the request goes on, has written nothing, and that what was written on a
connection goes with it.  Each step of the pool is then a step of the core under the
mapping above: a live statement sees the same rows and waits for the same locks, since a
request that is cut off holds none (`CoreLocks`); `CoreStep` goes through the statements
one by one.  `RefinementProofs` is instantiated with the mapped variables (`D`), so each
theorem about the core is one about the pool's runs; `AllOrNothing` and the others carry
over because the pool and the core agree on which requests have committed.

`NoPoolDeadlock` is about a wait that PostgreSQL's deadlock detection cannot see: for
a row whose owner waits for a connection.  Whoever is waited for, for a row, has a
connection (`LockersAreConnected`), and so does not wait for one.  A circle would
therefore go through row locks alone, which `LockOrder` excludes (`OrderBreaksCircles`).

**Listing.**  `NothingSkipped` speaks of the end of the walk only.  `ListingInv` says what
carries it there: as long as the walk is calm, an account that nobody touched and that
has not been shown has at least as many rows before it, in the order of the list, as
the pages so far had room for (`StillAhead`).  A page keeps this true because a row's
position in any admissible order is at least one more than the number of rows before
it (`PositionCounts`), whatever the ties: what the page has not shown lies behind it.  A write keeps it
true because each row before it stays before it under the same id, so that the old
rows inject into the new ones (`KeptBefore`, `AtLeastAsMany`); rows that appear only
add to them.  The count comes after the page and finds the account and all before it,
so the client is told to go on.  `TotalCoversItems` holds by the same injection.
`OnlyWanted` needs what ILIKE does with a pattern `%...%` without special characters,
for texts of any length: `PassesWithin` shows that the places of the characters of the
filter are consecutive, by taking the first one that is not (`LeastNumber`, which
replaces an induction by a smallest counterexample).

**Trace ids.**  `TraceInv` says of each stage which of the two contexts has the id of
the request: that of `dispatch` from `set` to the call of the application, that of the
application until the error body is made.

**Start-up.**  `StartupInv` is inductive.  `OneBootstrapAccount` alone is not: it
needs `OnePending` (while somebody has the account inserted, nobody else has and
none is committed: the wait at the unique index), and `StageFits`, which says what
a process has established at each statement, such as that a process about to
commit has set `created_by`.

**Model-checked only.**  `EveryRequestAnswered`, `EveryCallAnswered`,
`ConnectionsReturned` and `EveryContainerServes` (liveness and ENABLED are outside
what TLAPS proves here).  `ImplementsCore` is about steps, not fairness; that callers
of the pool are served is `EveryCallAnswered`.  That `Like` is the recursive matcher is checked
on texts of up to three characters and patterns of up to four.

## 5. Not modelled

The layout of error bodies (`loc_to_field`, `rejected_value`, the order of field
errors), request validation (422), `parse_duration`; settings, logging, metrics,
password hashing and the project scripts, which hold no state the API depends
on.  `GET /users/me`, `GET /users/{id}` and `GET /health/liveness` change nothing and
read one row or none.  `get_all`, `get_paginated` and `count` of `BaseRepository` have
no caller.  Rows of expired tokens are never purged: nothing can be stated about
code that is not there.  A `page` so large that the offset leaves 64 bits is a failing
statement like any other.

## 6. Plan

1. *Done*: the core with its runs and five theorems, `Startup` with its
   invariant proved, `TraceId`.
2. *Done*: `Service` and the refinement, `Pool`, `Browser`, `Listing`.
3. *Done*: the proofs about accounts, rows and tokens, and of the refinement.
4. *Done*: the proofs about requests in sequence, deactivations, browsers and trace ids.
5. *Done*: the proofs about the listing; the pool implements the core, and keeps its
   properties.  What is left is out of the provers' reach or not modelled for the
   reasons above.

# Verification of the Aurum platform

TLA+ modules, TLC configurations and TLAPS proofs for the concurrent and failing parts of
the Aurum platform: the FastAPI backend (`backend/app`) with its PostgreSQL and Redis state,
the files it shares with the aurum_2 runner, the brokers it asks, and the browser.

Paths below are relative to the repository root; line numbers are those of the commit the
models were written from.

## The system

One backend process (a single uvicorn worker, `docker-compose.yml`) serves requests as
coroutines of one event loop. Every request has one database session
(`backend/app/db/session.py`): a READ COMMITTED transaction that begins with the first
statement and that `get_session` commits when the handler returns **and when it raises**.
Coroutines give up the loop at every statement, Redis command, subprocess or HTTP call, so
requests interleave exactly there; code between two awaits is atomic. The aurum_2 runner is
another process: it appends journal files, writes a state snapshot and polls two flag files.

| Component | State | Operations | Interacts with | What is hard |
|---|---|---|---|---|
| Journal ETL (`workers/journal_etl.py`, started and stopped in `main.py`) | `paper_events`, `etl_checkpoints`, position in a file, batch, backoff | pass over the files from the checkpoint on, batch insert, commit per file, backoff, stop | runner (files), PostgreSQL | restart after a kill, lost commit acknowledgements, half-written lines, bad rows, files that arrive out of order |
| Refresh tokens (`api/auth.py` 106-148, 486-642) | `refresh_tokens`, `audit_log` | issue, rotate, detect reuse, expire, logout, logout-all | browser (cookie), session | two requests with the same cookie; a bulk UPDATE against concurrent rotations; commit on exception |
| Browser session (`frontend/src/lib/api/client.ts`, `lib/api/auth.ts`, `components/providers.tsx`) | cookie jar, access token and `refreshInFlight` of each tab | retry after 401, shared refresh, silent refresh, timer, sign-in, sign-out, sign-out-all, reload | refresh tokens | which refreshes are coalesced; answers that arrive late, out of order or never |
| Passkeys (`api/auth.py` 77-478, `api/me.py`) | challenges in Redis, `passkeys` | register and login (begin, finish), rename, remove, list | Redis, authenticator, refresh tokens | two-command challenge redemption, sign counts written out of order, removal beside login, the last passkey |
| Broker accounts (`api/broker.py`, `brokers/credential_store.py`) | `broker_accounts`, `broker_health_checks`, `audit_log` | list, read, test, connect, test stored, deactivate, reactivate, delete | adapters, connection pool | seconds pass between the read of a row and its write |
| Broker adapters (`brokers/*_adapter.py`, `workers/mt5_runner.py`) | a subprocess, or one HTTP request | test_connection, get_account_info | the brokers | timeout against a late answer, kill and reap, `mt5.shutdown` |
| Control channel (`aurum/control.py`, `api/aurum.py` 359-430) | `pause.flag`, `stop.flag`, `control_actions`, `audit_log` | pause, resume, stop, read state | runner (polls) | file and transaction are not atomic; order of files and order of rows differ |
| Audit of polled reads (`api/aurum.py` 63-94) | `_AUDIT_SEEN`, `audit_log` | first read, later read | session | memory says audited before the row is durable |
| aurum_2 read endpoints (`api/aurum.py` 189-356, `aurum/snapshot.py`) | none of their own | status, positions, equity, closed positions, daily report, regime | files, `paper_events` | page ends, reads of a table that grows |
| Dashboard (`frontend/src/components/runner`, `app/(authed)`) | query cache, blocks of pages | poll, load more, filter, control buttons | read endpoints, control | pages fetched at different times |
| Transactional session (`db/session.py`, `api/deps.py`) | pool of 10 + 20 connections | begin, commit, commit on exception, close | every handler | connections held during slow calls |
| Audit trail and schema (`core/audit.py`, `db/models.py`, `alembic/versions`) | `audit_log`, `control_actions`, triggers | append | all writers | - |
| Configuration, errors, health, rate limits, encryption, owner seed | settings, counters in slowapi | - | - | declarative, pure or one-off |

Correctness, per component:

- **Journal ETL**: no line that parses is lost, none is copied twice, the checkpoint never
  runs ahead of what is durable and never goes back; a stop is honoured; the database coming
  back is enough to catch up.
- **Refresh tokens**: a token and its successor are never usable together; revocation is
  final and audited; an answer "all sessions revoked" is true.
- **Browser session**: calls of a tab that fail together share one refresh and all end; what
  the tab does by itself is never taken for a stolen cookie; when all is quiet the jar holds
  a cookie the backend honours. The code breaks the last two after a sign-out-all (below), so
  the properties except what that leaves behind, and only that.
- **Passkeys**: a redeemed challenge cannot be redeemed later; a removed passkey neither
  comes back nor opens a session; the stored sign count does not lock its owner out; a
  single removal never takes the last one.
- **Broker accounts**: a slow test does not undo a switch, nor a switch a test; deleted is
  deleted; a stored test leaves a health check and an audit row or neither; a full pool does
  not stop everyone.
- **Adapters**: the answer is what the broker said; it comes once, in bounded time, with no
  process and no MT5 session left behind.
- **Control channel**: both tables agree; rows are true; what the runner obeyed can be traced
  by request_id; a stop reaches the runner.
- **Polled reads**: one audit row per user, endpoint and process lifetime, and not none.
- **Trade history**: pages are disjoint and in order, and nothing is missing from them but
  what their ends explain; the two halves of a daily report fit.

## Modules

| Module | Models | Source |
|---|---|---|
| `JournalMirror` | what the ETL promises: a growing copy with a mark below which it is complete | abstract |
| `JournalEtl` | run_loop, run_once, _process_file, lifespan, the runner's appends, the database | `workers/journal_etl.py`, `main.py` |
| `RefreshTokens` | login's issue, refresh, logout, logout-all | `api/auth.py`, `db/session.py` |
| `BrowserSession` | the fetch wrapper, its refreshes and the cookie jar, over the actions of `RefreshTokens` (EXTENDS) | `frontend/src/lib/api`, `components/providers.tsx` |
| `Passkeys` | challenges, ceremonies, rename, remove | `api/auth.py`, `api/me.py` |
| `BrokerCall` | what a handler relies on: asked once, answered once, in bounded time | abstract; `brokers/base.py` |
| `BrokerAdapters` | the MT5 subprocess and the OANDA request behind one call; implements `BrokerCall` | `brokers`, `workers/mt5_runner.py` |
| `BrokerAccounts` | the eight handlers over a pool and a slow broker, which is `BrokerCall` (INSTANCE) | `api/broker.py`, `brokers/credential_store.py` |
| `AurumControl` | pause, resume, stop, the polling runner | `aurum/control.py`, `api/aurum.py` |
| `PolledReads` | `_audit_polled_read` and its four endpoints | `api/aurum.py` |
| `TradeHistory` | closed positions by cursor, the dashboard's blocks of pages, the daily report, while the ETL commits | `api/aurum.py`, `frontend/.../trades/page.tsx` |
| `MC*` | instances for TLC | - |
| `*_proofs` | theorems and their proofs | - |

Definitions named "Mutant of X" are altered forms of a definition X, one for each property:
put in X's place they break the property, which shows that the property depends on the code
X stands for. They take no part in any specification.

### JournalEtl

`pc` is where `run_loop` is: `top` (the while test), `read` (the for loop over lines), `eof`
(after it, before the commit), `wait`, `backoff`, `down` (no task). `files`, `path` and
`next` are the loop positions of `run_once` and `_process_file`; `batch`, `txn` and `seen`
its locals; `events` and `checkpoint` the committed tables. One action stands for one line
read, one batch inserted (`_insert_batch`), one commit. `StatementFails` is every way a
statement raises (rollback, then backoff), `CommitUnacknowledged` a commit that took effect
although the task saw an error. `Crash` also stands for the cancellation of a task that
outlives the five seconds `lifespan` gives it. A line is its kind: with an event_id, without
one (a synthetic id from file and line number), unparsable, or one the INSERT rejects.
`ReadFragment` and `ReadRemainder` are what Python's file iterator does at a line whose
newline is not written yet: the head is returned as a line, the rest as another, both fail
to parse, and `enumerate` has counted one line too many (`shift`).

### RefreshTokens

A request is `rotate`, `revoke` or `reuse` after its SELECT, `bulk` when its UPDATE took its
snapshot, `written` after its flush, and gone after the commit. Row locks are held from
`written` to the commit; a waiting UPDATE by primary key proceeds without looking at the row
again, a waiting bulk UPDATE re-evaluates `revoked_at IS NULL` on the rows of its snapshot.
`CommitOnRaise` is the commit of `get_session` after the AuthError of the reuse and expiry
branches. Tokens are numbers; the raw value, its hash and the cookie are identified. A bulk
UPDATE takes all its row locks at once, when the last is free.

### BrowserSession

`jar` is the cookie all tabs share; `access`, `inFlight` and `call` are the heap of a tab:
token-store, `refreshInFlight` (null, pending, or settled for the 50 ms of its
`setTimeout`), and the calls of `api()`. `fetch` is the request to `/auth` that a backend
request serves. JavaScript is single-threaded, so a step of a tab is one task with its
microtasks; a request reads the jar when it is sent and `Set-Cookie` acts when the answer
arrives, in any order. The steps of the backend are the actions of `RefreshTokens`
themselves. `Raised` answers without `Set-Cookie`: the handler of an AppError builds a new
response (`core/errors.py:67`), so the `_clear_refresh_cookie` before the raise is lost.

`Load` is a page load (new heap, the mount's silent refresh), `Tick` the interval, `AskApi` a
call that will meet a 401, `Lose` an answer that does not arrive or a page that is gone. `SignOutAll` is the button of the settings
page (`settings/page.tsx:268`): `logout_all` revokes every token of the user, but its answer
leaves the jar alone (`CookieGiven`) and the page keeps its access token (`Settle`).
`LeftBehind` is a token that is revoked, was neither exchanged nor signed out
by itself, and whose user did sign out everywhere. The login page does not look
at the token store, so a sign-in may follow without a reload.
`upset` is a history of what a browser alone cannot rule out: requests with one cookie that
`refreshOnce` does not coalesce (`overlap`), a sign-in beside another request (`signin`), a
failure or a lost answer (`fault`). The properties say what holds until such a thing happens.
A tab hands out the outcome of its shared refresh for 50 ms. If another tab signs in within
them, a call of the first may be refused on that outcome although the jar holds a cookie
again (`client.ts:65`); `Overlaps` counts a sign-in beside a settled promise as `signin`.
Two orders of real time are assumed: the 50 ms pass before a token expires or a user answers
a passkey prompt, and a mount's refresh has ended when the twelve-minute interval fires.

### Passkeys

A finish request has `got` the challenge (GET), `consumed` it (DELETE), is `ready` after its
checks and SELECTs, and `written` after its flush. `Write` needs the lock of the row or of
the key in the unique index, and that the row is still there: SQLAlchemy raises
StaleDataError for an UPDATE that matches no row and only warns for such a DELETE. The
browser and the authenticator are external: the authenticator creates a credential per
registration and, if it counts, signs with an ever larger count. The same answer may be sent
in several requests. A refused request, a failed statement and a lost process are all
`Abort`: an audit row aside, none of them leaves anything. The nickname is left out, so a
rename is the lock it takes and the row it needs. `overlapped` is a history: users two of
whose removals, of different passkeys, had both been counted. The row that `_issue_tokens` adds in the
transaction of a login is `RefreshTokens!LoginBegin`.

### BrokerAdapters and BrokerCall

`stage` is where the coroutine is (`talk` in `communicate`, `reap` in `proc.wait` after the
kill), `proc` where the subprocess is; between its exit and the event loop noticing it
(`LoopSeesExit`) the timer may still fire. `Timeout` kills what is there: a process that is
gone already makes `proc.kill` raise ProcessLookupError, which nobody catches ("raised").
`ProcessDies` is the kernel carrying out the kill and every other death; `session` is whether
`mt5.initialize` was not followed by `mt5.shutdown`, `verdict` what the broker made of the
credentials. `OandaResponds` is the one HTTP request. Its timeout is httpx's, which bounds each of
connecting, reading and writing and not their sum: a server that keeps sending a little is
taken not to exist. `BrokerCall`
hides all of it: none, asked, answered. `_validate` is left out: the schemas of
`schemas/broker.py` check the same before. So is a missing or odd key in the data of an
output that says ok, at which `get_account_info` would raise: the operations of
`mt5_runner.py` write every key it reads.

### BrokerAccounts

A request is `queued` (wants a connection), `begun`, `calling` (waits for the broker, holding
its connection), `flush`, `written` (flushed, row locked), then over. It reads the row once,
into `image`; SQLAlchemy's UPDATE names the columns whose value differs from the image
(`Updated`), so a request writes neither less nor more than what it changed, and fails when
the row is gone (`Matches`). Of the row the columns are kept that two handlers write:
`is_active`, `deactivated_at` (set or not), `last_test_status`, `last_tested_at`. Of the image
only those a request will assign. `switch`, `found` and `stale` are histories of what the
last switch and the last test wrote, and whether its image was out of date by then.
Of the audit rows only those of stored tests are kept (`tested`); the others are appended in
the transaction of their handler and nothing reads them. `pool` is `pool_size + max_overflow`; `CheckoutTimesOut` is QueuePool giving up.

### AurumControl

`begun`, `effected` (file changed), `audited` and `written` (rows flushed), then the commit.
The number of a request is its request_id and the order of its timestamp, because `ts` is
`now()` of the transaction and the first statement is in `get_current_user`. A stop without
`X-Confirm-Stop: yes` is refused like a user who is no owner (`Forbid`). `took`,
`unanswered` and `echoed` are histories. The runner is external and does what
`docs/integration_aurum2_to_platform.md` says: it compares `pause.flag` with its state at
every poll and latches `stop.flag`.

### PolledReads

`ReadFiles` is one atomic step, since `_audit_polled_read` tests and adds to `_AUDIT_SEEN`
without awaiting; the row is written and committed later, in `Commit`, or lost in `DbError`.

### TradeHistory

A trade is the number of its commit, with a ts of any age, since a file may be ingested late.
`ClosedPositions(b)` is the set of answers PostgreSQL may give to the query with cursor `b`
(it is free among equal ts). `pages` are the blocks of the trades page, `cache` the query
cache: a block is fetched when it appears and again every minute (`FetchPage`), `LoadMore`
appends the cursor of the last block, `SetFilter` starts again at the first page, `Forget` is
the cache dropping what no block shows. `asOf` is how many rows an answer was taken from. The
report is two statements, `Summarise` and `GroupByInstrument`, with commits in between.
Sorting by other columns and the side and date filters are left out: they act on rows already
on the page.

## Runs

`tlc -workers 2 -config X.cfg M`, M being the module the name begins with.

| Run | Question and answer | Bounds |
|---|---|---|
| `MCJournalEtl` | Is anything skipped, doubled or claimed too early, with database failures, lost acknowledgements, kills and restarts? No; and the task implements `JournalMirror`. | 2 files, 2 lines each, batches of 2, all four kinds |
| `MCJournalEtlLive` | With half-written lines: is every line that parses ingested once the database stays up, unless a line that fails to insert stands in its file or an earlier one (`Obstructed`)? Does a stop end the task even when it is down? Yes. | 2 files, 2 lines, batches of 1; lines without event_id, unparsable lines and lines that fail to insert |
| `MCRefreshTokens` | Do overlapping requests, aborts, expiry and disabled users leave rotation atomic, revocation final and audited, and "all revoked" true? Yes. | 1 user, 2 requests, 3 tokens |
| `MCPasskeys` | Do overlapping ceremonies, renames and removals keep redeemed challenges gone, removed passkeys removed, sessions backed by a passkey, counters acceptable and a last passkey in place? Yes, the last unless two removals overlap. | 1 user, 2 credentials, one of which counts, 2 requests, 3 ceremonies |
| `MCAurumControl` | With failing disk, database and process: do both tables agree, are rows true, does every echoed request_id join or belong to a request that did not succeed, does a stop arrive? Yes. | owner and viewer, 2 requests, 3 actions |
| `MCPolledReads` | One audit row per process lifetime, neither two nor, unless it failed, none? Yes. | 2 endpoints, 3 requests, 2 lifetimes |
| `MCBrokerAdapters` | Whatever races the timer, the kill and a dying runner: is the answer what the broker said, is nothing left behind it, is every call answered (`ImplementsCall`)? Yes. | 2 calls, all three settings |
| `MCBrokerAccounts` | Do switches, tests, connects and deletions that overlap around slow calls keep each other's writes, their audit rows and deletion, and does every request end when the pool is full? Yes. | member and viewer, 1 account, 2 requests, pool of 1 or 2, 1 check, one kind of failure |
| `MCBrowserSession` | Does a tab by itself ever trip reuse detection, is its cookie usable when all is quiet, is it signed out for a reason only, and does every call end? It never does; yes; each but for what a sign-out-all left in the jar. | 1 tab with 2 calls, 2 requests to `/auth`, 3 tokens; pages go on until two kinds of upset happened, users until one did |
| `MCBrowserSessionReturn` | violated: a returning user's page load ends signed out | same |
| `MCTradeHistory` | While trades of any age arrive: are the pages disjoint and in order, are holes explained by page ends, does a report's second half hold what the first counted? Yes. | 1 instrument and null, pages of 2, 3 days, 4 trades |
| `MCTradeHistoryFull` | violated: the trade at a page's end is on no page | pages of 1, 2 days of 2 ticks, 3 trades |

TLC checks the type invariant of `JournalEtl`, with the ceiling of the backoff; those of all
modules are proved for every value of the constants.
`CheckpointForward` is part of `JournalMirror` and proved by itself.

**Why the bounds are enough to be interesting.** Two files are what a checkpoint moving from
one to the next needs, with two lines one batch can be full and the next one partly filled,
or a line can be read before and after a failure. `MCJournalEtlLive` leaves out lines that
carry an event_id to stay small: they are what a line without one is, less the line number
in its id. Two requests are what overlaps in pairs;
every hazard listed for the handlers is one between two. Three tokens allow a token, its
successor and a second login or a second successor. Three ceremonies allow two registrations
and a login, or one registration and two logins. Three control actions allow a pause that
overlaps a resume, and a stop. One account is what requests collide on, and the connect that
creates it and the deletion that ends it happen in the same behaviour; a pool of one is full
with one slow call. Two calls are the one that starts a refresh and the one that waits for
it, and two requests to `/auth` the shared refresh beside a silent one, a sign-in or a
sign-out; several tabs share the jar only, and the theorems about `BrowserSession` hold for
any number of them. `PageUpsets` and `UserUpsets` bound how many kinds of upset may have
happened before the pages and the user begin nothing more; the conclusions of the properties
are about behaviours without any, the liveness about all. Four
trades on pages of two allow a full page, a cursor, and a trade that arrives above or below
it before the page is fetched again. That a rotation keeps
the user (`RotationAtomic`) is tested by no run, since they have one user; it is proved. The
theorems below remove the bounds for safety.

**Symmetry.** Requests are interchangeable; `Permutations(Reqs)` is used in the runs of
`Passkeys`, `PolledReads` and `RefreshTokens`, which have no liveness properties.

**Deadlock** is not checked for `RefreshTokens`, `BrowserSession`, `Passkeys`,
`AurumControl` and `TradeHistory`: when their bounds on tokens, ceremonies, actions and
trades are used up and every request has answered, nothing need be left to do. The others
never stop, and there deadlock is checked.

**Fairness.** `JournalEtl!FairSpec` has weak fairness of the task's own steps only: the event
loop runs a task that is ready, and sleeps end. Nothing is promised of the database, the
runner or the operator; `EventuallyIngested` is conditional on the database staying up and
the process staying alive, and excepts lines behind one that fails to insert. `AurumControl!FairSpec` has weak fairness of the runner's two
polls, which it does at every iteration; the handlers have none, since a client may go away.
`BrokerAdapters!Spec` has weak fairness of the adapter's steps, its timer included, and of a
killed process ending; nothing is assumed of the runner or the broker, and calls are answered
all the same. `BrokerAccounts!Spec` has weak fairness of a request's steps, the answer of the
broker among them (what `ImplementsCall` shows), and strong fairness of its write, because
PostgreSQL serves those who wait for a row lock in turn; no failure is assumed to happen.
`BrowserSession` has weak fairness of the backend's steps, of deliveries and of the 50 ms
timer, and strong fairness of a call's 401, which waits out a settled promise; users need
not do anything.

## Where code and documents disagree

With a run that shows it:

- **A returning user** (`client.ts:49`, `providers.tsx:21`). "On first mount, attempt a silent
  refresh so a returning user lands authed." The mount's refresh goes through `apiUnauthed`;
  the 401 of the first query starts `refreshOnce` beside it, with the same cookie. The second
  to be read finds the token revoked, reuse detection revokes every session, and the tab ends
  without a token. `MCBrowserSessionReturn`.
- **The row at a page's end** (`api/aurum.py:262`, `trades/page.tsx:135`). `next_before` is
  the ts of the first row that was not returned, and the next page asks for `ts < before`:
  that row, and every row of its ts, is on no page of the "full history".
  `MCTradeHistoryFull`; `HolesExplained` says that nothing else is lost.

Seen while modelling, without a run of their own:

- **Late appends** (`journal_etl.py:227`). The comment at 15-18 walks all files because two
  files of one day were seen when the clock was off; the pass starts at the checkpoint's
  file, so what is appended to an older one later is never read. `LateAppends` is a constant
  of `JournalEtl`; the runs and `CheckpointCovers` have it FALSE.
- **A rejected row** (`journal_etl.py:129`, `docs/integration_aurum2_to_platform.md:94-98`
  "never blocks newer lines"). A line that parses but cannot be inserted (a NUL in a string,
  NaN in the payload) makes its file fail in every pass, and no later file is reached.
  `EventuallyIngested` excepts what such a line stands in the way of (`Obstructed`) and
  nothing else.
- **Concurrent rotation** (`auth.py:518`). The token is read without a lock and the UPDATE
  does not re-check it: two requests with one cookie may get a successor each, and no reuse
  is noticed ("rotate on every use", `auth.py:9`).
- **Logout-all** (`auth.py:625`). The bulk UPDATE does not see the successor that an
  overlapping refresh commits ("every refresh token", `auth.py:619`).
- **A cookie that is not cleared** (`auth.py:642`, `534`, `548`). `logout_all` clears the
  cookie on the response it was given and returns a new one, and FastAPI does not carry the
  headers of the first over: the revoked cookie stays in the browser that asked, and so does
  the tab's access token, although the settings page says "You'll be signed out." The
  browser's next refresh presents the cookie and is taken for reuse (`auth.py:519-535`), which
  also revokes the sessions the user has opened since, on this device or another; the answer
  to that is an AuthError, whose response replaces the one `_clear_refresh_cookie` acted on,
  so the cookie outlives that too. `NoReuseByItself`, `JarUsable` and `SignedOutForAReason`
  except tokens that are `LeftBehind`: revoked after a sign-out-all, and neither exchanged
  nor signed out by themselves.
- **Audit of refusals** (`broker.py:6` "every endpoint writes audit_log on both success and
  failure"). The 403 of a VIEWER, the 404 of an account that is not there or not one's own, and
  every 500 leave no audit row.
- **The last passkey** (`me.py:120`). The count is read before the delete and nothing is
  locked: two removals may both see two ("cannot remove last passkey", `me.py:133`). That is the
  only way: `LastPasskeyKept` excepts users with two such removals and nobody else.
- **Timeline** (`control.py:109`). Of two control requests that overlap, the one with the
  later timestamp may have changed the file first ("reconstruct exactly who triggered what",
  `control.py:4-6`).
- **"Never raises"** (`base.py:75`). `test_connection` raises ProcessLookupError when the
  process is gone as the timer fires (`mt5_adapter.py:130`), OSErrors of
  `create_subprocess_exec` other than FileNotFoundError, and ValueError or KeyError at an
  OANDA body that is not the expected JSON. The request then ends with 500 (`Escapes`).
- **An outdated switch** (`broker.py:442`; `frontend/.../brokers/[id]/page.tsx:193` "won't be
  used for live data fetches"). A switch whose image another switch has outdated writes only
  what differs from that image, so `is_active` and `deactivated_at` may disagree after it;
  and a read that began before a deactivation still asks the broker. `SwitchHolds` excepts
  exactly the first.
- **VIEWER** (`README.md:308`). The two reads of broker accounts do not call
  `_require_writer`.
- **Load more** (`trades/page.tsx:398-487`). A block that the filters leave empty renders
  nothing, its button included, although older pages may match.
- **A page fetched again.** When trades newer than a cursor arrive, the rows they push out of
  a block that is fetched again are in no block (`HolesExplained`, last disjunct).
- **Two snapshots** (`api/aurum.py:306-325`). `per_instrument` may hold trades that
  `n_trades` does not count; never the reverse (`SummaryGrouped`).

Limits that the properties state openly: `JoinsAllThree` excepts requests that failed after
the file was changed (nothing undoes the file); `ReadersAudited` excepts pairs whose row was
lost (the pair stays in `_AUDIT_SEEN`); `OneRowPerLine` and `CheckpointComplete` need the
assumptions named below; `RedeemedIsSpent` speaks of requests that come after, since two
that overlap may both GET a challenge before either deletes it.

## Proofs

All theorems hold for every value of the constants that satisfies the named assumptions of
the module. Bounds on files, tokens, ceremonies, actions, checks and trades are arbitrary, so
the bounded action guards do not restrict the argument.

| Module | Theorem | Says | Assumes |
|---|---|---|---|
| `JournalEtl_proofs` | `TypeCorrect` | `TypeOK` | |
| | `CheckpointDurable` | `CheckpointIsDurable` | |
| | `CheckpointNeverBack` | `CheckpointForward` | |
| | `CheckpointCovers` | `CheckpointComplete` | `~LateAppends` |
| | `ReplayIdempotent` | `OneRowPerLine` | `~TornWrites` |
| | `MirrorImplemented` | `ImplementsMirror` | `~LateAppends` |
| `Sessions_proofs` | `TypeCorrect`, `RotationIsAtomic`, `RevocationsAudited`, `RevokeAllHolds`, `RevocationIsFinal` | `RefreshTokens`: `TypeOK`, `RotationAtomic`, `RevocationAudited`, `RevokeAllCovers`, `RevokedForever` | |
| | `BrowserTypeCorrect`, `NeverReuseByItself`, `JarStaysUsable`, `WaitersAreServed`, `SignedOutRightly` | `BrowserSession`: `BrowserTypeOK`, `NoReuseByItself`, `JarUsable`, `WaitersHaveRefresh`, `SignedOutForAReason` | "left" is no tab |
| | `BrowserUsesBackend` | `BrowserSpec` implies `Spec` of `RefreshTokens`, so the theorems about the table hold of the composition | "left" is no tab |
| `Passkeys_proofs` | `TypeCorrect`, `SpentChallenges`, `RemovalIsFinal`, `SessionsNeedPasskeys`, `NeverLockedOut`, `LastPasskeyIsKept` | `TypeOK`, `RedeemedIsSpent`, `RemovedStaysRemoved`, `SessionNeedsPasskey`, `NotLockedOut`, `LastPasskeyKept` | |
| `AurumControl_proofs` | `TypeCorrect`, `TablesAgree`, `RowsCorrect`, `EchoesJoin` | `TypeOK`, `RowsTogether`, `RowsAreTrue`, `JoinsAllThree` | |
| `PolledReads_proofs` | `TypeCorrect`, `AuditedAtMostOnce`, `ReadersAreAudited` | `TypeOK`, `OneRowPerProcess`, `ReadersAudited` | |
| `BrokerAdapters_proofs` | `TypeCorrect`, `AnswersAreTruthful`, `NoneLeftBehind`, `ShutdownFirst` | `TypeOK`, `Truthful`, `NoProcessLeft`, `AnsweredAfterShutdown` | |
| | `CallSteps` | `Spec` implies `Call!Init` and `[][Call!Next]`: the safety half of `ImplementsCall` | |
| `BrokerAccounts_proofs` | `TypeCorrect`, `SwitchKept`, `VerificationKept`, `ChecksAreAudited`, `DeletionIsFinal` | `TypeOK`, `SwitchHolds`, `VerificationHolds`, `ChecksAudited`, `DeletedStaysDeleted` | some user, some account |
| | `BrokerUsedAsPromised` | `Spec` implies `Broker!Init`, `[][Broker!Next]` and that a request has a call open exactly while it is `calling` | no failure is named "none" or "asked" |
| `TradeHistory_proofs` | `TypeCorrect`, `PagesAreOrdered`, `HolesAreExplained`, `ReportsAreGrouped` | `TypeOK`, `PagesDescend`, `HolesExplained`, `SummaryGrouped` | |

The arguments:

- **JournalEtl.** The checkpoint's file is complete only when a pass has left it, so the
  invariant says how far the current pass has got: everything in the files before `path`, and
  in `path` the lines before `next`, is in `events`, `txn` or `batch`, and a file that is not
  the newest no longer grows. At a commit `batch` is empty, so the checkpoint may move. With
  late appends the last conjunct fails; with torn writes an id depends on the pass, so
  `ReplayIdempotent` needs whole lines. For the refinement, `OriginInv` adds that every row
  comes from a line of the journal that parses: a step of the runner is then a `Grow`, a
  COMMIT a `Copy`, and everything else a stutter of `JournalMirror`.
- **RefreshTokens.** `RequestOK` says what a request in each stage may rely on while others
  run: the row it read still exists, its successor has no row yet, and the targets of a bulk
  UPDATE that it does not write itself are already revoked. It survives the steps of others
  because rows only move forward (`Advances`).
- **BrowserSession.** None of the properties is inductive by itself, because the jar, the
  promises and the rows are brought together by messages. `BrowserInv` has `SessionInv` for
  the table; for each tab, that its promise is pending exactly while its one shared refresh
  is under way (`WaitersHaveRefresh`, `SharedOnce`); and `Calm`, which holds while `upset` is
  empty. `Calm` says that requests under way carry the cookie the jar still has, and that
  several of them are under way only when that is none (`CookiesCalm`); that the token in the
  jar is live, or `LeftBehind`, or its successor is in an answer that is coming (`JarCalm`);
  that every reuse detected so far was of a token left behind (`AuditCalm`); what a handler is
  doing and what an answer brings (`ServedCalm`, `AnsweredCalm`); and that a settled promise
  agrees with the jar (`PromisesCalm`). So a handler that is given a cookie is alone with it and
  finds it live or left behind, and only of the latter detects a reuse (`SignedOutBySpentJar`);
  a commit makes live what its answer carries, and a sign-out-all leaves behind what the jar
  holds; and a failed answer means that the jar was empty or held such a token. A token left
  behind stays so, because an exchange or a sign-out would need it live (`LeftKept`). `upset` only grows, so a step that ends calm
  began calm. Any number of tabs, calls and requests is covered.
- **Passkeys.** `Sound` says what a request knows: its challenge is out of Redis once it has
  deleted it, and a row it has written, and therefore locked, is still the one it read.
  `LocksExclude` (no two requests have written the same key) makes that survive the commits
  of others. Ids grow, so a removed id is never given again. For `NotLockedOut`, `CountInv`
  bounds the count in an answer, then in the image a login will write, then in the row by
  `DeviceCount`, a cardinality that only grows (`DeviceCountGrows`): it does not matter which
  of two overlapping logins writes last. For `LastPasskeyKept`, `RemovalInv` has for each
  removal past its check another passkey of the user (`KeepsOne`), and that an image's owner
  is the stored row's as long as the id is (`ImageFits`): then no commit but a removal's own
  takes a passkey from a user, and removals that do not overlap are of the same one.
- **AurumControl.** A request past its effect is in `took`; every echoed id is one whose file
  was changed, and such an id is in progress, recorded or unanswered in every step.
- **PolledReads.** A pair in `_AUDIT_SEEN` has a row, or exactly one request about to write
  it, or is lost.
- **BrokerAdapters.** Four facts of each call, none of which holds without the others: where
  the process can be at a stage (`ProcFits`), that an exit code of 0 means the session is
  closed (`SessionFits`), that output follows the verdict (`OutputFits`), and the answer
  (`ResultFits`). A call is untouched by the steps of another (`OthersKept`). `CallSteps`
  needs `ResultFits`: a step of the subprocess must be a stutter of `CallState`.
- **BrokerAccounts.** A request may rely, between its flush and its commit, on the row being
  there and locked by nobody else (`LockedOnce`, `WrittenFits`), and its UPDATE names exactly
  what its image and its assignments differ in. So a commit writes only its own columns, and
  an image that is current for them leaves what `switch` and `found` remember. `RowsRead` and
  `ConnectsFresh` keep a deleted id deleted: only a connect makes a row, under an id of its
  own. `CallFits` gives `BrokerUsedAsPromised`: the call `Load` makes is always free, so the
  guard of `Broker!Ask` takes nothing from the handlers. `BrokerUsedAsPromised` and
  `CallSteps` meet at `BrokerCall`: one says what is asked of it, the other that the adapters
  give it.
- **TradeHistory.** `Taken` says how a cursor came about: at some moment its page held the
  newest rows before the page's own cursor, `PageSize` of them. The table only grows, so when
  the page is fetched again at least as many rows lie above that cursor, and the newest
  `PageSize` of them all do (`Refetched`, an argument on cardinalities).

Only model-checked: the liveness properties (`EventuallyIngested`, `StopHonoured`,
`StopReached`, `EveryRequestEnds`, `CallsEnd` and the fairness in `ImplementsCall`), because
the prover has no rules for fairness and ENABLED. Every invariant and every action property
of the runs is proved.

## Not modelled

- Equity bars and the age of the snapshot: one statement, or one read of a file that its
  writer replaces atomically, without state of their own. Their results depend on nothing
  that interleaves.
- Other browsers of the same user: `BrowserSession` has one. A sign-out-all, or a reuse that
  one browser trips, revokes the cookies of the others, which then meet the same end.
- The control panel: it renders the polled state and disables its buttons while a request is
  under way; the requests themselves are `AurumControl`.
- The append-only triggers of `alembic/versions`: no endpoint updates or deletes an audit row
  or a user, so no behaviour of the program meets them.
- `get_positions` and `get_tick` of the adapters: no endpoint calls them, and they take the
  path of `get_account_info`.
- A crash of the backend during broker requests: PostgreSQL rolls their transactions back and
  nothing else is kept, which `Abort` covers for the tables.
- Encryption (`core/crypto.py`, a wrapper around libsodium's SecretBox), configuration, error envelopes,
  health probe and rate limits (stateless or inside slowapi), the owner seed and deployment
  files, layout and styling of the frontend, the code of the aurum_2 runner and of the brokers
  (external).

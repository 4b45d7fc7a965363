# dyndns: verification project

`dyndns` keeps the DNS record of a host at the addresses the host has. A worker
looks the addresses up at an interval, compares them with a history table,
sends an update to a DynDNS provider when they changed, and records what it
sent. An HTTP API sets the configuration, lists the history and authenticates
its clients. This directory holds TLA+ models of the parts that decide what is
published and recorded, TLC runs over small instances, and TLAPS proofs.

Paths below are relative to the repository (`src/` first, as in `PROJECT.json`).
The repository has no tests and no design documents: the code and the SQL
migrations are the only reference.

## 1. Inventory

The process is one tokio runtime with a single thread (`src/src/main.rs:32`):
tasks interleave at every `.await`, and nowhere else. SQLite statements run on
blocking threads (`conn.interact`), each on its own; the code opens no
transaction. The release build aborts on panic.

| Component | State | Operations | Talks to |
|---|---|---|---|
| Scheduler loop (`dyndns/scheduler.rs`: `new`, `run`, `wait`) | `interval_secs`, the timer, two watch receivers | load the interval, start a cycle, wait for a tick, a new interval or the shutdown | table `dyndns`, watch channels |
| Update cycle (`execute_cycle`, `persist_history`) | the loaded configuration and history, results of the checkers | load, check, update, persist | tables, checkers, updater |
| Checkers (`dyndns/checker`) | none between cycles | `check` | lookups |
| Lookups (`dyndns/lookup`) | none | list the interface, ask an echo service | network |
| Updater, HTTP client (`dyndns/updater.rs`, `dyndns/http_client.rs`) | attempt number, delay | `apply`, `update`, `send_async` | provider |
| Configuration API (`api/dyndns.rs`) | table `dyndns` | GET, POST, PUT | table, interval channel |
| History (`db/models.rs`, `api/history.rs`, `db/pagination.rs`) | table `history` | insert, latest row, pages | table |
| Authentication (`auth/`, `middleware/auth.rs`, `api/auth.rs`) | tables `refresh_tokens`, `auth_secrets` | login, refresh, logout, check a token | tables |
| Process (`main.rs`, `config.rs`, `db/migration.rs`) | the two watch channels | start, migrate, serve, drain, stop | everything |

What is hard, and what must be true of each part:

* **Update cycle.** Three stores must agree without a transaction over them:
  the provider's record, the history, and the addresses. The provider may apply
  a request whose answer is lost; an insert may fail after it; the process may
  die; addresses and configuration change while a cycle is under way. What must
  hold: the history is a chain of real changes; it names what the provider has,
  wherever no update went unrecorded; nothing is sent that is already recorded;
  in the end the current addresses are recorded and published; a cycle ends.
* **Checkers.** An IPv6 row has two lists. An address is *known* when either
  lists it, so whether it is sent depends on several cycles in a row.
* **Scheduler loop.** Two nested `select!`s with a random choice among ready
  branches, a timer that a new interval replaces, a channel that is written
  when nobody waits for it, a shutdown that arrives in the middle of a cycle.
* **Configuration API.** Check-then-insert and write-then-send, both
  interleaved with other handlers, and with a client that goes away.
* **Authentication.** Find-check-delete-create over a table without a
  transaction: concurrent refreshes and logouts, a failure in the middle,
  expiry at a boundary.
* **Pagination.** Arithmetic on numbers of the client's choice; a total that is
  read from the rows of the page.
* **Migrations.** Tables rebuilt by copying; down scripts.

`PROJECT.json` lists every component, and under `hazards` each of these
difficulties at the line where it bites.

## 2. Modules

| Module | What it is | Code |
|---|---|---|
| `IpCheckers` | pure operators: what the checkers answer | `dyndns/checker/*.rs` |
| `UpdateCycle` | the cycle as a state machine with network, provider, tables, configuration changes, faults and crashes; instantiates `IpCheckers` | `scheduler.rs`, `updater.rs`, `http_client.rs`, `lookup/*.rs`, `History` in `models.rs` |
| `Publisher` | what a cycle promises of the addresses it publishes and records: the abstract specification that `UpdateCycle` implements | the same, seen from outside |
| `UpdateCycleProofs` | theorems about `UpdateCycle`, the refinement among them | |
| `HttpClient` | one exchange with a peer: attempts, delays, the connect timeout, the body | `http_client.rs`, `lookup/http.rs`, `updater.rs` |
| `ConfigApi` | POST and PUT handlers, the table `dyndns`, the interval channel | `api/dyndns.rs`, `DynDNS` in `models.rs` |
| `SchedulerLoop` | the worker's loop and the process around it; extends `ConfigApi`, whose handlers run against it | `scheduler.rs`, `main.rs` |
| `Dyndns` | the composition: extends `SchedulerLoop`, whose loop runs the cycles of an instance of `UpdateCycle` on the row the handlers wrote | `scheduler.rs`, `main.rs` |
| `SchedulerLoopProofs` | theorems about `ConfigApi` and `SchedulerLoop` | |
| `DyndnsProofs` | theorems about `Dyndns`; builds on `SchedulerLoopProofs` and an instance of `UpdateCycleProofs` | |
| `RefreshTokensProofs`, `HistoryPagesProofs`, `MigrationsProofs`, `HttpClientProofs` | theorems about the module of that name | |
| `RefreshTokens` | login, refresh and logout on the table of refresh tokens, with the life of access tokens | `auth/manager.rs`, `auth/token/*.rs`, `api/auth.rs`, `RefreshTokenRecord` in `models.rs` |
| `Sessions` | what login, refresh and logout promise of a session's tokens: the abstract specification that `RefreshTokens` implements | the same, seen from outside |
| `AuthSecret` | processes that start on one database and come by the secret that signs access tokens | `AuthSecretRecord` in `models.rs`, `auth/manager.rs`, `main.rs` |
| `AuthSecretProofs` | theorems about `AuthSecret` | |
| `HistoryPages` | pages of the history as operators over integers of a width, read one by one while rows are inserted | `db/pagination.rs`, `api/history.rs`, `History` in `models.rs` |
| `Migrations` | up and down scripts, run by several processes | `migrations/`, `db/migration.rs`, `db/schema.rs` |
| `MC*` | the instances: symmetry sets, and what the requests of `dyndns` carry | |

### UpdateCycle

A step is what the task does between two awaits. `pc` says which await it is
in: `config`, `hist4`, `hist6` (the three loads), `check` (the join of the two
checkers, whose own positions are `pc4` and `pc6`), `update` (a request to the
provider), `persist4`, `persist6` (the two inserts), and `idle` between cycles.
`cfg`, `prev4`, `snap6`, `res4`, `res6` are the locals of `execute_cycle`;
`EndCycle` drops them, as a return does. `attempt` is the attempt of
`send_async` under way.

* The database is `conf` (the row of `dyndns` or `None`) and the two histories
  `hist4`, `hist6`: sequences of rows in the order of their ids. The table has
  both families in one id sequence; every query filters on the version, so they
  are kept apart. A row carries a `host` that is no column of the table: it
  remembers for the properties where the row's update went.
* The network is `ext4` (what the echo service sees) and `iface6` (the
  interface's addresses without the link-local ones). Both may change between
  any two steps, also between the listing of the interface and the external
  lookup. A change of the configured interface is such a change for the cycle.
* The provider is `dns4`, `dns6`: its record of every host. `Apply` is what a
  request does to it, if it does. `RequestFails` and `AnswerNotGood` let the
  provider apply the request or not.
* Addresses are model values; a list of IPv6 addresses is a set, since the code
  tests only membership, emptiness and "exactly one". Formatting and parsing of
  addresses is not modelled: what is written to a row is what was printed from
  an address, and reading it gives that address back.
* `ahead4`, `ahead6` are history variables: the provider applied an address
  of this family after the family's last row was written. That is the gap
  the code leaves between an update and its row, and the properties name it
  instead of hiding it.

`Publisher` has only what a reader of the provider's records and of the history
sees: `told4`, `told6`, `log4`, `log6`, and `due`, what the provider has
acknowledged and the log has not got yet. Its steps are a publication of a
change, the logging of what is due, first IPv4, and the loss of what is due. The
refinement mapping takes the provider's records and the tables for themselves;
`due` is `Acknowledged`, the results of a cycle that is in `persist_history`. A
request whose answer is lost is a publication with nothing due after it, a failed
insert or a crash is a loss.

### HttpClient

`send_async` is a loop of `max_attempts - 1` attempts with one more behind it,
and a pause in between that doubles. Time is in units of 200 ms, the initial delay
the code asks for; `phase` is what the client waits for: the connection, the
response, the pause, the body. `timer` is the time since the phase began; it
only runs in a phase the client bounds, since the time a silent peer takes
has no influence on the client. `waited` is a history variable, the sum of those
times. A response of whatever status ends the attempts; its body is read by the
caller, which does not try again.

`UpdateCycle` has an exchange of the provider as one step per attempt and one of
an echo service as one step.

### ConfigApi and SchedulerLoop

Each request of `Requests` is made once, as a POST or a PUT with an interval of
the model's choice, and `req[r].at` is where its handler is. `rows` is the table
in the order of its ids: the first row has id 1, which `UPDATE ... WHERE id = 1`
and `SELECT ... LIMIT 1` both mean, while `REPLACE INTO` without an id always
takes the next one. `chan` is the watch channel with its version, and the sender
of its value. `untold` is a history variable, the PUTs of which the worker may not
hear: those whose client left before the send, and those that wrote after another
PUT had written and before it sent. A restart empties it, since the worker then
reads the table.

A handler whose client disconnects is dropped at the await it is in. A statement
it awaited has been handed to a blocking thread, which the drop does not stop: in
the phases `insertLeft` and `writeLeft` the statement is still to run, at any later
time, and nothing follows it. The server does not wait for it when it drains.

In `SchedulerLoop`, `elapsed` counts seconds since `start_time`, `deadline` is
what `interval.tick()` waits for, `seen` is the version `interval_rx` has seen.
`Tick`, `SeeInterval` and `SeeShutdown` are the branches of the two selects, any
of which may be taken when several are ready. `process` follows `main`: serving,
draining (axum's graceful shutdown), notified, exited; `Restart` starts it anew
with the table as it is. The default interval is a constant, 10 as in the code
except in the run of `Dyndns`.

### Dyndns

`Dyndns` puts the two halves of the worker together. The loop is at `pc`, the
cycle within it at `step`; `conf`, which `UpdateCycle` has changed by its
environment, is the first row of `rows` without its interval (`Settings` says what
the body of a request has beside it). A cycle starts only from the loop's top, its
steps are only taken while the loop is in `execute_cycle`, the loop goes on only
when they are over, and a cycle is cut off only by a `Restart`. So the three
properties can speak of both: what a shutdown may interrupt, how old the record may
become, and what the requests of clients lead to in the end. `unrecorded` is a
history variable: for how many seconds the latest row has not been the host's
address, counted anew from a change of the address, the configuration or the
interval, from a fault and from a restart.

### RefreshTokens

A handler reads the clock when it begins (`now`) and then awaits one statement
after the other; `at` is the statement it awaits: `find`, `drop` (the expired
token), `delete`, `clean` (the `delete_expired` that ends `rotate` and `revoke`),
`sweep` and `insert` (of `create`). `refresh` runs through all of it, `login`
begins at `sweep`, `logout` ends at `clean`. A client presents any token that
was ever in an answer, also one that is spent or expired; a token that was in no
answer is not presented, and credentials are right (a request with wrong ones
is answered before it touches the table).

A token is a selector and a verifier. Verifiers are hashed in the table and are
long enough not to repeat: a verifier is the request that made it. Selectors may
be drawn again, also one whose row is gone; an `insert` that meets the same
selector in the table is the `UniqueViolation` at which the loop draws anew.
`session` is the login a token descends from. `spent` and `overlapped` are
history variables: the tokens whose row a request deleted after it had verified
them, and the sessions of which two requests were under way at once.

A handler whose client leaves is dropped as in `ConfigApi`: `gone` is one whose
statement is still to run, after which it ends. A session's requests do not count
as overlapping with such a handler, since its client thinks it is over.

`Sessions` has only the tokens: `stored`, those that can be presented, `due`, those a
handler is about to store, and `used`, those that were ever due. A session opens
with a login; a token that is due is stored when no other one of its session is;
the next one becomes due while one is stored and none is due; tokens go away at any
time. It has no clock, no statements, no selectors and no clients. In the refinement
mapping `stored` are the rows, `due` is `Owing`: the requests that log in, or have
found and verified their token, up to their `insert`, also to one that was left
behind. The mapping hides the sessions of `overlapped` (`raced`), of which
`Sessions` promises nothing more than that their tokens are new.

Access tokens have no state: `Accepts` says whether one is accepted at the
current time. The clock counts parts of a second, since an expiry is truncated
to a second. That a token is expired when its `exp` is smaller than the current
second is what the JWT library does with a leeway of 0.

### AuthSecret and Migrations

Both are about processes that start on one database, which nothing prevents: a
container and its successor on one volume. In `AuthSecret`, `secret` is what
`load_or_create` has in hand, and later the key. In `Migrations`, `next` walks
the list of pending migrations a process made when it started; the harness of
diesel, which is external, runs a script and records its version in one
transaction, so that a script whose version another process has recorded is
rolled back. A failed script, like the second insert of a secret, is a panic at
start (`main.rs:37`, `main.rs:41`). `Revert` stands for diesel's command line, the only
user of the down scripts, run while no process is. `Create` and `Update` are what
a POST and a PUT of a serving process do to the rows, by whether the interval is the
default one. `IntervalsKept` is about the steps of a process that goes through its
list: none of them resets an interval of a database that was not reverted.

### HistoryPages

A row is its rank in `updated`, the default sort key. `Offset`, `Records` and
`Total` are what `Paginated` and SQLite's `LIMIT` and `OFFSET` compute, on integers
that wrap, since the release profile has no overflow checks. `Half` is the first
number an `i64` cannot hold, 2^63 in the code; a `usize` is below `2 * Half`. The
table has fewer rows than that, since ids are `i64`.

## 3. Runs

| Run | Checks | Bounds |
|---|---|---|
| `cycle_v4` | `History4Chain`, `MirrorsProvider`, `Ipv4RecordedFirst`, `Publishes` | 2 IPv4, 1 IPv6 address, 2 hosts, 3 attempts, 3 changes, 3 faults |
| `cycle_v6` | `IInv`, `History6Chain`, `UpdateOnlyOnChange`, `Publishes` | 1 IPv4, 3 IPv6 addresses, 2 hosts, 3 attempts, 3 changes, 2 faults |
| `cycle_liveness` | `Ipv4Recorded`, `Ipv4Published`, `Ipv6Recorded`, `CycleEnds` | 2 IPv4, 2 IPv6 addresses, 1 host, 2 attempts, 2 changes, 2 faults |
| `loop_safety` | `PeriodPositive`, `Punctual`, `PutNotUndone`, `OrphansComeFromRaces`, `ToldOfServed` | 3 requests, intervals 1 and 3, cycles up to 4 s, 1 failure, 1 restart |
| `loop_liveness` | `FollowsTable`, `ShutsDown`, `KeepsCycling` | 2 requests, intervals 1 and 3, cycles up to 2 s, 1 failure, 1 restart |
| `http_client` | `BacksOff`, `EveryAttemptMade`, `OnlySilenceHolds` | 0 to 4 attempts, delays of 0, 200 and 400 ms, capped at 1.2 s |
| `dyndns` | `GracefulExit`, `Fresh`, `EndToEnd` | 2 requests, interval 1, default 2, cycles up to 1 s, 2 IPv4 addresses, 1 attempt, 1 change, 1 fault, 1 restart |
| `refresh_tokens` | `TypeOK`, `UsedOnlyWhileStored`, `OneTokenPerSession`, `LogoutEnds`, `ValidRowsKept`, `AccessLife`, `ChainOfTokens` | 4 requests, 2 selectors, access tokens of 1 s, refresh tokens of 2 s, half seconds up to 2 s, 1 failure |
| `auth_secret` | `SignaturesLast`, `SecretKept` | 3 processes, 4 secrets |
| `history_pages` | `PageIsSlice`, `WalkMissesNothing` | `Half` = 16 (integers of 5 bits), 7 rows, every page size |
| `migrations` | `StartsAnywhere`, `ServesCurrent`, `IntervalsKept` | 2 processes, 2 rows |
| `migrations_down` | `DownUndoesUp`: violated | 1 process |

Why the bounds are enough for what is asked:

* An IPv4 decision compares one loaded and one current address: two addresses
  give every case, with a change and a change back. Three IPv6 addresses give
  one in each column of a row and a new one, and lists of several new
  addresses (the external lookup) as well as of one.
* Three changes let an address leave, come back and the configuration change in
  one behaviour; two faults let an answer be lost and the insert after a later
  update fail, three let every attempt of an update fail. `MaxAttempts` is the code's 3, except in the liveness run and in `dyndns`.
* Three requests: a POST that found no row, another one that inserted it, and a
  PUT after it; the failure lets the first one's client leave. Intervals of 1 and 3 with cycles of up to 4 seconds
  give cycles that are shorter and longer than the interval; with the default
  of 10 an interval may also shrink below the time already elapsed.
* The five numbers of attempts are none and one (both make one), two, the code's
  three, and one more, whose pause reaches the cap; a delay of zero is a case
  of its own in the code. The connect timeout is the code's 5 seconds.
* In `dyndns` the interval of the table is shorter than the one the worker starts
  with, and two requests, a POST and a PUT or two of a kind, change it while the
  cycle runs. IPv6 addresses and failing handlers are left out for the sake of
  liveness: the IPv6 half of the cycle takes the same awaits, and the handlers'
  failures are in `loop_safety` and `loop_liveness`. What `GracefulExit` says of IPv6
  rests on its theorem here. Without the liveness property an
  instance with an IPv6 address, intervals of 1 and 3 and cycles of 2 seconds (16
  million states) has been checked as well; it takes too long to be kept as a run.
* Four requests on tokens are a login and three on it: two that race and one
  after them, or a chain of refreshes with a logout; or two logins, the second
  of which draws the first one's selector. Two seconds in halves have an access
  token expire, and be accepted on in the second it is truncated to, and the
  refresh token expire at the last instant.
* Of three processes two race for the secret and the third comes late; four
  secrets let every one of them be drawn and one be drawn after a crash.
* 5 bits and 7 rows: every page and page size of the type is tried, tables
  smaller and larger than a page, and offsets inside and beyond the table.
* Every migration is there, and two processes are enough for one with a list
  that is out of date.
* `CHECK_DEADLOCK FALSE` is said where the system really stops: requests that
  are all answered, a process that has exited. The cycle itself never stops and
  is checked for deadlock.
* The liveness runs use no symmetry.

### Fairness

`UpdateCycle.Fairness` is weak fairness of the cycle's ordinary steps: the
runtime polls a task that is ready, and what the task waits for is answered or
fails. The second half is an assumption about the network that the code does not
enforce: the HTTP client has a connect timeout and no overall one
(`http_client.rs:17`), so a peer that accepts a request and never answers it
holds the worker. `HttpClient` says exactly that: it assumes that time passes and
that the client's own timers fire, nothing of the peer, and `OnlySilenceHolds`
leaves the silent peer as the only way for an exchange not to end. Faults are finite (`MaxFaults`), which stands for "failures
do not go on for ever"; for IPv4 no assumption is made of IPv6, which may fail
in every cycle. In particular a request that is answered with anything but
"good" is such a fault: a provider that never says "good" to an update it had
applied already would be asked in every cycle for ever. `Ipv6Fairness` adds strong
fairness of the two IPv6 lookups: a host that has IPv6.

`SchedulerLoop.Fairness` is weak fairness of the worker's and the handlers'
steps, `EndCycle` among them (which `CycleEnds` justifies under the assumption
above), and strong fairness of `SeeInterval` and `SeeShutdown`: `select!` polls
its branches in a random order, so a branch that is ready time and again is
taken. No request and no signal is assumed to come. A handler is assumed to end once
it has begun: the server has no timeout for a slow request body, and drains for as
long as one takes.

`DyndnsFairness` is weak fairness of the loop's steps and of the steps of its cycle.
`UpdateCycle` assumes that a cycle begins again and again, `SchedulerLoop` that a
cycle ends; in `Dyndns` neither is an assumption.

### What the runs show

* The IPv4 history is a chain whatever fails. It and the provider disagree
  exactly after an update that was applied and has no row. The address may then
  return to the recorded one, and the provider keeps the other: this is why
  `Ipv4Published` excepts `ahead4`. The exception is needed: without it
  TLC finds the lost answer followed by a change back.
* The address of a family is published to the host of the configuration the
  cycle loaded. The history does not know hosts: after a change of hostname the
  new one gets nothing until the address changes, which is why
  `Ipv4Published` is checked with one host.
* A row of IPv6 addresses never repeats one of the row before it, and on a
  host with IPv6 every address gets listed. An address that goes away is no change
  for the code, and one that returns while it is still listed is not published
  again: `Ipv6Recorded` promises that it is recorded, not that the provider has
  it.
* Every behaviour of the cycle is one of `Publisher`. That specification has no
  schedule, no attempts and no checkers; it shows that retries, lost answers, failed
  statements and crashes come down to one thing, an acknowledgement that is lost.
* An exchange can only be held by a peer that has accepted the request. The worker
  has no timeout of its own around it: it is then held too, with the shutdown,
  which waits for the cycle. Everything else about an exchange is bounded by its
  pauses and its connect timeouts (`BacksOff`).
* A shutdown never separates an update from its rows, since `execute_cycle` is outside
  of the select. A change of the address is recorded within one interval and one
  cycle of it, or within two cycles when those are longer than the interval; the
  bound of `Fresh` is reached.
* Racing POSTs leave rows that nobody reads; they never undo a PUT.
* The worker follows the table when it was told of the served row (`Told`).
  It is not told by a POST, by a PUT whose client went away between the write
  and the send, or when two PUTs write in one order and send in the other; a
  failed load at launch leaves it at 10 seconds. The next PUT or restart
  repairs each of these.
* From the moment a PUT sends, the channel holds the interval of the served
  configuration, sent by the PUT that wrote it (`ToldOfServed`). A PUT that fails or
  finds no row changes neither. The exception of `untold` is needed: PUTs that
  cross, or whose client leaves, do leave the channel with another interval than
  the table, until the next PUT that crosses no other.
* Intervals count from the start of the last cycle, so neither frequent PUTs nor
  long cycles shift the schedule, and a shutdown is seen in the first wait after
  it unless the tick is ready in that same instant.
* Two refreshes with one token both succeed only when they overlap, since neither
  looks at what its delete deleted; a session has more than one token only
  after such an overlap. `OneTokenPerSession` and `LogoutEnds` say so by excepting
  sessions of `overlapped`, and both fail without the exception. A logout with a
  token that was refreshed before finds no row, is answered like any other, and
  ends nothing: `LogoutEnds` speaks of a logout that found its token.
* A refresh that fails after its delete leaves the client without a token; the
  session then has none. It never has two.
* Every behaviour of the handlers is one of `Sessions`: statements without a
  transaction, failures in the middle, expiry and statements that run after their
  client left come down to tokens that are deleted and exchanges that fail, as long as
  the requests of a session do not overlap.
* An access token outlives its logout by up to its time to live and a second,
  and never the refresh token it came with, which rests on the check in
  `config.rs:112` that the latter lives longer.
* A process that starts late on a database dies rather than serve with another
  secret or on older tables; the one that serves loses nothing by it.
* A client that reads page by page sees rows again when others are inserted, and
  misses none that was there when it began. A page past the end reports a total
  of 0, and a negative page size lists everything on each page. Page 0 and a page
  beyond an `i64` are the first page. `PageIsSlice` excepts a page whose offset
  overflows (`Fits`).
* `migrations_down` shows a disagreement between comment and code. Every down
  script of 2023 begins with "This file should undo anything in `up.sql`"; those
  of the three migrations that rebuild a table have nothing else. After such a
  revert the table is still the new one. The next start works all the same
  (`StartsAnywhere`), but it rebuilds the table once more, and every
  `sleep_interval` falls back to 10, since the copy does not name that column.
  `IntervalsKept` therefore excepts databases that were reverted.

Each property has a mutant in its module (an operator marked `MUTANT`): the
mapped definition changed as a plausible bug would change it, under which TLC
finds the property violated.

## 4. Proofs

Every theorem holds for all values of the constants that satisfy the
assumptions. `UpdateCycleProofs` proves:

| Theorem | Statement |
|---|---|
| `TypeCorrect` | `Spec => []TypeOK` |
| `Inductive` | `Spec => []IInv` |
| `Ipv4HistoryIsAChain`, `Ipv6HistoryIsAChain` | `Spec => []History4Chain`, `Spec => []History6Chain` |
| `HistoryMirrorsProvider` | `Spec => []MirrorsProvider` |
| `NoUpdateWithoutChange` | `Spec => []UpdateOnlyOnChange` |
| `Ipv4RowComesFirst` | `Spec => Ipv4RecordedFirst` |
| `CycleImplementsPublisher` | `Spec => Publishes`, which is `P!Spec` |

Assumptions: `None` is no address, the bounds are natural numbers and
`MaxAttempts` is positive (`HttpClient::new` takes `max(1)` of it).

None of the properties is inductive by itself. `History4Chain` needs to know
that what was compared with the lookup's answer is still the last row when the
new row is inserted, seven steps later. `IInv` says so: `SnapshotFresh` (what
was loaded is still the end of the history, the worker being its only writer),
`PhaseOK` (which locals are set where), `Result4OK` and `Result6OK` (a result
is a difference from what was loaded) and `Published` (after "good" the
provider has what is about to be recorded). `UpdateOnlyOnChange` and
`Ipv4RecordedFirst` follow from it. There is one lemma per conjunct
(`SnapshotStep`, `Result4Step`, ...), with a step per group of actions; the
lemmas on the checkers' operators (`CheckIpv4Type`, `DiffIpv6Type`) carry what
the code computes. `TypeOK` is inductive only together with `PhaseOK`, since a
row takes its host from a configuration that must have been loaded.

The refinement rests on the same invariant. Most steps only drop what is due or
change nothing of `Publisher` (`QuietStep`). That what the provider applies is a
publication of changes (`PublicationStep`) needs `SnapshotFresh`, `Result4OK` and
`Result6OK`: the results are changes of the log as it is now, not only as it was
loaded. That the inserts log exactly what is due (`Log4Step`, `Log6Step`) needs in
addition that the rows' old addresses still are the end of the log.

`SchedulerLoopProofs` proves of any number of requests, first of the handlers by
themselves:

| Theorem | Statement |
|---|---|
| `ApiInductive` | `ApiSpec => []ApiIInv` |
| `NoOrphanWithoutRace`, `OnlyServedIsTold` | `ApiSpec => []OrphansComeFromRaces`, `ApiSpec => []ToldOfServed` |
| `PutSurvives` | `ApiSpec => PutNotUndone` |

`OrphansComeFromRaces` needs `RacersKnown`: once there is a row, whoever still
inserts had found none before (`racing`). `ToldOfServed` needs to
know what a PUT finds when it sends: `SendersServe` says that until then its own
configuration is served, or that of a PUT in `untold`. A write while another PUT is
about to send makes its writer one of `untold`, which keeps that. Most steps only move a handler; `MoveStep` has
what they share.

Then of the loop with those handlers beside it:

| Theorem | Statement |
|---|---|
| `LoopInductive`, `LoopTypeCorrect` | `Spec => []LoopIInv`, `Spec => []TypeOK` |
| `PeriodNeverZero` | `Spec => []PeriodPositive` |
| `NoOrphanAfterRestart` | `Spec => [](OrphansComeFromRaces /\ ToldOfServed)` |
| `PutSurvivesRestarts` | `Spec => PutNotUndone` |
| `WaitsArePunctual` | `Spec => Punctual` |

`RestartKeepsApi` shows that the handlers' invariant survives a restart that
drops them and empties the channel. `PeriodPositive` needs `SentHasRow` (the value of
a version above 0 is an interval of a request), `Punctual` needs `DeadlineOK` (the
deadline is one interval after the start of the cycle, and time in a wait
passes only up to it).

`DyndnsProofs` proves of the whole worker, from the two halves:

| Theorem | Statement |
|---|---|
| `WorkerIsALoop` | `DyndnsSpec => Spec`, the specification of `SchedulerLoop` |
| `WorkerInductive`, `CycleInvariantInProcess` | `DyndnsSpec => []DyndnsIInv`, `DyndnsSpec => []C!IInv` |
| `WorkerPublishes` | `DyndnsSpec => C!Publishes`: the worker implements `Publisher` too |
| `ShutdownIsGraceful` | `DyndnsSpec => []GracefulExit` |
| `RecordedInTime` | `DyndnsSpec => []Fresh` |

Neither half is proved again. A step of the worker is one of the loop by its
definition. For the cycle, `U` instantiates `UpdateCycleProofs` as `C` does
`UpdateCycle`, so that its lemmas hold of the cycle in the worker (the lemmas
`Same...` say that the two are the same state and steps); `CycleView` shows that a
step of the worker is one of the cycle or leaves it alone, or is a write of the
configuration (`ConfChangeKeeps`) or a restart. Three conjuncts relate the halves:

* `CallsOK`: the cycle is under way only while the loop is in `execute_cycle`,
  and a process exits only after its loop.
* `DueOK`: without a fault, what was published and has no row is the result of
  the cycle that is about to insert it. With `CallsOK` that is `GracefulExit`.
* `UnrecordedOK`: how long the address may have been unrecorded at each place of
  the loop. An address that is unrecorded for longer than the cycle has run was so
  when the cycle began, and then the cycle is `OnItsWay`: it has not loaded
  anything yet, or has loaded the configuration that holds, and its checker finds
  the address. Were it not on its way there had been a change or a fault since,
  from which the time counts anew (`UnrecordedGoesOn`).

`RefreshTokensProofs` proves for any number of requests, selectors and failures
and all valid times to live:

| Theorem | Statement |
|---|---|
| `Inductive`, `TypeCorrect` | `Spec => []IInv`, `Spec => []TypeOK` |
| `SessionHasOneToken` | `Spec => []OneTokenPerSession` |
| `LogoutEndsSession` | `Spec => []LogoutEnds` |
| `AccessEnds` | `Spec => []AccessLife` |
| `SpentTokensStaySpent` | `Spec => UsedOnlyWhileStored` |
| `CleanUpKeepsValidRows` | `Spec => ValidRowsKept` |
| `HandlersImplementSessions` | `Spec => ChainOfTokens`, which is `S!Spec` |
| `SessionsStayOver` | `Spec => S!StaysOver` |

That a session has one token says nothing of the request that has deleted the
token and is about to insert another. `PastOK` does: its session has no row and
no other request in its place. For that the row it deletes must be the only one
(`HeldOK`), although it was found some statements before; this is where the session
must not overlap (`OneAtATime`). `LogoutEnds` looks the other way:
whoever comes after the logout presents a token whose row is gone (`LogoutLast`,
`SpentOK`), and finds none. `TokenOK` and `RowsOK` tie the tokens clients hold and
the rows to the requests that made them: selectors repeat, verifiers do not.
`HandlerOK` says which fields a handler has set where. Most steps move one handler
and disturb nothing else; `QuietStep` and `QuietKeeps` prove that once, `FindKeeps`,
`DeleteKeeps` and `InsertKeeps` are the steps that matter. `AccessLife` is arithmetic on
the truncation to seconds (`Seconds`, `AcceptedUntil`).

The refinement needs little more: `GoneOK`, that a handler leaves no statement behind
but one that writes, so that a request that finds its token does owe the next one.
Then there is one lemma per kind of step. A refresh that finds its token takes it
(`FindStep`): it is alone in its session by `OneAtATime`, and an insert that was left
behind would, by `PastOK`, leave no row to be found. The row that is inserted was due
and the session has no other (`InsertStep`, from `PastOK`). A login opens its session
(`LoginStep`), a token that is presented makes its session overlap or changes
nothing (`PresentStep`), and all other steps take rows away or fail (`OtherSteps`).
`WithSessions` and `SettledTokens` compute what the mapping makes of a set of tokens
with one more or one less. `SessionsStayOver` is then read off `Sessions` alone: a
session with no token stored and none due has none ever after.

`MigrationsProofs` proves for any number of processes and rows:

| Theorem | Statement |
|---|---|
| `Inductive` | `Spec => []IInv` |
| `EveryStartMigrates` | `Spec => []StartsAnywhere` |
| `SchemaIsCurrent` | `Spec => []ServesCurrent` |
| `OwnIntervalsStay` | `Spec => IntervalsKept` |

`SchemaOK` says of a table what the scripts that ran let one know: it is there
from its first script on and has its last definition once its last script has run;
in between it may have any, since the down scripts are empty. `ListOK` has a list of
pending scripts begin with the next one or be out of date, and `RowsLast` says
that rows are written only when all scripts ran, so that a script that
rebuilds a table finds rows only after a revert.

`HistoryPagesProofs` proves for integers of any width and any number of rows
they hold:

| Theorem | Statement |
|---|---|
| `Inductive` | `Spec => []IInv` |
| `NoRowMissed` | `Spec => []WalkMissesNothing` |
| `PagesAreSlices` | `Spec => []PageIsSlice` |

`PagesRead` says that the client has the rows that are *now* before the page it
reads next, of those that were there at the beginning. An insert only pushes rows back, so it
keeps that, and `ReadPage` adds a page. The lemmas compute what the casts and
the product of `Offset` come to: `CastKeeps` (an `i64` is what it is cast to),
`CastWraps` (a `usize` from `Half` on is cast to a negative number), `OffsetIs`, and `NextOffset`, for which `WithinTable` is
needed: the next offset does not overflow since the page before it began within the table.

`HttpClientProofs` proves for any attempts, delays, cap and connect timeout:

| Theorem | Statement |
|---|---|
| `Inductive` | `Spec => []IInv` |
| `AttemptsAsAsked` | `Spec => []EveryAttemptMade` |
| `PausesDouble` | `Spec => []BacksOff` |

`DelayOK` says what the delay is at each attempt, the initial one doubled as often or
the cap, and `WaitedOK` what time has passed: the connecting, and the pauses of the
attempts before. `BacksOff` states their sum with two recursive functions, `Power2` and
`Pauses`. The provers cannot instantiate the library's theorems of induction
and recursion, which take an operator; `Least` (the smallest element of a set of
numbers, from `WFMin` and `NatLessThanWellFounded`) is first-order, and from it follow
`Induction`, over a set instead of a predicate, and `Recursion`, that a function with a
first value and a rule for the next one exists. `Power2Is` and `PausesIs`
instantiate it; `AfterFailure` then is the step of the sum. The invariants were checked with
TLC on the runs' instances first, here as in the other modules.

`AuthSecretProofs` proves `Spec => []SignaturesLast` and `Spec => SecretKept` for any
number of processes, from the invariant that whoever is past `load_or_create` has
the stored secret.

The assumptions are the named ones of the modules. Bounds are natural numbers,
intervals and `MaxAttempts` positive (`SleepInterval::new`, `HttpClient::new`), and
`None` is no request, address or secret. `RefreshTokens` assumes what `Auth::validate`
checks at start (`config.rs:106`): lives that are not zero, the refresh token's the longer one. `HistoryPages` assumes that
there are fewer rows than `Half`, `HttpClient` that no initial delay is above the
cap, which is `Duration::MAX` in the code. `Dyndns` assumes that the settings of a request
are a configuration.

Only model-checked:

* The liveness properties (`Ipv4Recorded`, `Ipv4Published`, `Ipv6Recorded`, `CycleEnds`,
  `FollowsTable`, `ShutsDown`, `KeepsCycling`, `OnlySilenceHolds`, `EndToEnd`): they rest
  on fairness, of which the prover knows nothing.

Every other property of the passing runs is stated by a theorem.

## 5. Not modelled

Parsing and formatting of addresses, requests and answers; the filter for
link-local addresses (its result is `iface6`); validation of a request's body;
serialisation; routing, static files, CORS, tracing, logging; the conversions of
errors to answers; hashing of passwords and the Authorization header. Of the
configuration of the process only the check of the times to live is modelled.
The sort keys of the history other than `updated`: they leave the order of equal
rows to SQLite, of which the code says nothing. The connection pool: taking a
connection may fail like a statement; no handler waits for a second connection
while it holds one.

## 6. Plan

Done: the cycle and the abstract specification it implements, the HTTP client, the
configuration API, the loop, its composition with the cycle, the start of
processes, the tokens and the abstract sessions they implement, the pages and the
migrations, all of them model-checked; proofs of every safety property of the
passing runs.

1. An abstract specification of the configuration API in the style of `Publisher`: one
   served row, created once and replaced by PUTs only.
2. The filter for link-local addresses and the joining and splitting of the
   lists of IPv6 addresses in a row.

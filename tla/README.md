# A TLA+ model of nexora-backend

nexora-backend collects energy readings of households ("units") from an MQTT
broker, stores them in PostgreSQL, shows them on live dashboards over
WebSockets, sends hourly snapshots to an external AI service, and offers an
HTTP API to manage communities, buildings, units, devices and users. This
directory holds TLA+ modules translated from that code, TLC configurations that
check them on small instances, and proofs, checked by TLAPS, that the safety
properties hold for every value of the constants.

Paths below are relative to the repository.

## 1. The system

### Actors and shared state

| actor | how many | what it does |
|---|---|---|
| MQTT network thread (paho) | one | `on_connect`, `on_disconnect`, `on_message`; ingests events and notifies the dashboards |
| event loop (asyncio) | one | the WebSocket routes and the debounced broadcast tasks, one coroutine at a time up to its next `await` |
| request threads | a pool | every HTTP handler is synchronous and runs on a thread with a session of its own |
| AI scheduler | one daemon thread | a round of analyses per interval |

They share the database and the in-memory objects `CommunityDashboardWSManager`,
`MQTTConsumer` and `BroadcastRateLimiter`. The database is used at READ COMMITTED with
`autoflush` off: a handler reads, decides, and writes later. What it read is not
protected; the unique keys and foreign keys are, and so is the rule that an ORM
update writes only the columns that changed, of the row with that primary key.

### Components

| component | source | state | operations | hard behaviours | what makes it correct | module |
|---|---|---|---|---|---|---|
| Realtime dashboard stream | `app/services/realtime_ws.py`, WebSocket routes | connection sets, pending flags, last emission, tasks | connect, initial snapshot, notify, debounced broadcast, disconnect | a thread against the loop without a lock; queries between commits; failures while sending | a snapshot is replaced only by one computed later; nobody is dropped; what is scheduled arrives | `DashboardStream` |
| MQTT consumer | `app/services/mqtt_consumer.py` | flags, network thread | connect, disconnect, message, restart | exceptions that end the thread; redelivery | every event is accounted for | `Ingestion` |
| Ingestion service | `app/services/ingestion.py` | rows of community, unit, device, reading, dead letter | `ingest_event` | one transaction of many statements racing the API | all or nothing; manual schedules locked; no orphans | `Ingestion` |
| Communities, units, devices | `app/api/routes.py` | the same rows | create, change, delete | check first, write later | as above | `Ingestion` |
| AI orchestration | `app/services/ai_integration.py` | `ai_analysis_results`, runs in progress | round, run, retry, status | concurrent runs, timeouts, exceptions that leave a round | order and content of stored rows; rounds end | `AIRuns` |
| Users, roles, scopes | `routes.py`, `auth.py` | `users` | register, create, edit, members of a community | several administrators at once, each with a row loaded earlier | one scope per user; no edit undoes another | `Accounts` |
| Sessions and tokens | `app/services/auth.py` | `revoked_tokens` | login, refresh, logout, the check of every HTTP request, WebSockets | logout or deactivation in the middle of a request | who is out stays out | `Accounts` |
| Buildings and their units | `routes.py`, `ingestion.py` | `buildings`, `building_units`, the tag of a reading | create, change, delete, summarise, export | count, then delete; units that move between buildings | no active unit goes with a building; the figures of a building agree | `Buildings` |
| Notifications, rate limit | `routes.py`, `rate_limit.py` | `notifications`, `notification_reads`, counters in memory | broadcast, list, mark read, mark all | checks without a lock; two marks at once; counters lost at a restart | the daily limit; an ok stands for marks; a list agrees with itself | `Notifications` |
| Device control, compliance | `routes.py`, `device_control.py`, `recommendation_compliance.py` | `device_commands` | publish, record, compare | published but not recorded; a statement per recommendation | the table says what devices were told; compliance counts what was done | `Commands` |
| Dashboards and reports | `dashboard.py`, `unit_reports.py`, report routes | none of their own: a sequence of queries | build a dashboard, summarise a unit, list months, report a month, list days | readings, deletions and the clock between two queries; the ends of the windows | the figures next to each other agree | `Dashboards` |
| Tariffs | `tariff.py` | a table seeded at start | look up | - | - | not modelled |
| Settings, preferences, simulation toggle | `routes.py` | one row each | read, write | two first writes | - | not modelled |
| Application shell | `app/main.py` | - | start, stop | restart in the middle of anything | a start finds or makes its administrator | `Boot` and `Stop` of `Accounts`, `Restart` elsewhere |
| Embedded AI state manager | `app/services/ai_state.py` | - | - | - | no route or service imports it | not modelled |
| Schema and migrations | `app/models.py`, `alembic/` | - | - | - | its keys are guards of the actions | - |
| Backfill script, tests | `scripts/`, `tests/` | - | - | - | - | not modelled |

### How the components meet

`on_message` calls `ingest_event` for each event of a payload. `ingest_event`
commits the reading and then calls `notify_community_update` and
`notify_unit_update`, which hand a coroutine to the event loop. `Ingestion`
models the transaction up to the commit and `DashboardStream` the commit and
everything after it: the action `Commit` of `DashboardStream` stands for
`CommitEvent` of `Ingestion`. The API's handlers edit the rows that
`ingest_event` and the snapshot queries read. The AI runs read what was ingested
and write a table nobody else writes; the deletion of units can take a
community away from under a round. `Commands` reads that table: compliance asks
which of the recommendations in it were followed by a command. `ingest_event`
tags a reading with a building, which `Buildings` adds to what `Ingestion` says of
it. `Accounts` is in front of every other HTTP handler; the other modules leave the
check of a request out, or, as `Notifications` does, take roles and scopes as given.
The two WebSocket routes do not go through it: they decode the token and look at its
claims or at the scope of the user's row, but not at `revoked_tokens`, the type of the
token or the status of the account.

## 2. The modules

### `DashboardFeed`, `DashboardStream`

`DashboardFeed` is the promise made to a browser: an open stream shows a snapshot of
its channel, and replaces it only by one whose computation began when the other's had
ended. `DashboardStream` is the implementation, and `ImplementsFeed` is the refinement.

A channel is the community's dashboard or a unit's; both run the same code. A snapshot
is many queries, so it is abstracted to an interval: how many readings of the channel
were committed when its first query ran (`begun`) and when its last did (`ended`). What
its figures count is not in this module but in `Dashboards`, and they need not grow: a
community's totals are a query per unit that still has a row, so they fall when a unit
is deleted (nobody is notified of that), and readings leave the load curve after seven
days. What is promised is about when they were computed: all of a snapshot whose `begun`
is `stored` was computed after the last commit.

| variable | code |
|---|---|
| `stored`, `exists` | `energy_readings`, rows of community and units |
| `ingest` | the network thread's place in the two notifications |
| `conns` | `_connections`, `_unit_connections` |
| `client`, `view` | a WebSocket, and the last snapshot sent to it |
| `pending`, `cooldown` | `_pending`, `_pending_unit`; the rest of the minimum interval since `_last_emit` |
| `task`, `payload`, `toSend`, `failed` | a `_debounced_broadcast` coroutine: its place, snapshot, `list(connections)`, `to_remove` |
| `reading` | the snapshot the loop is in the middle of; while it is set, no other coroutine runs, but the network thread does |
| `missed` | history: a reading whose notification was swallowed |

The flag is tested and raised in two steps (`NotifyFree`, `NotifySchedule`)
because no lock is held. `BuildRaises` is an exception of a query.

### `Ingestion`

One action per statement of `ingest_event` that the database or another
transaction can tell apart: `NextEvent`, `SelectCommunity`, `InsertCommunity`,
`SelectUnit`, `InsertUnit`, `SelectDevice`, `InsertDevice`, then one of
`CommitEvent`, `CommitDuplicate`, `CommitStale`, and `RejectEvent` or
`RejectRaises` for the dead letter. The API's handlers are two steps each, the
checks and the write. `tx.row` is the device as the transaction read it, so a
lock tested on it can be stale. Rows have primary keys (`Pks`), because an ORM
update finds its row by key and a deleted and recreated device is another row.
One community with one unit stands for all: transactions about different ones
share no row.

`EventIntake` is what that amounts to: messages are taken one at a time, and of
each of their events in turn the database shows everything or nothing. `Store` is
the only step that stores a reading, and the only one of ingestion that touches
communities, units, devices or their states; `Skip` drops an event whose key is
stored, `Reject` puts one aside, and a valid event can be skipped unstored or
rejected only if a request has changed the catalog while it was at hand. `Lose`
is the end of the network thread or of the process. `ImplementsIntake` maps
committed rows only; what the transaction holds does not show.

### `AIRuns`

Workers are the scheduler and the threads of `/ai/run-now`. A worker lists the
communities of a round, takes the snapshots of one, sends them oldest first,
repeats an attempt up to `RetryCount` times, stores a row per snapshot, returns
the result and goes on. `RunRaises` is an exception of a query or an insert,
`NoSnapshots` the `ValueError` of a community that has nothing to analyse.
`get_status` is two queries with a step of anybody in between.

`AnalysisLog` is the promise made to readers of `ai_analysis_results`: runs that
may overlap, each with a number of its own, append to a log per community. A run
goes through communities and hours in order, stores a row only for an hour that
has readings, and a failed row repeats the latest answer of its own run about its
own community. `ImplementsLog` is the refinement: attempts, retries and statements
are stutters. `RoundAdvances` compares the local variables of a thread before and
after each of its steps: communities left, the place in a community, hours left,
attempts.

### `Dashboards`

`snap` is the dashboard one request is building: where it is, its scope (the
community or a unit), its period, and the readings each figure has counted. Each
action is one query of `build_dashboard_snapshot` or
`build_unit_dashboard_snapshot`, in the code's order, and between two of them
`Ingest`, `DeleteUnits` and `Tick` do as they like. A figure is the set of readings
it counts, which is what the windows and scopes decide. The energy of a reading is one
unit, above zero or below: nothing refuses a negative `kwh` (`schemas.py:17`,
`ingestion.py:25`), and the peak depends on that. Rounding, cost and emission are left
out. One request is enough, because nothing it does is seen by another. The load curve,
peak and summaries that have routes of their own are the same queries one at a time.

The reports are one query each and so functions of the state: `HistoryRow`
(months by name), `MonthReport` (a month by two bounds), `WeekTotal` and `DailySeries`
of a unit, and `CommunityWeek` and `CommunitySeries` of a community, of which only the
second counts readings of units that have been deleted. The unit of time is the
resolution of timestamps, one microsecond: `PeriodEnd` is the last moment before the
next month. The two clock readings of `unit_daily_emissions` are one here, and so
are the two inside a load curve.

### `Accounts`

HTTP requests on a pool of threads go through `CheckToken` (the signature and
`revoked_tokens`), `LoadUser` (the row and its status), a handler that loads, tests
and changes a row in its session, and `Commit`. Between any two of these the others
do as they like, and the process may `Stop`. What makes edits subtle is what
SQLAlchemy does: a session does not read the row of its own user a second time
(`Loaded`), and writes the columns whose value differs from what it loaded
(`Written`), not the row. `Boot` is the start of the process, which looks for the
administrator by address and inserts `admin-001`.

`WatchCommunity` and `WatchUnit` are the WebSocket routes, which take any token that was
issued. The first asks only for the role and community the token was issued with, and
whether they let it pass is left open; the second asks for the role and scope of the row.
A user who is shut out can thus still watch a dashboard, and a connection stays as long
as it likes. `OutStaysOut` says that nothing else is left to such a user, and is about the
HTTP routes; no document of the repository says what a WebSocket route should test.

A token is a user, the number of its pair and its kind. Expiry is left out: it only
refuses more. A logout revokes the one token in its body, so the refresh token of a
pair stays good unless it is given too, and a refresh leaves its own token good; the
properties are about tokens and accounts, not about pairs.

### `Buildings`

`building_units` has no foreign key to `buildings`, and a `unit_id` may be in
several. Handlers are a load with its checks and a commit; `delete_building` is four
statements (`DeleteBuilding`, `CountActive`, `DeleteUnits`, `CommitDelete`). `Tag` is
what `ingest_event` writes into a reading. A figure is the set of readings it
counts: `Summary` is the manager's `/me/dashboard`, by unit whatever the tag;
`Consumption` is by tag, and by unit where there is none; an export repeats the
tagged readings of the building in the row of every active unit, so its TOTAL counts
them once for each unit. `building_configs` and `users.building_id` survive the
deletion of their building; nothing in the module depends on them.

### `Notifications`

`check_and_increment` is `Check` and `Increment`, and the handler's commit is
`Insert`. Marks are a search and a commit that a unique key may refuse; a list is
four statements, and a count is kept as the set it counts so that they can be
compared. `raced` is history: a user and day whose checks overlapped or whose
counter a restart forgot. A row's day is the one on which it is inserted, which can
be the day after the one it was counted on.

`Inbox` is marking as a user sees it: an inbox that only grows, and requests that
mark in one step all they were asked for, or nothing, and that only if another
request has marked some of it first. `ImplementsInbox` maps what is visible, what has
a mark, and the requests at hand; broadcasts arrive, lists and the limiter are stutters.

A user without a scope matches the notifications that have none (`IS NULL`), as the
query does. Two requests that mark the same notification at once end in an ok and a
conflict, which is answered 500, although `docs/API_REFERENCE.md` (around line 1751)
calls the route idempotent. Deliveries are inserted as `queued` and nothing changes
them, so they are left out.

### `Commands`

`Control` looks the device up, `Publish` is `publish_device_command` with each
outcome paho may have (taken; not taken; taken, and an exception all the same), and
`Record` inserts the row. `Compare`, `Ask`, `ComparePrevious` and `Compared` are the
compliance of a period and of the one before, a statement per recommendation.
`before` is history: the commands that were in the table when a count began. A device
stands for its unit. Rows of a failed analysis repeat the recommendations of the
last success and are counted again; a command sent before an analysis counts if its
row was inserted afterwards; both ends of a window count. Nothing sets a command to
`acked`.

## 3. What TLC checks

| run | module and instance | what it shows |
|---|---|---|
| `stream` | two clients on one community, one unit, two readings, interval of one tick, queries may raise | `OneBroadcast`, `NobodyForgotten`, `StaleOnlyIfMissed`, `ImplementsFeed`, `QueuedKept`, `QueuedReaches` |
| `stream_muted` | the same | **violated**: `PendingClears` |
| `ingestion` | one device, two timestamps, one request thread, a list of schedules from each side, three messages, five primary keys | `NoOrphanDevice`, `ImplementsIntake`, `ManualLockedUnlessRaced` |
| `ingestion_community` | the same | **violated**: `OnlyEmptyCommunityDeleted` |
| `ingestion_delete` | the same | **violated**: `DeviceDeleteDeletes` |
| `ai` | two communities, three hours of readings, one request thread and the scheduler, one retry, two runs | `ImplementsLog`, `AnsweredTruthfully`, `StatusCoherent`, `RoundAdvances`, `RoundsEnd` |
| `ai_round` | the same, nothing raises | **violated**: `RoundReachesAll` |
| `dashboards` | two units, hours of two moments, days of one hour, weeks of two days and a month that begins in the middle of one, two readings of (almost) any time, some of them negative | `CountedOnce`, `PeakUnlessNegative`, `WeekInCurveUnlessLate`, `UnitsWithinCommunity`, `MonthsAgree`, `DailyAgrees` |
| `accounts` | the administrator and one more user, one community, one building, two threads, two pairs each, one revocation, two edits | `StartsUnlessRenamed`, `OneScopeUnlessStale`, `OnlyAskedColumnsChange`, `OutStaysOut` |
| `buildings` | two buildings, two units, two threads, one reading, three keys, five commits | `FiguresAgreeUnlessMoved`, `ExportRepeatsOnlyTagged`, `BuildingGoesWithUnitsUnlessRaced` |
| `notifications` | an administrator and a coordinator, two notifications, two days, a limit of one, two threads of which one lists, for the coordinator | `DailyLimitUnlessRaced`, `MarkedWhenAnswered`, `ListsTruthful` |
| `commands` | one device, two commands, two analyses that advise the same twice and once neither, two threads of which one compares, three moments | `RecordsAgreeUnlessInterrupted`, `ComplianceTruthful` |

Every passing run also checks its module's `TypeOK`.

### What the violated properties say

A violated property states what a document or a comment of the repository says;
the behaviour TLC prints is one the code has.

1. `stream_muted`: `README.md:496` promises a broadcast on every event; when a
   snapshot query raises, `realtime_ws.py:134` is never reached, `_pending` stays up
   until the process restarts, and every later event is swallowed at line 185.
2. `ingestion_community`: `docs/API_REFERENCE.md:814` deletes a community only
   when it has no unit; a unit can be committed between the count and the delete.
3. `ingestion_delete`: a device whose state ever changed has `device_state`
   rows, whose foreign key refuses every later delete (`models.py:161`).
4. `ai_round`: `docs/data_contract.md:32` analyses every community with a
   snapshot; one `ValueError` leaves the comprehension of `run_once_all`.

The exceptions in the names and statements of other properties mark where code and
documents part in the same way, and say what the code does promise:

- `StaleOnlyIfMissed`: a reading committed between a snapshot and the lowered flag
  is in no broadcast (`README.md:496` promises one).
- `ManualLockedUnlessRaced`: `ingestion.py:64` says MQTT cannot overwrite manual
  schedules; the test at line 67 is on the row read at line 50.
- `FallbackWithinRun` (part of `ImplementsLog`): `docs/data_contract.md:39` returns
  the last success on a failure; `last_success_result` is a local variable of one run.
- `UnitsWithinCommunity` is an inclusion, not an equality: a community's totals are
  of the units that have a row (`dashboard.py:298`), its previous totals of every
  reading (line 324), and `delete_unit` leaves the readings.
- `PeakUnlessNegative`: the peak is the highest hour of a window that contains the
  curve's and is queried after it, so that of positive readings no hour of the curve is
  above it; a negative reading in that hour that only the peak counts can take it below.
- `DailyAgrees` is an equality for a unit; a community's series also counts readings of
  deleted units (`routes.py:2406`), which its totals leave out (`dashboard.py:105`).
- `DailyLimitUnlessRaced`, `OneScopeUnlessStale`, `BuildingGoesWithUnitsUnlessRaced`
  and `RecordsAgreeUnlessInterrupted` each name the one window in which a limit, a
  test, a count or a record does not hold.

### Bounds, and why they are enough

- `MaxReadings = 2`, two sockets: a reading that falls between a snapshot and
  the lowered flag, next to one the snapshot has; a socket that fails next to one
  that stays. With one client on the community and one on the unit (`OneOnEach`
  in `MCDashboardStream`) the two channels run side by side; that instance is
  larger and adds interleavings of channels that share only `ingest`.
- `MinInterval = 1`: a queued task that must wait, and one that need not.
- Five primary keys: a row of each table, one in the transaction, and one that a
  request remembers while the row is deleted and replaced. `Free` is never empty
  in these instances.
- Messages: a reading without and one with schedules, in a message of one and of
  two events, an invalid event whose reason fits the column and one that does not.
  The broker may deliver any of them any number of times, in any order.
- `MaxRuns = 2`, two hours in one community and one in the other: two runs that
  overlap or follow each other in one community, a round in front of a second
  community. `Watched` is the community whose status is read.

- `MCAccounts`: two places for requests can both be between a load and a commit of the same row,
  and two edits are what a lost update or a second scope takes; one of them may be
  the administrator's own address, before a stop and a start. Bodies change one field,
  as the properties look at one column at a time. One revocation is enough for
  a property about one token. Requests that would exceed a bound wait or are answered
  without effect, and the system may so come to rest: deadlock is not checked in this run.
- `MCBuildings`: a unit can be in either building or in both; five commits create
  both buildings and two links and delete something, or create one, fill, empty and
  delete it. Keys are used again only when no request remembers them.
- `MCNotifications`: a limit of one is reached by one broadcast and broken by two;
  the second day is what a broadcast can slip to. Roles that see a building work as
  those that see a community. `Listers` keeps lists to one thread and to the coordinator,
  who does not see everything; the other thread broadcasts and marks between its
  statements, for either user.
- `MCCommands`: a window of one and three moments put a command before, at both ends
  of, and after a window, and an analysis on the border of two periods. `Readers`
  keeps comparisons to one thread.
- The calendar of `MCDashboards`: the clock crosses a Monday and the first of a
  month, and can leave a week behind while a dashboard is built. The first month is longer
  than a load curve, as months are. Two readings fit into one hour or two, one unit or two,
  and either side of every bound. `Sent` has positive readings at
  all moments but two, and negative ones at two, one early in an hour and one late: a
  load curve can begin, or a query run, between a negative reading and one of its hour.
  That the highest of several unequal hours is taken needs three readings;
  `PeakUnlessNegativeHolds` proves it for any number.
  Units are interchangeable (`SYMMETRY`).

Nothing is bounded in `Ingestion` except the sets of values. Deadlock is checked
in every run but `accounts`. Symmetry is used only for sets whose members no
definition tells apart, and in no run with a liveness property.

### Fairness

`FairSpec` of `DashboardStream`: weak fairness of `Notify` (the network thread
runs on) and `Tick` (time passes), weak fairness of `InitialSnapshot` and strong
fairness of `Disconnect` per socket and of `Broadcast` per channel. asyncio takes ready
callbacks from a first-in-first-out queue, so a coroutine that is ready again
and again is not passed over for ever, although other coroutines occupy the loop
in between: that is strong fairness. No fairness makes readings arrive, clients
come or leave, rows disappear or queries fail.

`FairSpec` of `AIRuns`: weak fairness of the scheduler's work. The HTTP client
gives up after `ai_timeout_seconds`, so every statement the scheduler has begun
ends. Whether the service answers is left open, and nothing is assumed of the
request threads. The other modules have safety properties
only, and assume no fairness.

## 4. What is proved

All theorems hold for every value of the constants allowed by the module's
`ASSUME`s: any number of sockets, units, devices, messages, communities, threads,
and any bound.

### `DashboardStream_proofs`

The invariants are not inductive alone. `InductiveInvariant` is

- `TypeOK`;
- `Structure`: `OneBroadcast`; a snapshot in progress belongs to the task or the
  socket that is at that place (`LoopOwner`); the lists of a task are empty when
  it is not sending and hold only sockets of its channel (`Lists`); every socket
  that is in use is registered (`Registered`);
- `Ordered`: what a client was shown, what a task carries and what is being read
  were computed one after the other, and none later than now. This is what makes
  the refinement inductive: a broadcast begun before an initial snapshot may not reach
  that socket, because the socket is not in its list, and of two snapshots the later one
  begins when the earlier has ended, because the loop builds one at a time;
- `AllAccounted`: while a client is behind, somebody is responsible for it: a
  notification on its way, a task, or `missed`.

From it follow `OneBroadcast`, `NobodyForgotten`, `StaleOnlyIfMissed` and the refinement
(`ImplementsFeedHolds`): initial states map to initial states, and every step to
`Publish`, `Show`, `Close` or a stutter. `ViewsAdvance` is proved as well; the refinement
contains it, so no run repeats it.

`QueuedKept` is the safety half of `QueuedReaches`: a snapshot on its way to an open
client stays on its way, arrives, or fails on record; no step of the loop, the network
thread or another client loses it. `Structure` carries it: the client is registered, so
the set is not empty, and the flag keeps a second task away. What is left to fairness is
that the loop goes on.

### `Ingestion_proofs`

The invariant adds to `TypeOK` and `NoOrphanDevice`: what the network thread
holds at each place (`Working`), what a request remembers (`Asking`), that an
uncommitted row's key is nobody else's and that the requests wait for it
(`Uncommitted`), and that as long as no request changed a row since the
transaction began, what it read is what is stored (`Fresh`). `Fresh` carries
`ManualLockedUnlessRaced` and `EventAccounted`; `IngestAtomic` and `ManualStays`
follow from single steps under the invariant.

`ImplementsIntakeHolds` needs one strengthening more, `Orderly`: between transactions
nothing is overtaken, and a valid event is rejected only once a request has overtaken it.
Then every statement up to the commit is a stutter, and each way a transaction can end
is `Store`, `Skip`, `Reject` or `Lose`. A step of a request is `Edit`. `EventAccounted`
and `IngestAtomic` say parts of the same thing; the run checks the refinement instead.

### `AIRuns_proofs`

The invariant adds that some hour is the last one (`Bounded`: a union of finite
sets has no largest element in general, this one has), that run numbers are
given out once (`Numbered`), that no row exists of a snapshot still to be stored
(`Untouched`), what the run at hand has stored (`AtHand`), and what a reader of
the status has seen (`HasRead`). `OldestFirst`, `FallbackWithinRun`,
`AnsweredTruthfully` and `StatusCoherent` follow.

`ImplementsLogHolds` adds `Ascending`: the communities a thread has left come after the
one it is at, its run has no row in any of them, and what it still has to analyse has
readings. `LogLatest` is the lemma that the answer of the last of a run's rows that
succeeded, which is its `last_success_result`, is the latest one of the log.
`OldestFirst` and `FallbackWithinRun` are parts of the refinement, and the run checks it
instead.

Termination comes in three parts. `RoundAdvancesHolds`: every step of a thread takes
it nearer to the end of its round, in an order on its local variables.
`RoundsAreFinite`: that order is well-founded on all states of a thread, if communities
and hours are finitely many, as they are in any database. That a thread which can step
does step is fairness, and so `RoundsEnd` itself is left to TLC.

### `Dashboards_proofs`

`Figures` bounds each figure by the readings of its scope and window
(`Counted`, `Before`), which only grow; `PeakKnown` and `CurveKnown` are the
properties from the query on that fixes the figure. `PeakIn` is the reason for
`PeakUnlessNegative`: a part of the readings has no hour above the peak of all, unless
a negative reading of that hour is in all and not in the part (`EnergyOfPart`).
`LatestIn` makes `resolve_period` total for every calendar that begins at 0.
`MonthsAgreeHolds` and `DailyAgreesHolds` need no invariant but the types: the
first is about months of any lengths, the second about days of any length and
weeks no longer than the load curve (`WeekAssumption`, Mondays at midnight).

### `Accounts_proofs`

A commit under way writes to a user who exists, only what its requester may write, and
a scope that was tested on the row as loaded (`Tested`); requests exist only while the
process is up; a failed start has its reason. `OneScopeUnlessStale` follows because
`Written` and the tests agree on the row as loaded (`WrittenSame`), so both scopes can
only meet in a row that has changed since. `OutStaysOut` needs how each kind of request
can move (`RequestChanges`, `PairChanges`): a user who is shut out has no HTTP request past
its checks, and no step makes one; a WebSocket is opened from an idle place and only closes.

### `Buildings_proofs`

`linked` knows every row and every tag (`LinksKnown`, `TagsKnown`), which is what
`FiguresAgreeUnlessMoved` needs. A delete that has counted met no active unit and has
marked every row it met that is still there (`Deleting`). The rows of an export that
have been queried count what is theirs and all of it that was there at the start
(`Exporting`); readings only come in, and keep their tags.

### `Notifications_proofs`

The limit is a statement about two tables and a counter. `Fits` makes it inductive:
what was counted on a day and inserted, with what is on its way to be inserted, is not
more than the counter says, unless `raced`; `Alone` says that a check nobody overlapped
still has the count it read. Cardinalities come from `FiniteSetTheorems`. For marks and
lists the invariant is what each request knows (`Marking`, `Answered`, `Listing`); it
stays true because rows and marks are only added.

`ImplementsInboxHolds` uses that what is not to be inserted has been marked before, so
that the rows of one commit are all that was asked for; a search that finds everything
marked is the mark itself. The refinement is proved only: together with the lists and
the limiter the instance of `notifications` is too large to map each step, and that run
checks `MarkedWhenAnswered`, the part of it about answers.

### `Commands_proofs`

A command under way has its id to itself (`Fresh`) and its request knows what became of
it (`Told`). `Counts` keeps what a comparison has found: an answer never changes,
because rows do not (`FollowsStays`), and the two periods meet in one moment.

### Only model-checked

Liveness (`QueuedReaches`, `RoundsEnd`) and the violated properties. Liveness
under fairness is outside the installed provers; the theorems about `QueuedKept`,
`RoundAdvances` and the order of rounds are what can be proved of it. Everything else
that a run checks is also a theorem.

## 5. What is left out

- Floating-point aggregation: readings are counted, with a sign, and cost, emission,
  percentages, freshness and baselines are left out; so is the export of a community.
- Settings, preferences, the simulation toggle and a building's configuration: one row
  each, inserted when missing and then overwritten. Two first writes at once end in a
  500 for one of them; nothing modelled reads the rows.
- Tariffs are a table filled at start and looked up. `ai_state.py` is imported by
  nothing. The backfill script and the tests are not part of the running system.
- In `Notifications`: reading one notification, the pages of a list, and the bucket of
  the manual AI run, which is the same counter under another name. In `Accounts`: passwords, names,
  phone numbers and lists. In `Buildings`: names, floors and lists.
- The consumer's table of pending subscriptions, which only feeds log lines.
- Requests refused by their checks: they change nothing.
- Handlers that change only a name or a VA rating, the device catalog, and
  `bulk_delete_units`, which is `delete_unit` for several units in one transaction.
- Who may call a handler, except in `Accounts` and in the scopes of `Notifications`;
  tokens that expire; and `auth_enabled = False` (`auth.py:84-89`), with which every
  request acts for the administrator, if there is exactly one, and no token is looked at.
- The external AI service, the broker and PostgreSQL are modelled by what the
  code can observe of them: an attempt succeeds or fails; a message may arrive
  any time and more than once; keys hold, and nothing else is protected.

## 6. Plan

Modules came in the order of what goes wrong silently: first what several
threads write, then what several administrators write, then what is only read.

| order | module | state |
|---|---|---|
| 1 | `DashboardStream` over `DashboardFeed` | modelled, checked, proved; liveness checked |
| 2 | `Ingestion` | modelled, checked, proved |
| 3 | `AIRuns` | modelled, checked, proved; liveness checked |
| 4 | `Dashboards` | modelled, checked, proved |
| 5 | `Accounts` (users, scopes and sessions in one module, because a request needs all three) | modelled, checked, proved |
| 6 | `Buildings` | modelled, checked, proved |
| 7 | `Notifications` | modelled, checked, proved |
| 8 | `Commands` | modelled, checked, proved |
| 9 | the network thread's survival: `RejectRaises` and `OnMessageScalar` end it in `Ingestion`, and no document says what should happen then | open: a property needs a promise to check |
| 10 | `EventIntake`, `AnalysisLog` and `Inbox`, the abstract specifications of 2, 3 and 7 | refinements proved; the first two checked as well |
| 11 | the safety halves of the two liveness properties | proved: `QueuedKept`, `RoundAdvances`, `RoundsAreFinite` |
| 12 | sessions and device commands as abstract specifications: who is in and who is out, what a device was told | open |

# A TLA+ model of the assessment engine

The assessment engine collects inventory and metrics from agents over RabbitMQ,
stores them in PostgreSQL, shows them in a web console, issues remote
installation tasks to agents and publishes assessment reports.  This directory
models `src/src/assessment_engine` in two halves: the parts in which several
processes or asyncio tasks change shared state, and the decisions that the pages,
reports and APIs compute from that state.  TLC checks both on small instances;
TLAPS proves the main safety properties of the first half for every value of the
constants.

Paths below are relative to `src/src/assessment_engine`.

## 1. Inventory

Four processes share PostgreSQL, RabbitMQ and Redis:

| process | code | what it does |
|---|---|---|
| consumer | `consumer/main.py`, `consumer/handlers/`, `consumer/task_policy.py` | one asyncio task per delivery of four queues (inventory, metrics, error, task.result) |
| web | `web/routers`, `web/services`, `web/*` | pages, installation requests, report requests, read caches |
| worker | `worker/main.py`, `worker/report_worker.py`, `worker/task_reaper.py` | claims and publishes reports; times out overdue tasks |
| agents (external) | not in the repository | publish messages, run installation tasks |

Components, the state each keeps, and what makes it correct:

| component | state | operations | hard behaviour | correct when |
|---|---|---|---|---|
| consumer process | in-flight handler tasks, stop event, drain budget | deliver, cancel, drain, close, restart | SIGTERM against running handlers, failing `basic.cancel`, lost connection | every delivery is settled; a drain that ends well loses nothing; the process stops when told |
| consumer handlers | Redis keys, rows | parse, claim id, clock check, transaction with retry, Redis refresh, ack or nack | interleaved deliveries of one message, claim before commit, commit without an answer | a message is stored once unless its claim was lost; an acked message is stored or accounted for |
| restart tracking | two Redis keys per server | get, incr, set | read-modify-write across awaits | each restart counted, the alert means restarts |
| task result policy | none | `effective_task_result` | exit-code allow-lists | a report has one outcome |
| install task service | `tasks` rows, per-agent queue | check, resolve, insert, publish, commit | two operators, publish before commit, batch failing half-way | one pending task per server, pending means published |
| task reaper | `tasks` rows | time out overdue rows | races the agent's late report | a pending task ends, a stored report stands unless it says pending |
| report job service | `diagnostic_jobs` rows | enqueue, emit, claim, finish, recover | insert and select in two statements | one active job per input, enqueue refuses only when overtaken |
| report worker | the job in hand | start, recover, claim, process, fail, stop | crash, drain timeout, two replicas, lost acknowledgement | a job is shared only with a late worker, verdicts stand, every job ends |
| report generator | child jobs | build, emit children, select, store | several transactions for one report | links lead to the right reports |
| server registry (`db/repositories/collect_sql.py`, `boot_time.py`) | `server_inventory`, history, samples | upsert, change detection, placeholder | messages applied out of order, a comparison without a lock, jitter of the boot time | the history explains the row; no reboot or restart is missed |
| read caches (`cache/redis.py`, `web/services/query/`) | two cached pages and the online flag per server | get, fill, invalidate, expire | fill after invalidate, failed deletion | a page is old only for a reason one can name |
| package resolver (`web/services/task_service.py`) | Redis digest per validator | HEAD, lookup, GET, store | files replaced between the steps, a key shared by two paths | the digest is that of the file the HEAD was about |
| metric charts and live figures (`db/repositories/query/metric_sql.py`, `metrics_calculator.py`) | `server_metrics` rows | trend queries, newest pair, error columns, cursor pages | counters set back, lost samples, wrong clocks, missing columns | no invented load, shares add up, fleet and server charts agree |
| right-sizing and its views (`recommendation.py`, `mappers/`) | none | five judgements, roll-up, targets, three views | lines, gaps, several copies of one decision | sizes fit their actions, views agree, following the advice settles |
| storage tree (`mappers/server.py`) | none | placement of devices | parents missing, late or several | every device once, nothing counted twice |
| service classifier (`service_classifier.py`) | stored categories | classify, attribute, count | computed in four places | one set of workloads |
| network topology (`mappers/topology.py`) | none | grouping by subnet and gateway | contradicting gateways | servers together exactly where their addresses say so |
| server list, overview, attention, support status (`web/services/query/`, `mappers/attention.py`, `mappers/os_eol.py`) | none | paging, filters, counts, cards | shared names, limits, pages over different tables, dates | pages agree, or differ for a known reason |
| environment, selection and server reports (`query/report.py`, `environment_report.py`) | none | rows, distribution, causes, bullets | three reports from one form | parts add up to the whole |
| task and report pages, view models, routers, templates, migrations, logging | none of their own | | | not modelled (section 6) |

`PROJECT.json` lists every component with its sources, and the hazards at the
lines where they bite.

## 2. Plan

Order: what can lose or corrupt data first, then what only reads.

1. `IngestConsumer` - deliveries, handlers and shutdown (done, proved).
2. `TaskPolicy`, `InstallTasks`, abstract `TaskLifecycle` - installation end to
   end and its refinement (done, proved).
3. `ReportJobs`, abstract `JobLifecycle` - enqueue, workers, selection reports and
   the refinement (done, proved).
4. `AgentRestarts` - the restart counter (done, proved).
5. `ServerRegistry` - inventory upserts, change detection, history, boot-time
   comparison, the read caches and the online flag of one server (done, proved).
6. `PackageDigest` - the resolver that `InstallTasks` takes as one step (done,
   proved).
7. `MetricCharts`, `MetricSnapshot`, composed by `MetricStore` with servers whose
   counters are reset and whose samples are lost (done, proved).
8. `RightSizing`, `DiskCapacity`, composed by `SizingViews` (done, proved).
9. `StorageTree`, `ServiceCatalog`, `NetworkTopology`, `FleetPages`,
   `FleetReports`, composed by `InventoryViews` (done, checked; the network page
   proved).

Left: the percentiles of `report_aggregate`, which are inputs of `SizingViews`.

## 3. Modules

### IngestConsumer

A *copy* is one published message: an agent that publishes again because it saw
no confirm creates a second copy with the same `message_id`; a redelivery is the
same copy again.  `broker[c]` is where the broker holds it and `pc[c]` the next
step of its handler task, one step per await: `Parse`, `CheckIdempotent` (SET
NX), `LogTimeInvariants`, the database attempt, `UpdateRedis`, `Ack` or `Nack`.
The attempt has four outcomes: committed, transient failure, committed but
unanswered, permanent failure.  `RetryOrRaise` is the retry loop.  `redis` is the set
of keys that exist.

The process moves through `running`, `cancelling`, `waiting`, `closing` and
`stopped` as `main()` and `_drain` do; the drain budget may run out while
cancelling or waiting.  Closing the channel cancels handlers and returns unsettled
deliveries.  Observation only: `applied` (the messages stored), `again` (stored a
second time), `reopened` (their claim was refused or lost by Redis, or their commit
was not seen) and `cut` (what ended a handler early).

Abstractions: setting the online flag and deleting the cached view are one step
(both are fail-open and no other step of a handler reads them); what a transaction
writes is in `ServerRegistry`, `MetricStore` and `InstallTasks`, except that an
agent's server is registered by its first message.

### TaskPolicy, InstallTasks, TaskLifecycle

`TaskPolicy` is `effective_task_result` with the allow-list keys.  In
`InstallTasks` a task is a pair of a request and a server (a request names each
server once).  Steps of a request are the awaits of `create_install_tasks`:
the check with its expiry of overdue rows, the package resolution, and per
server insert, publish, commit.  An uncommitted insert is `"draft"`: other
transactions do not see it but the unique index makes them wait.  The broker
drops a message `MessageTtl` after it was sent.  Agents may report, refuse or
disappear; a result may be lost.  The wire leaves the status of a report free
(`schemas.py:335`), so that `Outcomes` may be anything but the model's marks for no
row (`NoRow`, `Draft`); an agent may even say that its task is pending.  A result
updates its row whatever the row's status is (`ResultStored`), finds no row
(`ResultUnmatched`), or would make a second pending row, which the unique index
refuses, and is dead-lettered (`ResultRejected`).  `TaskLifecycle` is what the table
promises: `Issue`, `TimeOut`, `Complete`.  The refinement mapping shows an uncommitted row
as absent and a report as made when it is applied.

### ReportJobs, JobLifecycle

A job is the number of its row in the order of creation.  Requests insert, or
look up the active job and retry.  Workers start, recover stale rows once,
claim, generate, publish children one transaction at a time, generate the
selection body, and store; any database call may fail, and a commit may succeed
without its acknowledgement.  A claim skips rows that the claims of other workers
have locked (`SKIP LOCKED`), whether these commit or roll back later.  `claims`,
`parent` and `cause` are history.  `JobLifecycle` is what the table and the workers'
hands promise: a row is added where no active row of its input is in the way, passes
over fewer rows than there are free workers when it is claimed, goes back to the
queue only from running, and its verdict is overwritten only after a second claim or
by the worker that was not told of it.

### AgentRestarts

One server and the deliveries that reach `_track_agent_restart`: `Get`, `Incr`,
`Set`, each fail-open, interleaving freely.

### ServerRegistry

One server: its row of `server_inventory`, the history, the times of its samples,
the two cached pages and the online flag.  An agent reports once per instant
(`Publish`, or `PublishChange` after a reboot, an agent restart or a
reconfiguration); handlers take messages in any order, and a message may come
again (`Redelivered`).  `Take` is the read at the head of `upsert_server`,
`Commit` its update with the comparison `_inventory_changed` and the history
insert, `CommitUnseen` a commit whose answer was lost, after which the transaction
runs again; `StoreMetric` includes `ensure_server_id` with its placeholder row;
`Refresh` sets the flag and deletes the page, each of which may fail by itself.
Readers read the tables on a miss (`ReadTables`) and fill the cache later
(`FillCache`).  Boot times are multiples of `BootGap` plus a jitter within the
tolerance, so that `BootOf` tells which boot a measurement is about.  A report may lack
its boot time or its start time (`Lacking`, NULL in the tables); LAG takes a row after
one without a boot time for a reboot (`NoBaseline`).
`report_uptime_stats`, `report_agent_restart_stats` and `reboot_events` are the
three queries that count.  `late`, `overtaken` and `lost` are observation only.

Abstractions: the compared columns are one value (`conf`); the cached views are
what distinguishes an old one from a new one.

### PackageDigest

`HttpZdmPackageResolver.resolve`, one step per await: `Head`, `Hit` or `Miss`,
`Get` with the length check, `Store`, and `Fail`.  The files on the ZDM server are
external: `Replace` puts any content with any validator in the place of another.
A digest is named by the content it was computed from.  `seen` (the content at
the HEAD), `served` and `raced` are observation only.

### MetricCharts, MetricSnapshot, MetricStore

`MetricCharts` are the trend queries of `metric_sql.py`, one operator each:
buckets, LAG over the rows of a window with one bucket of lead, the gates on resets
and boot times, and the aggregate over devices and servers.  NULL is `None` and
propagates as in SQL; GREATEST ignores it.  `MetricSnapshot` is what is shown of
the present: `latest_saturation` within `LiveWindow`, the live signals, the dashboard
that `metrics_calculator.py` computes from the two newest rows, error columns and
cursor pages.  The card counts the cores of the newest sample, the charts those of the
inventory; Windows falls back on the queue length when no disk was busy
(`disk_await_signal`).  An inventory may list no device of a kind (`listed`), or
devices none of which is physical.  `RatioTrend` is
the shape of every percentage of a fleet: SUM / SUM of the rows of an instant, then
the aggregate over the bucket.  `MetricStore`
has the state: kernels that count, agents that report (`Sampled`), lose a sample
(`LostSample`) or stamp it wrongly (`WrongClock`), `Reboot`, `DriverReload`, and
`Registered`, the first inventory of a server.  A row is stored by
`record_metrics`, which keeps the row that is there (ON CONFLICT DO NOTHING): a
sample with a wrong clock may take the place of a later one.  `real` counts the same work
without a reset and travels with each sample for the properties; no query
reads it.

Abstractions: times in reporting intervals, CPU states user, iowait and idle, the
largest and the average aggregate only, integer division where SQL has floats.

### RightSizing, DiskCapacity, SizingViews

`RightSizing` is `recommendation.py`: five judgements from a record of statistics,
`rollup_host`, confidence, targets and prescribed actions.  `DiskCapacity` is the
way of a mount's history into a date and a size, once folded into the host's row
(`report_aggregate`) and once per mount.  `SizingViews` takes a row and two mounts
through `build_resource_stats` and has every view that decides something: flags
of the period card, saturation blocks, diagnosis, the report row,
`/api/right-sizing`, `/api/assessment`.  A step changes one column (`Observe`),
one mount (`MountChanges`), or is the operator who follows the recommendation
(`Resize`): the same load is then measured on the new size.  Percentages are
integers; ratios are counted in percent or tenths.

### StorageTree, ServiceCatalog, NetworkTopology, FleetPages, FleetReports, InventoryViews

`StorageTree` is `build_storage_tree` as a walk over a list of what is still to be
placed, which consults the set of visited ids in the order of the code's
recursion.  In `ServiceCatalog` a text is the set of fragments it contains.
`NetworkTopology` works on subnets and gateways as values.  `FleetPages` has the
list with its paging and filters, overview, live page, attention cards, support
status and the selection of the API; `FleetReports` the three reports.
`InventoryViews` grows one of the four parts row by row in any order, lets days
pass, and checks every page on every inventory it reaches.  The verdict of a
server, computed in `RightSizing`, is a field of the server here, one for each of
`Windows`: a window has a length and may end some days ago, as a report's anchor may.
`classify_host` says whether the caller looks at the disks' activity: the overviews
and the rows of the reports do, the list, the tables of actions and the APIs do not.
The overview judges support by today, the cards by the anchor.  The support catalogue
and the service catalogue are constants.

## 4. Runs

Every passing run is exhaustive for its bounds.

| run | instance | shows |
|---|---|---|
| IngestSafety | one metrics message published twice, three faults | `StoredOnceUnlessReopened`, `NoSilentLoss` |
| IngestLiveness | three task results (one unmatchable, one malformed) for one prefetch slot and an error message, one fault | `EverySettled`, `StopsWhenTold` |
| InstallTasks | two requests for one server; an agent reports a forgiven failure, a status the engine does not know, or pending | `AtMostOnePending`, `NoGhostPending`, `ReportedOutcomeStands`, `ZombieOnlyIfPublishedLate`, `PendingEnds`, `ImplementsLifecycle` |
| InstallEarlyResult | the same, with a success that could not be verified | expected violation of `UnmatchedMeansNoTask`, see below |
| ReportSharing | two workers, three requests for two reports, three faults, clock beyond the stale limit | `OneActivePerInput`, `SharedOnlyWhenLate`, `RefusedOnlyIfOvertaken`, `VerdictStands` |
| ReportSelection | one worker, a selection of two servers, two requests, one fault | `LinksAreReports`, `EveryJobEnds` |
| RestartCounter | five deliveries, two faults | `NoRestartMissed` |
| ServerRegistry | two handlers, one reader, three reports, of which the first lacks the agent's start and the second may lack the boot time, one event, one fault | `RedisFollowsTables`, `HistoryExplainsRow`, `EventsAreCounted` |
| PackageDigest | two requests, two paths, two validators, three contents of which two are equally long, two replacements | `DigestFitsFile` |
| Metrics | a Linux and a Windows server, three intervals, samples with as many, more and fewer cores than the inventory, one fault | `SharesAddUp`, `ChartsInventNoLoad`, `ChartsShowWhatHappened`, `FleetMatchesServers`, `SnapshotMatchesCharts`, `ErrorsAgree`, `PagesStopOnlyAtAGap` |
| SizingViews | rows within two columns of four usual hosts, two mounts with nine histories | `AxesFitTheirAction`, `RootCauseExplains`, `ViewsAgree`, `VerdictsAreExplained`, `SignalsAgree`, `FullMountsSeen`, `MoreLoadStaysShort`, `FollowingSettles` |
| InventoryViews | up to five devices, four units and sockets, four interfaces, three servers, three days and two windows | `TreeShowsDevices`, `WorkloadsAgree`, `TopologyHangsTogether`, `FleetPagesAgree` |

The types are proved (section 5) where a module has theorems, as part of its
inductive invariant, and are not checked again by the runs.

Bounds.  Two copies, two requests or two handlers are what a race needs; a third
request lets an enqueue lose its race twice and be refused.  `MaxFaults` is spent by
crashes, lost connections, outages, lost keys and signals; database errors of a
handler, a failing `basic.cancel` and agents that disappear are not bounded by it.
`MaxTime` lets the deadline, the stale limit or a TTL pass and something happen
after it; in `InstallTasks` a task can be timed out, reported as pending, and timed out
again.  In `InstallTasks` a request is accepted only while its deadline can still
pass before the clock's bound, so that `PendingEnds` is not cut short. `MaxJobs` is
one row per request, or per request and child in ReportSelection. In
`ServerRegistry` three instants make an older message late, repeat one and let a key
expire; `MaxPending` keeps two messages under way, which is what reordering needs.
In `PackageDigest` a second replacement is a rollback, and two contents of one
length are what the length check cannot tell apart.  In `Metrics` the third interval
gives a bucket a predecessor and a successor; one interval of work exceeds the first
counters, so that a kernel that was reset overtakes the one before it; `LiveWindow` is
two intervals, so that a lost sample leaves it with a single one.  In
`SizingViews` each column has values below, on and above its lines, an inventory may
report no cores or no memory at all, and two changes meet every pair of lines; two
mounts are what hiding one behind another needs.  In `InventoryViews` a row repeats
a name, a parent, a port or a subnet of another one, three servers exceed the
list's limit of two, and the windows are the last two weeks and a day that ended
yesterday. What the instances leave out (a batch of several servers,
messages of different servers, more workers or handlers, other measurements, other
networks) the theorems of section 5 cover, where there is one.  Deadlock is not
checked where a finished instance stops: every message settled, every request
answered, the clock or the inventory at its bound. `PackageDigest` never stops, and
is checked for deadlock.

Symmetry is used for requests, workers, handlers, paths, validators and the copies
of one message, and in no run with a liveness property.

### Fairness

- `IngestConsumer!Spec`: weak fairness of `Shutdown`, which its own deadline
  drives, and of `Restart` (`restart: unless-stopped` in the compose file).
  `StopsWhenTold` needs no more: handlers may hang.  `EverySettled` assumes
  `HandlersRun` as well - the broker delivers to a subscribed consumer and the
  event loop goes on with some handler that can go on.  Faults are bounded, which
  is "provided faults stop".
- `InstallTasks!Spec`: `Reap` (the loop swallows every exception) and `Tick`.
  Nothing is assumed of operators, agents or results.
- `ReportJobs!Spec`: `WorkerStep(w)` - the loop swallows every exception and the
  container is restarted.  Nothing is assumed of requests.

### Disagreements between the code and what it says

One run is expected to find a violation; `PROJECT.json` quotes the statement.

| run | statement | what the code does |
|---|---|---|
| InstallEarlyResult | a result without a task is one of a deleted task | the message is published before the row is committed, so a fast result finds no row |

Other disagreements and surprises met while modelling.  The properties that hold
name them as exceptions, so that a change of the code shows.

Processes and shared state:

- `db/models/task.py:41` says that a task goes from pending to success or failure; the
  column takes whatever string an agent reports, and a task reported as pending is
  pending again (`ReportedOutcomeStands`, `PendingEnds`).
- `task_reaper.py:8`, `task_service.py:232`: deadline and message TTL are called one
  window, so that nothing runs after its deadline; but the deadline is
  computed before the package is fetched and the message published
  (`ZombieOnlyIfPublishedLate`).
- `worker/main.py:5`: the next start recovers unfinished reports; it recovers those
  older than the stale limit (`diagnostic_sql.py:117`), so a quick restart leaves a
  job that blocks its input (`EveryJobEnds`).
- `report_generator.py:104`: a failed generation publishes no child; the selection's
  body is generated after the children are published.
  `report_generator.py:10`: a selection succeeds after all its children; it links to
  an operator's job that may still be active (`LinksAreReports`).
- `_common.py:265`: the alert is about restarts; several deliveries count one
  restart (`NoRestartMissed` is an inequality).
- `boot_time.py:7` says that the report's SQL shares the jitter tolerance;
  `report_uptime_stats` counts distinct raw values.  `reboot_events` marks the first row
  of a range and every row after one without a boot time as a reboot
  (`EventsAreCounted`).
- Concurrent upserts can lose a history row (`HistoryExplainsRow` holds without
  overlap); a placeholder row has no history.
- An inventory does not delete the cached dashboard (`RedisFollowsTables`).  Without
  Redis, "online" is decided by `last_seen_at`, which only inventories move.
- `task_service.py:91`: digests are "separated by path"; the key has the host and the
  validator only (`DigestFitsFile`).

Metrics:

- The CPU charts have no boot gate, unlike the live figures (`SharesAddUp`).
- A component that is NULL drops out of GREATEST; host sums miss a core without a
  value.
- The fleet's retransmission ratio counts some servers in the numerator only
  (`FleetMatchesServers`).
- Error columns take the largest minus the smallest counter, which a reset turns
  into new errors (`ErrorsAgree`); `latest_saturation` does not see the reset of one
  interface (`SnapshotMatchesCharts`).
- The card judges the CPU by the cores of the sample (`query/metric.py:63`), the charts
  by those of the inventory (`metric_sql.py:180`): whoever counts fewer is the stricter.
  The card falls back on a Windows queue length, the charts do not; the card counts a
  value on the line, the charts do not (`SnapshotMatchesCharts`).
- `metric_snapshots` stops at a silence of more than 30 days (`PagesStopOnlyAtAGap`).

Sizing:

- A Windows CPU's printed saturation is an index next to a raw threshold
  (`shared.py:213`); the disk's index and judgement differ at exactly 20 ms
  (`SignalsAgree`); a CPU at exactly 70 % is short again after it was resized
  (`FollowingSettles`).
- The host's row hides a full mount behind another mount's date.  Its percentages
  are those of the window, while `/api/assessment` takes the inode percentage, the
  total and the last free space of a mount from the whole history: a mount that is
  gone, was larger once or ran out of inodes before the window is full to the API
  only (`FullMountsSeen`).
- An inventory may say that there are no cores or no memory (`schemas.py:261`), and
  a deficit of nothing is answered by nothing (`AxesFitTheirAction`).
- The APIs do not pass the disk's activity, so a host can be idle to them only; only
  `/api/assessment` prescribes less for a host that is short of something else
  (`ViewsAgree`).
- `report.py:148` describes the diagnosis without the disk bottleneck that it may
  show under any badge (`VerdictsAreExplained`).

Inventory and fleet:

- Storage: devices without an id fall out of the tree or under a disk without one;
  the free space of a group is shown under each of its volumes; a mounted array that
  is listed once per disk is counted once per row (`TreeShowsDevices`).
- Workloads: the page's socket categories include base services, `matched_ports`
  classifies without the pid, and a key port is hidden whatever its protocol
  (`WorkloadsAgree`); the list's menu offers categories its filter never finds.
- The list is filtered after it is cut into pages and ordered by a name that several
  servers may have; the overview reads at most 1000 ids while the reports read all
  (`FleetPagesAgree`).
- Disk activity: `query/report.py:98`, `environment.py:68` and tradeoff T24 say that
  only the reports fill in `disk_iops_baseline` and that the environment overview leaves
  it empty.  `report_aggregate` fills it in for all its callers
  (`report_sql.py:253`, `:347`), and the overview reads it (`environment.py:70`), so the
  overview agrees with the reports and contradicts the table of actions beside it and
  the server list, which pass `None` (`attention.py:533`, `mappers/server.py:367`).  T24
  also has the direction wrong: a server with active disks is idle where the activity
  is not looked at, and not in the report.  `mappers/server.py:363` says that list and
  dashboard have the same input (`FleetPagesAgree` names the servers).
- The overview judges support by the clock (`attention.py:344`), the cards of a report
  by its anchor (`attention.py:624`), so that one report shows two counts
  (`SupportCounted`).  Agent restarts are counted from an hour before the anchor to now.
- Attention lines are merged and selected by host name; a single server's report
  carries the whole fleet's.  `report.py:218` says that selecting first or last is
  the same, which shared names contradict.
- A Windows build that several releases share takes the mildest status with the latest
  date; of Linux entries the first that fits counts.  Servers without `os_id` are not in the support summary.
- The single report takes a missing online key for an outage of Redis
  (`report.py:287`).
- `/api/right-sizing` drops filter tokens that match nothing.

## 5. Proofs

| module | theorem | states |
|---|---|---|
| IngestConsumer_proofs | TypeCorrect, StoredOnce, NoLoss | `TypeOK`, `StoredOnceUnlessReopened`, `NoSilentLoss` |
| | RestartTypeCorrect, NoneMissed (of `AgentRestarts`) | `RestartTypeOK`, `NoRestartMissed` |
| InstallTasks_proofs | TypeCorrect, OnePending, NoGhosts, OutcomesStand, ZombiesArePublishedLate, Refinement | `TypeOK`, `AtMostOnePending`, `NoGhostPending`, `ReportedOutcomeStands`, `ZombieOnlyIfPublishedLate`, `ImplementsLifecycle` |
| ReportJobs_proofs | TypeCorrect, OneActive, Sharing, Verdicts, Links, Overtaken, Refinement | `TypeOK`, `OneActivePerInput`, `SharedOnlyWhenLate`, `VerdictStands`, `LinksAreReports`, `RefusedOnlyIfOvertaken`, `ImplementsLifecycle` |
| ServerRegistry_proofs | TypeCorrect, RedisFollows, HistoryExplains, EventsCounted | `TypeOK`, `RedisFollowsTables`, `HistoryExplainsRow`, `EventsAreCounted` |
| PackageDigest_proofs | DigestFits | `DigestFitsFile` |
| MetricStore_proofs | TypeCorrect, HistoryHolds | `TypeOK`, `HistoryInv` |
| | SharesHold, LoadIsReal, HappeningsShow, FleetMatches, SnapshotsMatch, ErrorsMatch, PagesEndAtAGap | `SharesAddUp`, `ChartsInventNoLoad`, `ChartsShowWhatHappened`, `FleetMatchesServers`, `SnapshotMatchesCharts`, `ErrorsAgree`, `PagesStopOnlyAtAGap` |
| SizingViews_proofs | AxesAreSafe, RootCauses, ViewsDoAgree, VerdictsExplained, SignalsDoAgree, FullMountsAreSeen, LoadKeepsHostShort, SizingSettles | `AxesFitTheirAction`, `RootCauseExplains`, `ViewsAgree`, `VerdictsAreExplained`, `SignalsAgree`, `FullMountsSeen`, `MoreLoadStaysShort`, `FollowingSettles` |
| InventoryViews_proofs | TopologyHangs | `TopologyHangsTogether` |

They hold for every value of the constants under one named assumption per module,
which TLC evaluates in every run:

- `IngestAssumption`, `InstallAssumption`, `ReportAssumption`, `RestartAssumption`:
  types of the constants, positive bounds, that the marks for a task without a row are
  no statuses of the wire (nothing else is assumed of what agents report), that finitely
  many deliveries reach the restart counter, and finitely many workers.
- `DigestAssumption`, `RegistryAssumption`, `NoneAssumption`: types, and that a
  measured boot time is off by no more than the tolerance.  `None` stands for NULL and is no value.
- `SizingAssumption`: a row has the types of `ReportRowRaw`, in which everything may
  be missing, and a mount those of its SQL row.  Of the values only one thing is
  assumed, `PeakCovers`: the 95th percentile of the buckets' maxima is not below that
  of their averages (`report_sql.py:84`).
- `NetworkAssumption`: there are finitely many interfaces.
- `StoreAssumption`, `SnapshotAssumption`, `IntervalAssumption`: there are finitely
  many servers, disks and interfaces, counters are natural numbers and start from 0
  at a boot, gauges may be missing, and a bucket and an interval are not empty.  What inventory and
  samples say of cores need not agree.

*StoredOnce.*  That a message is stored twice only if its claim failed is not
inductive.  `OnceInv` adds, each for messages that were not reopened: a handler past
its claim has the key in Redis and nothing stored yet (`ClaimHeld`); two deliveries of
one message are not both past it (`OneHolder`); and the key of a stored message is
still there (`AppliedHeld`).

*NoLoss.*  `NoSilentLoss` is not inductive: whether an acked message is lost is
decided when its delivery is judged a duplicate, or earlier, when the first
handler is cut.  `LossInv` adds: a handler's delivery is unacked at the broker
(`HandlerOwns`); a handler past its transaction has stored its message
(`StoredFirst`); an id claimed in Redis is applied or accounted for
(`ClaimExplained`); the same for a handler about to ack (`AckExplained`); and a
drain that ends within its budget with every consumer cancelled has no handler in
flight (`DrainedIsEmpty`), which is why the cause `"drained"` is never recorded.

*InstallTasks.*  `IInv` says which row a request's open transaction owns
(`OpenInsert`), that a server has at most one draft or pending row (`OneLive`),
that a target not yet issued has no row (`FreshTargets`), that a draft about to
commit and every pending row were published (`Published`), that a stored report
is one an agent sent and agrees with its row unless it said pending and was timed out (`Reported`), and that a failed row
without a report is past its deadline (`FailedLate`).

*ReportJobs.*  `OneActivePerInput` is inductive on top of `TypeOK`, since every
insert is guarded by the index and recovery moves a row between the two active
statuses.  `HoldInv` adds for sharing and verdicts: a job in two hands is late
for one of them (`SharedOnlyWhenLate`); unless its claim is late, a worker's job
is still running on that very claim or finished, never back in the queue
(`HolderKnown`); a row in a worker's hands has been claimed, twice if it is
shared (`ClaimsCounted`); a finished row still in a worker's hands was claimed
twice or finished by that worker unnoticed (`VerdictKnown`); and only a worker
in its error path has the cause `"store"` (`CauseKnown`).

For the links, `LinkInv` says that a row published by a selection is finished
(`ChildRowsDone`), that every link stored in a row leads to a row of one of its
children (`TableLinks`), and that what a worker has linked, and has left to link, are
children of the report in its hand, which no selection published (`HandKnown`).  For
the refusals, `TriesCounted` compares a counter with sets of rows: a request about to
insert has at least as many finished jobs of its input before it as it has made
attempts, and one about to select at least one job more, finished or active.  When
the select finds no active one, all of them are finished.

The refinement needs no further invariant.  A worker is `Unsure` while it handles the
exception of its own `finish_succeeded`; `VerdictKnown` is the condition under which
the abstract worker may write, and `CauseKnown` makes an unsure worker write a
failure.  The order of the queue compares two counts: the older pending rows are no
more than the other idle workers, which are fewer than the workers with nothing in
hand.

*NoneMissed.*  A count is compared with a set, so the invariant speaks of
cardinalities: `CountInv` says that, while no fault has happened, the counter is at
least the number of different new start times of the handlers past their
comparison (`Counted`), and that what Redis keeps is the first start time or one
that a finished handler stored (`KeptIsStored`).  A handler that leaves `Get`
without counting found its own value kept, so `Counted` does not grow; one that
counts adds at most one value.

*ServerRegistry.*  `RedisInv` says per key who owes what: a live page that is not
what the tables say has a handler that is to delete it or to run its transaction
again, was filled too late, or lost its deletion (`DetailFollows`,
`DashboardFollows`, the second one also where only the inventory's part of the
dashboard is old), a server whose row is recent has its flag or a handler that will
set it (`FlagFollows`), and nothing is cached of a server that is not there
(`NothingOfNobody`).  `HistoryInv` has a part that holds in any order - every
history row is a stored inventory, every stored inventory has a history row of its
boot and one of its start, and the server's row, and the one a handler compares
with, is a stored inventory or a placeholder (`AnyOrder`) - and a part for behaviours
in order (`InOrderKnown`): the row is the newest inventory and successive history rows
differ.  Both rest on `SameBoot`: two measurements differ by more than the tolerance
exactly if they are of two boots.  `EventsCounted` needs `AnyOrder` only: among the
history rows of a boot the first is marked, whatever came before it, and a marked row
that is not the first of its boot follows a row without a boot time
(`OneFirst`, `MarkedAgain`).

*DigestFits.*  `DigestInv`: the content and the validator a request saw at its HEAD
were served together (`HeadKnown`), and a cached or returned digest has the length of
a content that was served with its validator, and is that content's unless the
validator was raced (`CacheFits`, `DigestKnown`).  What has been served and raced only
grows.

*MetricStore.*  The state is simple and the properties are about queries, so there
is one inductive invariant and much theory.  `HistoryInv` says of two rows of a
server that one is `Later`: the work done by then is not less in any counter, the
number of resets is not less, and if it is the same the kernel's counters differ by
exactly that work; and that the present is later than every row.  A wrong clock does
not disturb it, since it is about pairs of rows whatever their timestamps are;
`Sane` says where timestamps and history agree.  The theory is that of sums over
finite sets (`SumsExist` to `SumByRows`: the community modules' fold has a value that
no order of summing changes, is monotone, and is additive over rows and columns), of
buckets and LAG (`Steps...`), and of the aggregates (`TrendMax`).

- `LoadIsReal` compares a mean of clamped differences, summed over interfaces, with
  the largest real difference; `HappeningsShow` turns every gate of the charts into
  a statement about the work done, for which `NoReset` between the two samples is
  needed.
- `SnapshotsMatch` shows that two ways to the two newest rows, and NULL treated in
  Python and in SQL, give the same verdict (`NewestIs`, `LiveSinceIs`).  For the CPU,
  `IndexSaturated` says when a queue is too long for a count of cores and `FewerCores`
  that it stays too long for fewer, whichever side counts them.  Each exception in the
  property is one the proof could not do without.
- `FleetMatches` rests on `Mediant`: a ratio of sums is at most the largest of the
  ratios.  It needs that a server with nothing in the denominator has nothing in the
  numerator.  This holds for CPU, memory, stall time and run queue by the WHERE
  clauses; for packets it does not, because retransmissions are counted for the host
  and packets for known interfaces only, hence `PacketsSent` and `PacketsMoved`.  A
  count of servers is a count because the rows of the fleet are the disjoint union
  of the servers' rows (`CountsIs`).

The proofs found three things in the model.  The store overwrote a row with
the same timestamp; the code keeps the first.  A Windows agent was given a
conntrack figure; `build_saturation_signals` has none for it.  And some properties
were stated for one disk or by index into a chart, so that they said nothing of
fleets the run does not have; they are now stated with `Raised` for any inventory.

*SizingViews.*  The inductive invariant `ViewsInv` is short: the row and the mounts
are well formed, and both views show them.  The work is in the lemmas about the
judgements, one per resource (`CpuJudged`, `MemJudged`, `DiskJudged`, `IoJudged`,
`NetJudged`), which say when each status is given and what target comes with it;
`HostUnder` and `HostExplained` fold them into the host's verdict.  `SizingSettles`
needs the arithmetic of the targets (`CpuTargetBounds`, `MemUnderCovers`): rounding
up a target at 70 % of the cores and measuring the same load again stays on the
right side of the line; here `PeakCovers` is needed, since memory is sized by its
near-peak and judged by its 95th percentile.

*TopologyHangs.*  `Collected` says that the rows are some of the agents'; the rest is
about one state.  `DrawnTogether` is the heart: two servers are in one network
exactly if they are `Neighbours`, whether the subnet is split by gateway or not.
`BehindGateway` uses that a server is a member of a subnet once.  For an added
interface, `MembersGrow` says that no member is lost, so that a server disappears
only with a subnet that is split now and was not before.

Only model-checked: the liveness properties (`EverySettled`, `StopsWhenTold`,
`PendingEnds`, `EveryJobEnds`), which rest on fairness; and of `InventoryViews`
`TreeShowsDevices`, whose subject is a recursive walk that the prover has no
induction for, `WorkloadsAgree` and `FleetPagesAgree`, which compare sequences sorted by several
keys: `SortSeq` and `SelectSeq` are opaque to the prover.  `ReportJobs!ImplementsLifecycle`
is proved only, in no run.

## 6. Not modelled

"Modelled" in `PROJECT.json` means every operation that changes state or decides
something; "partly" leaves out what the component's note names.

- Task and report pages (`web/services/query/task.py`, `report_history.py`,
  `report_serializer.py`): they print or convert rows of the modelled tables one by
  one.
- View models and DTOs: data classes; their fields are the records of the modules.
- Routers, templates and the front end: HTTP and HTML around the modelled services.
- Inbound schemas: whether a body validates is a property of the message.
- Configuration, logging and migrations: settings are constants, and migrations run
  before the processes start.
- The percentiles of `report_aggregate` (inputs of `SizingViews`), per-core figures,
  the filesystem card, the disk error counters, the lines per device and per mount of a
  server's page (the charts' `collapse=False`), the parsing of addresses, trend
  images, and the wording, layout and JSON form of pages and reports.
- Connection pools and statement timeouts: a database call succeeds, fails, or
  succeeds without an answer.
- The isolation level beyond what each statement relies on: a statement sees
  committed rows, an insert waits for a rival on the unique index.
- RabbitMQ's and Redis' own replication.

# ScanRay Sonar in TLA+

A verification project for ScanRay Sonar: the concurrent core of the program as
TLA+ modules, checked by TLC on small instances and proved about with TLAPS.
Line references are to `src/` of the repository.

- [The system](#the-system): components, state, interaction, what is hard
- [The modules](#the-modules): what each one models and how it maps to the code
- [The runs](#the-runs): what TLC checks, bounds, fairness
- [The proofs](#the-proofs): theorems, invariants, assumptions
- [Disagreements found](#disagreements-found)
- [Not modelled](#not-modelled) and [the plan](#the-plan)

## The system

Sonar watches network appliances over SNMP and hosts through an agent.

| Process | Components | State it keeps |
|---|---|---|
| `sonar-poller` | poll scheduler, check loop, trap receiver, flow listener, Meraki sync | worker map, semaphore, last counters |
| `sonar-api` | REST and websocket API, alarm engine, presence sweep, retention | rules copy, pending windows, ws hub |
| `sonar-collector` | site-side SNMP poller, discovery, passive SNMP | worker map, last counters, config on disk |
| `sonar-probe` | host telemetry, agent checks, self-update | config on disk, trackers, its own binary |
| Postgres / Timescale | every table | the only state shared by all |
| NATS | `metrics.appliance`, `metrics.agent`, `metrics.check`, `alarm.*` | messages in flight, at most once |

### Components and what makes each correct

**Poll scheduler** (`internal/poller/scheduler.go`). Operations: reconcile the
`appliances` table with the worker map every 30 s; per worker: tick, wait for a
slot, dial, collect, persist, publish. Hard: workers are cancelled and replaced
while they are mid-poll; the result set may end early; credentials may not
open; the table changes all the time. Correct when: no appliance has two live
workers; slots are neither leaked nor overdrawn; a delisted appliance is left
alone in the end, a listed one is polled for ever, at its current interval; a
failure reaches the row.

**Check loop** (`internal/poller/checks.go`, `internal/checks`). Runs due checks
one by one under the scheduler's semaphore, or leaves them to an online agent.
Hard: two runners decide separately; samples and check row are not one
transaction. Correct when: every due check has exactly one runner.

**Alarm engine** (`internal/alarms/engine.go`). Operations: refresh rules every
30 s; evaluate a metric; open; auto-clear; dispatch. Rule edits, ack and clear
come from the API. Hard: COUNT and INSERT are two statements; windows live in
memory and survive errors, disabling and re-enabling; restarts forget them;
three callbacks run concurrently. Correct when: at most one open alarm per
(rule, target); no alarm opens or resolves before its window; a rule that keeps
firing has an alarm and one that keeps quiet does not.

**Expression language** (`internal/alarms/miniexpr.go`). Pure. Correct when:
conjunctions evaluate as written and a missing field is falsy.

**Notification dispatch** (`internal/alarms/dispatch.go`, `internal/notify`).
One goroutine per notice, two minutes for all channels and their audit rows.
Hard: a channel that is slow, fails or hangs; notices that overtake each other or
are lost by a crash. Correct when: what goes wrong with a channel costs only
that channel.

**Appliance delegation** (`internal/api/handlers_collectors_snmp.go`,
`internal/collector/snmp_poller.go`). `collector_id` says who polls. Hard: the
hand-over between two pollers that each read the row at their own time.
Correct when: in the end only the owner writes.

**Enrollment** (`internal/api/handlers_agents.go`, `handlers_collectors.go`,
`internal/probe/enroll.go`). Tokens with `max_uses`, expiry and revocation. Hard:
concurrent use, lost responses, re-enrollment by hostname. Correct when: a token
admits no more than `max_uses`, and none once it is revoked.

**Presence** (`internal/probe/run.go`, `internal/api/agent_presence.go`). A
bounded writer, heartbeats, a row touched by the server, a sweep. Hard: old and
new connections of one agent, frames in flight, a sweep that acts on what it
read. Correct when: each silence has one offline event, and a lasting one does
have it.

**Self-update** (`internal/probe/update*.go`, `internal/probesign`). Download,
staging file, two renames, a helper process, a supervisor. Hard: a crash or a
fault anywhere, a deployment between manifest and download. Correct when: what
stands at the path is a whole build and a published version arrives.

**Discovery** (`handlers_collectors.go` jobs, `collector/discovery_poller.go`)
and **passive inventory** (`handlers_passive_snmp.go`). Hard: a job whose stamp is
written before its answer arrives, also for a collector that was deactivated; batches of two collectors merged
concurrently at READ COMMITTED. Correct when: who answers is found, and a device
is retired when, and only when, it was missed often enough.

**Meraki** (`poller/meraki_*.go`). Inventory and telemetry of a Dashboard. Hard:
two syncs at once, rows that change hands during a pass, answers that fail one
by one. Correct when: each device is an active appliance that shows the state
Dashboard has of it.

**Host telemetry** (`internal/probe`: snapshots, slow loops, sockets, names,
latency). Hard: loops of an ended connection go on beside the next one's; pids
are used again; caches keep what a cut-off query left. Correct when: what is on
the screen in the end is what the host has.

**Compliance** (`internal/compliance`, `handlers_agent_dex_ingest.go`). Hard: two
evaluations of one host at once; a list of issues and a map of their codes.
Correct when: the open issues become those of the host.

**Retention** (`internal/retention`). Hard: two appliers with settings of
different age; settings that cannot be read. **Users and sites**
(`handlers_resources.go`): counts that another request overtakes. **Traps and
flows** (`poller/traps.go`, `internal/flows`): a loop each; traps without a site,
batches that fail. **Topology** (`handlers_topology*.go`): one link told by two ends in two
protocols under two names.

**Authentication** (`internal/auth`), **DEX score** (`internal/api/score.go`),
**SNMP client** (`internal/snmp`), **envelope** (`internal/crypto`), and the
reading handlers, reports, documents and UI: see `PROJECT.json` for each one's
status.

### How they interact

- API to poller: only through the `appliances` and `checks` tables.
- Poller to engine: `metrics.*` messages on NATS, at most once.
- Engine to API: the `alarms` table; operators ack and clear rows the engine
  counts and clears too.
- Collector and probe to API: HTTP and websocket, each call may be lost.

## The modules

| Module | Models |
|---|---|
| `PollScheduler` | scheduler, its workers and semaphore, the table it reconciles with |
| `AlarmLifecycle` | what an alarm key promises: the abstract specification |
| `AlarmEngine` | engine, rule editor, ack, clear, pruning; implements `AlarmLifecycle` |
| `AlarmWindow` | `AlarmEngine` with a history of the verdicts per key |
| `Delegation` | one appliance between `sonar-poller` and the collectors it may be delegated to |
| `TokenBudget` | what an enrollment token promises: an abstract specification |
| `Enrollment` | tokens, agents and collectors, from token to deletion; implements `TokenBudget` |
| `Presence` | probe and server end of a connection, `last_seen_at`, the offline sweep |
| `SelfUpdate` | the probe's exchange of its own binary, on both platforms |
| `SyntheticChecks` | check rows, vault, runner selection, the central loop |
| `Compliance` | frames, history and the issues of one host |
| `Accounts` | users, sites and the counts before a delete |
| `PassiveInventory` | captures, and the merge with its row locks |
| `Discovery` | jobs, sweeps and the devices they find |
| `MerakiInventory`, `MerakiHealth` | the sync of appliances; their telemetry |
| `ProbeLoops` | loops of a probe that outlive the connection that started them |
| `HostProcesses`, `HostTelemetry`, `HostPeers` | stopped processes; slow caches; sockets, names and latency |
| `Notices` | the dispatch of one alarm's notices |
| `Retention` | settings, policies, pruning |
| `Receivers` | traps and NetFlow records |
| `Topology` | the graph of a site |
| `Shared`, `Services` | what the modules of this list have in common, and their composition |
| `MC*` | the small instances, where a configuration alone cannot say them |
| `PollSchedulerProofs`, `AlarmEngineProofs`, `AlarmWindowProofs`, `DelegationProofs` | theorems and proofs |
| `EnrollmentProofs`, `ProbeProofs`, `PassiveInventoryProofs` | the same of `Enrollment`, of `Presence` and `SelfUpdate`, of `PassiveInventory` |
| `ServicesProofs` | the same of `Accounts`, `Topology` and the types of the rest; what holds of each component alone, carried over to `Services` |

### PollScheduler

| Variable | Code |
|---|---|
| `row` | the columns of `appliances` the query of `reconcile` looks at |
| `outcome` | `last_snapshot` (did the mandatory groups answer) and `last_error` (set or NULL) |
| `rec` | the main goroutine inside `reconcile`: rows not handled yet, `seen` |
| `handle` | `s.workers`: the cancel function, named by the goroutine it cancels, and `pollInterval` |
| `job` | the worker goroutines: where each is, for which appliance, and whether its context is live |
| `slots`, `chk` | `len(s.sem)` and the check loop's use of it |

`row.state` folds `is_active`, `collector_id` and "row exists" into what the
query tells apart: `central` is selected, `away` is not, `gone` is deleted.
`sealed` is the value of `enc_snmp_creds` together with the target it is opened
for; a value opens or does not.

One iteration of the loop over the result set is one step (`KeepWorker`,
`StartWorker`, `RefuseWorker`): between the look-up and the registration nothing
else writes the worker map. `ReconcileSweep` may come with rows left, because
`rows.Err` is not consulted. The rows are handled in any order, as the query has
no ORDER BY. A cancelled worker that waits for a slot, or polls, goes on until
it notices; `select` may prefer a ticker over a cancelled context, so
`BeginPoll` does not ask whether the context is live.

Time is left out: the ticker may fire and the 30 s may pass whenever a worker
waits. `CollectAll` has no error result, so `Collect` always leads to the
transaction; `PollFails` stands for a bad address, a failed dial, a cancelled
context and a failed transaction. A deleted appliance makes the transaction
fail, since the samples refer to the row.

### AlarmLifecycle and AlarmEngine

`AlarmLifecycle` knows, per key, whether an alarm is open and what the metrics
seen so far allow (`ripe`). It may open only when `ripe` says so and only when
none is open; it resolves by itself only when `ripe` says so; an operator may
clear at any time.

| Variable | Code |
|---|---|
| `ruleRow`, `alarm` | the tables |
| `up` | whether `Run` found NATS connected |
| `rules` | `e.rules`, with each rule's windows |
| `pend` | `e.pending`: ages of `truthySince` and `falsySince` |
| `sub` | one callback per subject: its target, its copy of `e.rules`, the rules still to open or clear, the one whose COUNT said zero |

An expression is its verdict, chosen freely per metric: `truthy`, `falsy`, or
`error`. A time stamp is its age in ticks, counted up to `Horizon`; windows are
within `Horizon`, so no comparison can tell a larger age. A metric's evaluation
up to its database calls is one step (the callback alone writes its pending
entries: a key's target belongs to one subject, and NATS calls a
subscription's handler serially); every COUNT, INSERT and UPDATE is a step of
its own, so edits, operators, pruning, refreshes, ticks and a restart come
between them. The code decides and acts rule by rule, the model decides all
rules of the metric first; the decisions read only the callback's copy of the
rules, the metric and its own entries, and `now` is read once, so the outcome is
the same. The order of the rules is left open.

`AckAlarm` accepts an alarm acknowledged before, as the handler does. The
alarm's `id` is reused after pruning; a `BIGSERIAL` is not, but nothing in the
engine remembers an id across steps.

`AlarmWindow` adds `seen`: for how long the verdicts have all been truthy, or
all falsy. With `AllMetrics = FALSE` it looks at the metrics the rule was
evaluated on, with `TRUE` at every metric of the target. It is a history
variable: no action of the engine reads it.

### Delegation

| Variable | Code |
|---|---|
| `row`, `coll` | `is_active`, `collector_id`, `poll_interval_s` of the appliance; `is_active` of the collectors, or deleted |
| `listed` | what a collector has read from `/collectors/me/snmp-targets` and not reconciled with yet |
| `worker` | the `workers` maps of both programs, and where the goroutine in each entry is |
| `request` | writes under way: HTTP calls and their handlers, transactions of `sonar-poller` |
| `polled` | who wrote last to `last_snapshot` or `last_error` |

The two programs differ in one point that matters: a collector's write is
`sent`, and becomes `accepted` when the handler has read the row and found the
sender its owner (`CheckOwner`); a write of `sonar-poller` is never asked.
`Write` comes later and does not look again. A result that fails is followed by
a report of the failure, unless its sender no longer waits: an HTTP call whose
45 s are over may still be at work in `sonar-api`, while `postPollError` gets
the context that has just expired. An answer may be lost after the write, and
then an error follows a success.

A worker whose context is cancelled can send nothing more, so it is left out at
once; what it has sent stays, `late`. `DELETE` of a collector sets
`collector_id` to NULL by the foreign key: the appliance goes back to
`sonar-poller`. The collector's process goes on with its token, which no handler
compares with the collectors table. `UpdateAppliance` asks a new owner only to
exist: the handler's checks (active, same site) and its UPDATE are separate
statements, every collector was active when it enrolled, and a later PATCH of
`siteId` keeps the collector, so nothing more holds at the time of the UPDATE.

Two things are coarser than in `PollScheduler`: `sonar-poller` applies its list
in the step that reads it, and the slot a poll waits for is the choice between
`PollEnds` and `PollIsDropped`.

### Services: one component at a time

The modules from `Enrollment` to `Topology` share no state: none reads a table or
a memory that another one of them writes in a way its properties depend on. An
interleaving of two of them is therefore worth no more than each of them alone,
and `Services` composes them as a sum: `focus`, chosen at the start, names the
component that moves. `calm` is the end of the faults: every module may fail a
statement, lose an answer or kill a process while `Fault` holds, any number of
times, and one fair step, `FaultsEnd`, makes them cease. Safety is checked with
and without faults; liveness says what is put right after the last one. There is
no bound on faults, edits or restarts: the state is finite because identities
are reused and dates are kept only as far as they are compared. What is bounded
has a name: `Identity`, `Link`, `WireRoom`, `MaxVersion`, `HostCount`, `MaxClock`,
`ReportLimit`.

| Module | State, and what stands for it in the code |
|---|---|
| `Enrollment` | `token`, `member`: the tables; `enrolling`: a request from its `SELECT ... FOR UPDATE` to its answer; `identity`: the saved JWT. A kind tells agents from collectors |
| `Presence` | `link`: outbox of the writer, socket, frame the server is at; `seen`, `told`: `last_seen_at` and the newest event as the sweep compares them; `due`: rows read by the sweep |
| `SelfUpdate` | `exe`, `bak`, `staging`: files, each a build, torn or absent; `probe`, `helper`: where each process is; `published`: what the API embeds |
| `SyntheticChecks` | `check`, `vault`: tables; `near`: agents of the last two minutes; `tick`, `running`: what `tickChecks` has read and `executeCheck` is at |
| `Compliance` | `posture`: what the host would report, as far as two rules see it; `frame`: per connection, the snapshot and what its evaluation is to open and clear; `openIssues`, `issuesCount`: rows and column, the column the length of the list; `rebootHeard`: the engine's last message |
| `Accounts` | `user`, `place`, `home`: rows; `deleting`: a delete between count and DELETE |
| `PassiveInventory` | `inventory`, `feed`: committed rows and newest event; `pass`: a batch, the rows its transaction has written and so locked, and the passes whose merges overlap it |
| `Discovery` | `inService`: `is_active` of the collectors; `scanDue`: the stamp; `discovered`: rows; `scanner`: a collector's list of jobs and the devices it has still to post, in the order of their addresses |
| `MerakiInventory` | `dashboard`: names of the devices; `merakiRow`: appliances by name; `syncing`: loop and button, each with the list it was told |
| `MerakiHealth` | `condition`: Dashboard's status; `shown`: `last_snapshot`; `reading`: the pass with its map of serials to rows |
| `HostProcesses` | `alive`, `clock`: the host; `sampling`: a list being made; `priorProcs`, `stopped`: memory of the probe, each stop with a history mark, whether it was one |
| `HostTelemetry` | `searchHangs`: the host's Windows Update; `ticking`: the health loop of each connection; the caches by their names. Of the health signals only the time they take is kept, of the warnings those of the inventory |
| `HostPeers` | `dnsCache`, `asking`: the cache and a worker of `resolveBatch`; `socketRow`: the snapshot; `latencyRows`, `icmpBroken`: `extras` |
| `Notices` | `dispatch`: the goroutine of each event, channels to go and half minutes left, `late` while a mail over STARTTLS is out; `audited`: audit rows |
| `Retention` | `keepDays`, `policy`, `alarmRow`: the database; `applying`: the runner and a PUT at work, each with the settings it loaded |
| `Receivers` | `trapped`, `handling`, `trapAlarm`: socket, the trap between its look-up and its INSERT, alarms; `flow`: what has become of each record |
| `Topology` | `sysName`, `heardOf`: last snapshots; `graph`: the answer as far as it is drawn, and the reports still to draw |

`silent`, `owed`, `owedStops`, `ended` of a stop, `stranded` and `applying[a].least` are history
variables: no action of the code reads them. `pass[k].before` and `after` are
read by one guard, `BeginMerge`, which says what the code leaves to its timing: a
collector waits minutes between two captures and gives a post 30 s, so it does
not begin and end a second merge within one merge of another collector. Without
that guard `RetirementIsTrue` is false for three collectors and a `RetireAfter`
of three. Where a handler is one transaction
that locks first (enrollment) it is one step per wait; where it reads without a
lock and writes later (deletes, merges, compliance, the sweep, pruning) the two
are steps of their own.

## The runs

| Run | Module, configuration | Expect | Checks |
|---|---|---|---|
| `poll_safety` | `MCPollScheduler`, `PollScheduler_safety` | pass | `TypeOK`, `SlotsConserved`, `OneLiveWorker` |
| `poll_liveness` | `MCPollScheduler`, `PollScheduler_liveness` | pass | `DelistedDrains`, `CadenceConverges`, `ListedKeepsPolling` |
| `poll_creds_retry` | `MCPollScheduler`, `PollScheduler_retry` | violation | `RetriedOnReconcile` |
| `alarm_safety` | `MCAlarmWindow`, `AlarmWindow_safety` | pass | `TypeOK`, `OneOpenPerKey`, `ImplementsLifecycle`, `WindowRespected` |
| `alarm_liveness` | `MCAlarmEngine`, `AlarmEngine_liveness` | pass | `TruthyOpens`, `FalsyClears` |
| `alarm_window` | `MCAlarmWindow`, `AlarmWindow_documented` | violation | `ContinuouslyTruthy` |
| `delegation` | `Delegation`, `Delegation` | pass | `TypeOK`, `WritesWereOwned`, `LosersFallSilent`, `OwnerTakesOver` |
| `delegation_deactivated` | `Delegation`, `Delegation_deactivated` | violation | `DeactivatedClaimsNothing` |
| `services_fleet` | `Services`, `Services_fleet` | pass | see below |
| `services_site` | `Services`, `Services_site` | pass | see below |
| `services_host` | `Services`, `Services_host` | pass | see below |
| `services_retention` | `Services`, `Services_retention` | violation | `KeptAsLongAsSet` |

`services_fleet` checks `ServicesTypeOK`. The three passing `services` runs share out
the components: `services_site` has the passive inventory, discovery, both Meraki
loops and the topology, `services_host` the three loops of the probe, notices,
retention and the receivers, `services_fleet` the others. Of each they check:

| Component | Property | What it shows |
|---|---|---|
| `Enrollment` | `EnrollmentImplementsBudget` | concurrent requests, revocation and expiry implement `TokenBudget` |
| | `CredentialsWithinBudget` | lost answers cost uses, they never yield any |
| `Presence` | `OfflineOncePerSilence` | no second event for one silence, whatever falls between the sweep's query and its events |
| | `SilenceIsAnnounced` | a host that is gone for good has its event in the end |
| `SelfUpdate` | `RunnableAtPath` | torn files never reach the path; none is missing there but for a fault between the renames |
| | `UpdateArrives` | the published version runs in the end, unless stranded so |
| `SyntheticChecks` | `CentralChecksRun` | a check no agent may take is run again and again |
| | `LostCredentialShows` | a check whose credential cannot be opened fails visibly and stays so |
| `Compliance` | `PostureFollows` | late evaluations are put right: rows, the length of the list, and what the engine heard |
| `Accounts` | `LostOnlyWhenOvertaken` | a delete takes the last superadmin, or a site in use, only if its count was overtaken |
| `PassiveInventory` | `RetirementIsTrue` | no early retirement under overlapping merges, and the feed says so |
| | `SilentRetires` | a device that is gone is retired, through deadlocks and aborts |
| `Discovery` | `AnsweringIsFound` | a lost dispatch costs time, not the host, once every collector of the site is in service |
| `MerakiInventory` | `DeviceShowsUp` | overlapping syncs converge |
| `MerakiHealth` | `HealthArrives` | stale rows and missing answers are put right |
| `HostProcesses` | `ExitIsShown` | every noted exit is shown, but for those that the full ring has dropped |
| `HostTelemetry` | `InventoryArrives` | no cancelled tick leaves its emptiness for good; a search that hangs costs the patches and a warning, and both are put right when it ends |
| `HostPeers` | `NetworkArrives` | cut-off lookups age |
| `Notices` | `EarlyChannelsAreHeardOf` | channels the two minutes reach at the slowest are told, or audited as failed, unless a mail over STARTTLS outlasts its minute before them |
| `Retention` | `SettingTakesHold` | the older settings of the other applier do not last |
| `Receivers` | `ReceivedIsKept` | traps reopen what was cleared, whatever became of those before; no record stays with the listener |
| `Topology` | `GraphIsTrue` | the graph is that of the reports, in whatever order they come; a VPN peer is drawn once per name |

### Bounds and why they are enough

- `poll_safety`: two appliances, three goroutines, one slot, two intervals, two
  credential values of which one does not open, two edits, one restart. Three
  goroutines let one appliance have an old and a new worker while the other
  polls; one slot makes every pair of polls, and every poll and check, compete.
  Goroutines and appliances are symmetric. `outcome` is not part of the
  fingerprint: no action reads it and none of the run's invariants depends on
  it beyond its type.
- `poll_liveness`: one appliance, two goroutines, two edits, no restart. One
  appliance is enough because the properties are per appliance and the only
  coupling is the slot, which the check loop contends for. After the second
  edit the table is quiet, which is what the properties presuppose.
- `alarm_safety`: one rule, two targets of different kinds, so two callbacks run
  against the same tables; for-windows 0 and 1, clear-window 1, two rows, two
  edits, one restart. Two rows are enough to break `OneOpenPerKey`; two edits
  disable and re-enable a rule or change its windows with a callback in hand.
- `alarm_liveness`: two rules on one target, whose single callback they share;
  windows of one tick, one edit, one restart.
- `delegation`: one collector besides `sonar-poller`, two writes under way, one
  interval; edits, deletions and restarts without a bound. Two writes let a late
  one of each poller overlap with a current one. A hand-over between two
  collectors is two hand-overs of this kind for the properties, which speak of
  one poller at a time; `WritesWereOwned` is proved for any number.
- `delegation_deactivated`: two collectors, two intervals; the counterexample
  needs three states.
- `services_fleet`: two tokens, two hosts of one name in one site, ids 1 and 2,
  caps of one use: the second request for a use, and the upsert by host name,
  happen. One agent with two connections, room for one frame in the writer and
  one on the wire, a sweep of one row: old and new connection overlap and
  every queue is full. Three versions on both platforms: an update is
  overtaken by the next. One check, one credential and one agent, at the check's
  site. Two connections of one host, and a CVE linked to none or to two of its patches
  and apps (`LinkLimit`): the list of issues is longer than the rows. Three users,
  one site with one resident: two superadmins delete each other.
- `services_site`: two collectors and two addresses, retirement after two misses,
  so that a miss by each retires; two scanners, of which any may be out of service,
  over two hosts with a limit of one device; two serials that compete for one name;
  one serial and two rows; two appliances, one stranger whose name contains one of
  theirs, two reports, which is a link told twice or two links.
- `services_host`: two connections' loops; two pids, a clock of two halves of a
  second and a ring of one stop, so that a pid returns within a second, a true or a
  false stop pushes another out of the ring before a snapshot shows it, and two
  stops of one list do not both fit; one peer; three channels, of which the second
  and third are mails, and two minutes: the third can be left without time; two
  cleared alarms, two days, batches of one; three records in batches of two, one
  source of traps.
- `services_retention` takes one component with the same constants.
- `MaxEdits` and `MaxRestarts` bound the counters of the same name in the
  guards; `Worker` and `AlarmId` bound identities that are reused; `Horizon`
  bounds ages.

### Fairness and why the code justifies it

`PollScheduler!Fairness`: reconcile runs on a ticker and its loop ends (weak
fairness of the query and the sweep); a row that is read again and again is
handled again and again (strong fairness of `HandleRow`: the connection is not
lost every time before the same row); a waiting or polling worker goes on (weak
fairness per worker: the ticker fires, every wait has a deadline, and the
database answers, since `persist` has no deadline of its own); a cancelled
worker takes the `ctx.Done` branch in the end (strong fairness of `StopWorker`:
`select` chooses uniformly). Edits, checks and restarts are not fair.

`AlarmEngine!Fairness`: time passes; the refresh ticker fires; every target goes
on sending metrics (strong fairness: its subject's callback is free again and
again); a callback that has something to do goes on (every statement ends);
retention prunes, without which the finite set of rows would be used up. The
run leaves `error` out of `Verdict`: the property is about rules that can be
evaluated on what the target sends.

`Delegation!Fairness`: both reconciliations run on tickers, and a collector's
list arrives in the end (strong fairness of `Reconcile`: not every request
fails); a ticker fires; every write under way ends, since a call has a deadline
and a statement returns; not every poll is dropped, not every check and write
fails (strong fairness of `PollEnds`, `CheckOwner` and `Write`). The last three
are what "the device, the API and the database are reachable" means; without
them `OwnerTakesOver` is false, and a collector whose polls all run into their
deadline never even sets `last_error`. Operators and restarts are not fair, and
not bounded either.

`Services`: each component's fairness asks something only of the component that
has the focus. Weak fairness everywhere but in `SelfUpdate` and `Receivers`: tickers fire
(sweeps, due loops, captures, snapshots, the hourly runner), goroutines and
transactions go on, time passes where something ages, the supervisor starts
what has ended. `SelfUpdate` asks strong fairness of the helper's move on
Windows, which a running probe, started by the watchdog, may refuse each time
it is tried: not every try meets one. The server finds a dead connection in
the end (its ping every 25 s). `Receivers` asks strong fairness per source of taking
a trap from the socket: a socket is a queue, so no datagram waits for ever while
others are taken, though the loop is at work in between. Nothing is asked of a mail
over STARTTLS: it may never return. `FaultsEnd` is fair, and that is an assumption of
every liveness property of these runs: failures are not permanent. Operators,
hosts, devices and Dashboard are not fair.

Deadlock is checked in every run of the first three components: the modelled
processes never stop. The `services` runs leave it out: accounts, traps, flows and
notices have an end once nothing arrives any more.

## The proofs

TLAPS proves, for every value of the constants that satisfies the assumptions
named in the modules:

| Theorem | States |
|---|---|
| `PollSchedulerProofs!TypeCorrect` | `Spec => []TypeOK` |
| `PollSchedulerProofs!SlotsAreConserved` | `Spec => []SlotsConserved` |
| `PollSchedulerProofs!OneLiveWorkerEach` | `Spec => []OneLiveWorker` |
| `AlarmEngineProofs!TypeCorrect` | `Spec => []TypeOK` |
| `AlarmEngineProofs!OneOpenAlarmPerKey` | `~CountMayFail` implies `Spec => []OneOpenPerKey` |
| `AlarmEngineProofs!EngineImplementsLifecycle` | `Spec => ImplementsLifecycle` |
| `AlarmWindowProofs!WindowsAreRespected` | `~AllMetrics` implies `WatchedSpec => WindowRespected` |
| `DelegationProofs!TypeCorrect` | `Spec => []TypeOK` |
| `DelegationProofs!OwnedWrites` | `Spec => WritesWereOwned` |
| `ServicesProofs!ServicesAreAsAlone` | `ServicesMove` implies the specification of each component alone |
| `ServicesProofs!FleetIsTyped`, `SiteIsTyped` | `FleetSpec => []ServicesTypeOK`, `SiteSpec => []ServicesTypeOK` |
| `ServicesProofs!FleetCredentials` | `FleetSpec => []CredentialsWithinBudget` |
| `ServicesProofs!FleetImplementsBudget` | `FleetSpec => EnrollmentImplementsBudget` |
| `ServicesProofs!FleetOfflineOnce` | `FleetSpec => OfflineOncePerSilence` |
| `ServicesProofs!FleetIsRunnable` | `FleetSpec => []RunnableAtPath` |
| `ServicesProofs!FleetLosesOnlyByRacing` | `FleetSpec => LostOnlyWhenOvertaken` |
| `ServicesProofs!SiteRetirementIsTrue` | `SiteSpec => []RetirementIsTrue` |
| `ServicesProofs!SiteGraphIsTrue` | `SiteSpec => []GraphIsTrue` |
| `ServicesProofs!KeptWhenSettingsAreRead` | `SiteSpec` and settings that are always read imply `KeptAsLongAsSet` |

The first nine are about specifications of one module. The others are stated of
the specifications the runs of `Services` check; each follows from a theorem of
the same content about the component alone (`EnrollmentAlone`, `PresenceAlone`,
..., initial states and steps without fairness) and from `ServicesAreAsAlone`: a
step of `Services` is a step of the component that has the focus and leaves the
variables of the others as they are. `online` alone is shared, by the processes
and the telemetry of a host; their two invariants are therefore proved as one,
`HostInv`.

The assumptions on the constants are the ones TLC evaluates in every run: bounds
and windows are natural numbers, limits are not zero, `None` is none of the
records and names it stands beside, the ids of users and of sites differ
(`AccountsAssumption`; they are UUIDs), an unnamed neighbour's address is no
name (`TopologyAssumption`), and there are finitely many collectors
(`PassiveAssumption`: a merge overlaps finitely many others).

**Slots.** `SlotsConserved` is inductive together with `TypeOK`, and `TypeOK`
needs it: `slots - 1` is a natural number only because the goroutine that
releases is one of the holders that are counted. The two are proved as one
invariant, with lemmas on how the cardinality of the holders changes when one
goroutine enters or leaves.

**One live worker.** `OneLiveWorker` is inductive over `TypeOK`: a new worker is
live only after the handle's previous context is cancelled in the same step,
and the sweep forgets exactly the handles whose contexts it cancels.

**One open alarm.** `OneOpenPerKey` is not inductive: an INSERT is safe only
because its COUNT was zero and nobody else can open the key in between.
`UniqueInv` adds `InsertFree` (a callback that holds a rule to insert has no
open alarm for that key) to `Single`. It is preserved because only the callback
of the target's kind inserts for its key, and it holds at most one rule to
insert. Without `~CountMayFail` the first fact is lost, and so is the theorem.

**Implementation.** `Inv` carries `WorkInv`: what a callback still has to open or
to clear is due, `pend` of its key has reached the window of its copy. Ticks
only let ages grow; a restart empties the callback and the ages together; the
verdict that would reset an age can only come after the callback returned. Every
step then maps to a step of `AlarmLifecycle` or to a change of `ripe` alone.

**Windows.** `WatchInv` adds to `Inv` that every age in the engine's memory is
backed by an age of the history that is at least as old. The reverse does not
hold and is not needed: a restart forgets and the history does not. A step that
opens or clears is then an `InsertAlarm` or an `AutoClear`, whose work is due by
`WorkInv`, and what is due in memory is due in the history. With `AllMetrics` the
theorem is false, as run `alarm_window` shows.

**Owned writes.** `WritesWereOwned` follows from `Accounted`: a write that is
accepted, or whose sender owns the row now, has its ownership on record. It is
preserved because an acceptance reads the row that is current in that step, and
because every change of the row is recorded in the writes under way. `TypeOK`
needs `Waiting`: a write somebody waits for finds its worker in `writing`, and is
the only one that worker waits for; otherwise an answer could reach a worker that
has been replaced.

**Uses of a token.** `CredentialsWithinBudget` counts hosts that hold a
credential; that is not inductive, because an answer under way will become one.
`UsesAreCounted` counts, per token, the hosts that hold a credential of it or are
being answered (`Paid`), and bounds them by `used_count`, and that by `max_uses`.
It is preserved since a use is charged in the step that commits the member row,
while the token's row is locked: `LockIsHeld` says that one request at most is
between the lock and that commit, and that the row it read still has a use left.
An answer that is lost takes a host out of `Paid` and leaves `used_count`: the host
is no more in the sum, and its use stays spent. That uses are lost and never gained
is the refinement's to say.

**Refinement.** `Left`, `Issued` and `Revoked` map the two token tables to
`TokenBudget`: uses left, tokens issued, tokens revoked. Creating a token is
`Issue`, revoking is `Shut`, a commit is `Admit`, and all other steps (a lost
answer, a delete of the member, a lock taken, an expiry) leave the budget alone,
which is the content: nothing ever gives a use back, and none is spent of a token
that was revoked.

**One event per silence.** The sweep's rows are read in one statement and told of
one by one. `DueIsUntold` says that none of those to come has been told of in
this silence; it holds because only the sweep emits the event, one at a time,
and a touch begins a new silence.

**The binary.** `RunnableAtPath` needs to know what is about to be moved:
`StagedIsWhole` (a staged file that a process or the helper is going to move is a
whole build), `AsideIsWhole` (so is what the second rename would put back) and
`AttemptIsAlone` (an attempt of the probe excludes a helper's).

**Roll-off.** `KeptAsLongAsSet` is false, as run `services_retention` shows. What
remains of it needs `SettingsAreRead`, that the hourly runner finds the settings
row whenever it begins: then the days an applier goes by are no less than the
least setting since it began (`ByASetting`; later settings only lower that
least), and a row it deletes is older. The failed read of `settings.go:276` is
thus the only way to lose a cleared alarm early, whatever is saved or restarted
while an applier is at work.

**Retirement.** For a device that is active `miss_count` never exceeds the
batches without it (`MissesAreSilence`), although a batch may have read the row
before another reset it. That takes what a transaction has written and locked
(`PassesProgress`, `LocksAreHeld`), and a bound for a batch that began before a
later one told of the device: each merge that it met and that is over accounts
for one miss at most (`MergesMeet`, `LateIsRecent`), and there are fewer of them
than collectors. This is where `RetireAfter >= Cardinality(Probe)` in the second
half of the property comes from. The guard of `BeginMerge` was found here: the
invariant was not inductive without it, and TLC has the counterexample for three
collectors.

**The graph.** What `GraphIsTrue` says of the finished graph, `Drawn` says at any
time of the reports drawn so far, with `ProtocolsAreTrue` (a link that one
protocol found was reported in it) so that "both" can be earned later. A
report adds an edge, or merges with the one of the same ends and family, of which
there is one (`OneEdgePerFamily`, `AddEdgeEffect`, `MergeEffect`). Of each kind of link but
a VPN there is one family (`FamiliesDiffer`), so two ends have one edge of it; of a
VPN peer there is one edge per name, which is all that holds.

**Overtaken counts.** `CountsHold`: a count that no request has overtaken is
right still, there is another superadmin or nothing in the site. Whatever could
make it wrong marks it `overtaken` in the same step (`Overtake`).

**Types.** `ServicesTypeOK` is proved component by component. Two types rest on
more: a pass over Meraki's appliances knows the status of each device it is still
to write (`HealthInv`), and the lists of processes are finite, so that the stops
that enter the ring are a sequence (`ProcessesInv`).

Only model-checked: every liveness property, since liveness under fairness is
beyond the prover; that is all that the runs check of `SyntheticChecks`,
`Compliance`, `Discovery`, `MerakiInventory`, `MerakiHealth`, the three host modules,
`Notices` and `Retention` besides their types. Every invariant, action property
and refinement of a run that passes is proved.

## Disagreements found

1. `scheduler.go:196` logs "open creds failed; worker will retry on next
   reconcile". The handle is registered at line 191, before the credentials are
   opened, and stays registered; line 167 then finds "already running with the
   right cadence". The appliance is not polled again until its interval changes,
   it leaves the list, or the process restarts (`poll_creds_retry`).
2. `0015_alarm_lifecycle.up.sql:5-6`: "Alarms only open once a rule has been
   continuously truthy for this long". While a rule is disabled its pending
   window is kept and its metrics are not judged: after it is enabled again the
   first truthy metric opens at once (`alarm_window`).
3. `docs/src/collectors.md:29`: "deactivate (stop claiming new jobs)". Neither
   the handlers that list jobs and targets nor the token check look at
   `collectors.is_active`; a deactivated collector goes on polling
   (`delegation_deactivated`).
4. `docs/src/data-retention.md:37` says of the roll-off setting "How long **cleared**
   alarm rows remain". When the hourly runner cannot read the settings it
   takes the defaults and prunes by them (`settings.go:274-281`): alarms that
   every setting of the time keeps are deleted (`services_retention`). That read is
   the only cause (`KeptWhenSettingsAreRead`).

Read, but not stated as a run's property (the models allow what the code does):

- Polls: "All errors are logged + written to appliances.last_error"
  (`scheduler.go:229-231`), but `CollectAll` has no error result: a device that
  answers nothing yields a snapshot with warnings, which is stored as a success and
  sets `last_error` to NULL.
- Compliance: the stored count, announced as "open issue(s)" (`evaluator.go:426`), is
  the length of the list (`:391`), to which a CVE's code is appended once for each
  patch and app it is linked to, while the rows are opened by a map of the codes.
  `PostureFollows` says of the column what it is, the length of the list.
- Discovery: "deactivate (stop claiming new jobs)" (`docs/src/collectors.md:29`), but
  `handleCollectorJobs` gives the sweep to a deactivated collector too and records the
  dispatch; the vault and the results are refused to it
  (`handlers_collector_discovery.go:19-25`, `:84-89`), so that the sweep of a whole
  interval is lost. `AnsweringIsFound` holds once all collectors are in service.
- Processes: "records exits" (`dex.go:272-273`), but the last list's keys are made
  from a start formatted to the second, the new one's are in milliseconds: nearly every
  process that runs on is recorded as stopped by each list. With more than 200
  these crowd true exits out of the ring; `ExitIsShown` lets the ring forget them.
- Topology: "a link reported by both sides of the wire collapses into one edge", of the
  families "(l2 / wan / vpn)" (`handlers_topology.go:8-9`, `:239-240`), but the family
  of a VPN edge carries the peer's name (`handlers_topology_extend.go:206`, `:218`),
  and each end names the other one: an Auto-VPN link of two managed ends is two edges.
  `GraphIsTrue` exempts them.
- Checks: "Sonar schedules it" (`docs/src/checks.md:30`), but `handleAgentListChecks`
  passes one argument to a statement with two placeholders
  (`handlers_checks.go:374-385`), so no probe is ever given a check, and the centre leaves
  to an online probe what prefers one: such a check never runs. `CentralChecksRun`
  is about the checks that no agent may take.
- Users: "Check role + last-superadmin invariant atomically"
  (`handlers_resources.go:428-430`), but the transaction is READ COMMITTED and
  locks no other row, and the PATCH has no such check; `LostOnlyWhenOvertaken`
  says what remains of it. The count of a site's residents is the same.
- Updates: the Linux unit's `ProtectSystem=strict` makes the write of the staging
  file fail; the Windows install script moves the binary before it stops the
  service.
- Presence: nothing emits `agent.online` (`docs/src/devices.md:53`), `agent_stale` is
  not raised (`devices.md:57`); the sweep may announce a host that was touched
  in between; its LIMIT has no ORDER BY.
- Frames: `ingestMetrics` says that list and detail agree on the most recent
  snapshot, but writes whatever comes last; a failing geo update inside the
  transaction loses the frame.
- Collectors: a name given by PATCH is undone by the next hello
  (`handlers_collector_telemetry.go:68-80`, `docs/src/collectors.md:29`).
- Passive capture: an empty capture posts nothing, so a site that is wholly
  silent retires nothing; of an active device the newest event may say retired;
  a community that does not open is replaced by "public".
- Discovery: hosts beyond 512 of a subnet or 200 devices of a sweep are never
  reached; `subnets_per_period` is read and not used.
- Meraki: a sync that times out records nothing and runs again each minute; an
  upsert re-activates what an operator deactivated; a renamed device leaves its
  old row active; the first organisation that fails ends the pass; there is no
  retry after 429.
- Notices: a mail over STARTTLS has no deadline (`email.go:38-69`): when it returns after
  the two minutes, its own audit row and the notices and rows of all channels after
  it are lost, with nothing to say so; opened and cleared notices may arrive in reverse.
- Traps and flows: the last batch is inserted with a context that is
  cancelled already; the first failed INSERT drops the rest; without a site,
  or when the look-up of the appliance and of the site both fail, a trap is refused by
  the foreign key and only the debug log knows; when the look-up of the appliance
  alone fails its alarm is filed under the oldest site.
- Inventory: a Windows Update search that hangs leaves the inventory without missing
  patches and with a warning (`dex_windows.go:220-237`).
- Host network: `resolveBatch` returns its map at the total time-out while
  workers may still write to it; the ICMP warning stays, though its comment says
  "exactly once"; inbound connections listed before their listener are outbound.
- Topology: when both ends report, the rates of the other end replace those of
  the local one (comment at `handlers_topology.go:53-55`); a VPN peer that two
  names contain goes to either, by the order of a Go map.
- Documents of 64 KiB and more with an object store: `enc_body` is NOT NULL
  (`0013`) and NULL is inserted, so the upload always fails and leaves its object.

## Not modelled

The table of components in `PROJECT.json` gives each part's status. Left out for
good: packet formats and decoders, operating-system telemetry, SQL of the
reading handlers, reports, documents and the UI (stateless, or pure I/O).
Wording, logging and audit entries are left out of the modelled handlers.
`AlarmEngine` says nothing about who hears of an alarm; `Notices` begins where an
alarm has opened. The checks of one agent's own loop, the back-off of both
websocket clients, rates, scores and the expression language are arithmetic or
timing that no property here tells apart. Documents have no concurrency beyond
the single statement listed above. `MerakiHealth` has no SNMP poller beside it: a row that was polled by SNMP and
became a Meraki one keeps its `enc_snmp_creds` (`meraki_sync.go:80-86`), is still
listed by the scheduler (`scheduler.go:130-136`), and its `last_snapshot` is then
written by both. `HostPeers` has one peer, and the cap of 200 rows is out of reach.
The components of `Services` are not composed
with each other or with the poller: through which table each reaches another is
said in [How they interact](#how-they-interact), and no property spans two of
them.

## The plan

Done: scheduler, alarm engine, delegation with their proofs; the modules of
`Services` with their runs, and the proofs of all their safety properties. Next,
in this order:

1. Safety halves of the liveness properties that only TLC checks: what a step of
   `Compliance`, `Notices`, `Discovery` or the host modules may never do, as
   theorems.
2. `MiniExpr` and `Rates` as functions against reference definitions, with
   counters of a fixed width.
3. Composition of poller, metrics event and engine: an unreachable device and its
   open alarms.
4. Composition of `Notices` with `AlarmEngine`: who hears of which alarm.

Runs are kept few, one per question.

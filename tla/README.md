# A TLA+ verification project for NetInv

NetInv is a network inventory and monitoring system: eight Go services
(`src/backend/cmd`) around PostgreSQL, Redis, RabbitMQ, VictoriaMetrics and
ClickHouse, SNMP connectors (`src/connectors`) and a web frontend. This
directory holds TLA+ models of the parts where concurrency, failure and ordering
decide whether the system is correct, TLC configurations that check them on
small instances, and TLAPS proofs of nearly all safety results for every value
of the constants.

Every definition that models code is mapped to its lines in `PROJECT.json`
(`map`); paths below are relative to `src/backend/internal` unless they start
with `src/`.

## 1. The system

| Component | State it keeps | Operations | Module |
|---|---|---|---|
| Leader election (`collection/adapters/leader`, `platform/redisx`) | one Redis key with a token and a TTL | TryAcquire (extend or SETNX), Release | `LeaderLease`, `SingletonLoop` |
| Scheduler (`collection/app/scheduler.go`) | `platform.polling_schedule` | tick: announce sites, claim due schedules, publish jobs | `SiteDispatch` |
| Poller sites (`collection/pollerrt/runtime.go`) | a supervisor goroutine per announced site | follow, consume, withdraw | `SiteDispatch` |
| Poller runtime (`collection/pollerrt`) | in-memory batch, disk buffer | poll, append, flush, spill, drain, stop | `CollectionPipeline` |
| Poller enrolment (`collection/app/pollers.go`, `pollerrt/agent.go`) | `platform.pollers`, identity file | issue, register, save, heartbeat, approve, disable | `Enrolment` |
| Ingester (`metrics/app`) | delivery in hand | enrich, write, ack or nack | `CollectionPipeline` |
| Alerter (`alerting`) | alert instances, rules, silences | evaluate, suppress, fire, flap, resolve, notify; API | `AlertLifecycle`, `AlertNoise` |
| Notifier (`notify`) | channels, delivery log | route, send, retry, record, acknowledge | `Notifier` |
| Inventory sync (`inventory/app/sync.go`, `src/backend/cmd/api`) | interfaces, device, per-device lock | consume, lock, load, diff, apply | `InventorySync` |
| Catalogue (`inventory/app`, `platform/polling`, `collection/app/discovery.go`) | devices, schedules, sites, credentials, finds | create, update, status, merge, purge, list, discover, approve | `InventoryCatalog` |
| Customers of ports (`inventory/adapters/postgres/interface*.go`) | customer per interface | match rule, import | `InterfaceCustomers` |
| Identity and access (`iam`, `platform/authn`, `authz`, `httpx`) | users, sessions, API tokens, lockout counters | login, refresh, revoke, authorise | `Access` |
| Flow decoding (`flow`) | template cache, sampling map | v5, v9, IPFIX, sFlow | `FlowDecode` |
| Flow aggregation (`flow/aggregate.go`) | counters per interval | add, drain, write | `FlowAggregate` |
| Raw flow store (`flowstore`) | bounded queue of batches, schema | add, flush, retry | `RawFlowWriter` |
| Flow queries (`flowquery`, `flowstore/query.go`) | none of its own; ClickHouse, VictoriaMetrics, address book | explore, records, top, series, exporters | `FlowQueries` |
| Trap listener (`events`) | per-source limiter, bounded queue | receive, limit, resolve, queue, write, drain | `TrapListener` |
| Maps (`maps`) | revisions, `map_links` | save, publish, generate | `Maps` |
| Live map (`maps/live.go`) | view kept for 15 s | assemble a view | `LiveView` |
| Reports, audit, service runtime, frontend | | | not modelled |

How they interact. The scheduler claims due schedules in Postgres and publishes
one job per device and family to the queue of the device's site. A poller's
workers poll the device; samples go through the batch (or the disk buffer) to
`metrics.raw`, from where the ingester writes them to VictoriaMetrics. Jobs of
family `sync` end as inventory snapshots on `sync.results`, which API replicas
apply to Postgres. The alerter evaluates rules on VictoriaMetrics, keeps alert
instances in Postgres and publishes `alert.*` events the notifier delivers.
Scheduler and alerter may run in several replicas; the Redis lease makes one of
them active. Flow datagrams and traps arrive over UDP beside all this, and maps
bind to the interfaces the sync maintains.

What is hard. Replicas that overlap when a lease or a lock lapses; state read
before a call and used after it; acknowledgements that come before or after the
work they stand for; publishes and inserts that fail after having succeeded;
crashes between two statements that belong together; two requests between each
other's statements; queues, caches and buffers at their bound; answers put
together from several statements while the store changes; and multi-step
histories such as flapping alerts or interfaces that vanish, swap numbers and
return. `PROJECT.json` lists these as `hazards`, each at its line, with the
properties that would catch it.

## 2. Modules

Definitions whose comment starts with "Variant:" are plausible mistakes in the
definition that follows them; no specification uses them. They show that each
property notices the mistake (`mutants` in `PROJECT.json`). External systems
(Redis, Postgres, RabbitMQ, VictoriaMetrics, ClickHouse) are modelled from how
the code uses them: a statement is atomic, an answer may be lost, an
unacknowledged delivery comes back.

**LeaderLease.** Whose token the key holds (`owner`: a replica, `Free`, or
`Orphan` for a token nobody remembers), its remaining life `ttl`, and per
replica `Lease.lock`, the ticker (`nextTick`, `ticked`, capacity one) and the
cycle. `TryAcquire` has one action per outcome: `Renew`, `Acquire`, `Refused`,
`ExtendFails` (the extension may have taken effect), `AcquireFails` (the key may
hold a token that is lost with the error). `Shutdown` is the deferred `Release`;
`Crash` releases nothing. A cycle lasts at most `CycleMax`, a constant: the code
bounds no cycle, so the results name `CycleMax < TTL` as their assumption.

**SingletonLoop** is the abstract specification: one loop, although several
replicas run it. `LeaderLease` is shown to implement it (`ImplementsLoop`, with
`running` mapped to the replica in a cycle).

**SiteDispatch.** Schedulers claim and publish in the code's steps, with their
own reading of the clock, and a claim moves the schedule by its interval give or
take the jitter; announcements overwrite each other; the poller follows them with
one supervisor per site, which opens a stream, takes jobs, loses the stream, is
withdrawn. A job that waits for the queue's TTL is dropped by the broker
(`Expire`). Any scheduler may tick here, so two may overlap.

**AlertLifecycle.** One rule; a series stands for a fingerprint. The body of
`evalRule` is a program counter per replica with one step per call that leaves
the process: `Query`, `LoadLive`, `CountFlaps`, `Fire` (INSERT, refused by the
partial unique index `LiveUnique`), `SetFlapping`, `AppendEvent`,
`CheckSilence`, `Publish`, `Resolve`; every call may fail where the code goes on
or gives up. `LeaseLapses` says whether the lease may expire under a cycle; with
FALSE the module uses exactly what `LeaderLease` guarantees.

**AlertNoise.** Which series of a rule become alerts (`suppressNoise`, over
interface names that nest), under which labels, and who hears of them under
silences while names, claims, rules and silences change. Whether an alert is
flapping is picked when it fires, since replicas and flap counting are
`AlertLifecycle`'s; a flapping alert's firing is kept quiet, as in `notify`.

**CollectionPipeline.** A job and its samples share a name. Goroutines are
records with a program counter; `disk` is the buffer's files, oldest first.
`flush` is `TakeBatch`, `Published` or `PublishFails`, then `Spill` with its cap;
`Drain` reads the oldest file under the lock, sends it without, unlinks it, and
a concurrent `Spill` may evict the file in between; a file cut short by a crash,
or that cannot be read, is removed (`DrainDiscards`). `Stop`, `LastFlush`, `Exit`
follow `Run`; `Crash` loses memory. The ingester takes, writes, acknowledges;
`WriteErrorKind` and `Retryable` decide requeue or discard. `capped`, `lost` and
`discarded` are the ways a sample may end without being stored.

**InventorySync.** One device; a result carries a snapshot in arbitrary order.
`Diff` is the identity resolution, evaluated record by record as the code does;
`Applied` is the transaction statement by statement, each checked against the
partial unique index. The consumer's calls may fail and its process crash at
each step; operators read and write in two steps. No connector fills the
physical address, so the runs leave it empty.

**InventoryCatalog, InterfaceCustomers, Access, Maps, Enrolment.** Requests
served in the statements and transactions the code makes, two at a time, over
the tables they share. `InterfaceCustomers` compares the LIKE pattern a rule
becomes with what was typed, over every short text. `Maps` also generates a
draft from neighbours and descriptions; `Enrolment` includes hosts that are
killed between registering and saving, and remembers each identity a poller was
heard under. A generated draft reads the adjacencies in one step and the
descriptions in another.

**TrapListener, Notifier, LiveView.** Sockets sharing one limiter and one queue
with a writer that drains at shutdown (`Lag` bounds how late after being read a
datagram is handled; the code states no bound, so `SourcesLimited` names what it
must be). After the cancellation the writer's select may still pick the queue or
a tick, whose insert fails with the cancelled context, and a failed insert is
`failed`, not `written`. A consumer with retries and an acknowledgement after the
last channel, which rejects a malformed event. A view assembled in several reads
while poller, operator and sync go on: `series` is what VictoriaMetrics holds
under each index, of which port, how old and in which state; the device renumbers
its ports (`portAt`), the next poll writes under the new index, the next sync
moves the row, and the view reads the row's index when it shows the link.

**FlowDecode, FlowAggregate, RawFlowWriter, FlowQueries.** One goroutine per
socket decodes datagrams over digits of a small base, so that narrowing and
wrapping happen, and `learned` remembers the last definition received per key;
the aggregate folds at its key cap and is cut at each drain;
the writer's batches are sent again under their token until they are settled, a
flush cut off by the cancellation included, and the last attempt follows;
and a question reads the store in the statements the code makes while flows
land, expire and change owner.

**`*_MC`.** Instances. `Scheduling_MC`, `Alerts_MC`, `Flows_MC` and
`Management_MC` combine modules that share no state into one run: a variable
`part` picks the one that moves while the others rest in a fixed state, so the
state spaces add up instead of multiplying. Nothing is lost, since the parts
read none of each other's variables.

**`*_proofs`.** The theorems of section 4: `Scheduling_proofs` (lease and
dispatch), `AlertLifecycle_proofs` (alert instances and noise),
`CollectionPipeline_proofs`, `InventorySync_proofs`, `Management_proofs`
(catalogue, enrolment, maps, live view, customers), `Messages_proofs` (notifier, traps),
`Access_proofs`, `Flows_proofs` (decoding, aggregation, raw store, queries). Modules
proved in one file share no state.

## 3. Runs

| Run | Checks | Instance |
|---|---|---|
| `scheduling` | `NotDoubleBooked`, `LeaseIsKept`, `LeaseLeaderReturns`, `MovingJobsAreDone` (`JobsAreDone` of the moving instance), `ImplementsLoop` | lease: 3 replicas, TTL 4, tick 2, cycles up to 3, 3 faults; dispatch: 2 overlapping schedulers with 1 device at rest, or 1 scheduler while it moves between 2 sites, 3 supervisors, 1 broken stream; interval 3, jitter 1, queue TTL 1, clock to 3 |
| `alerts_single` | `NoticesOnce`, `FlapChain`, `ResolvedIsFinal` with the lease kept; `HiddenHasCause`, `SilenceHolds` | 2 replicas, 1 series, 3 instances, 3 clock values, 5 changes, 2 API calls, 1 fault; 3 ports with nested names and an exporter, 2 edits |
| `alerts_lapse` | `OneLive`, `AlertFollowsCondition` with overlapping replicas | 2 replicas, 2 instances; 2 changes with 1 API call and 1 fault, 1 change with 2 API calls, 1 change while time passes |
| `alerts_resurrect` | **violation** of `ResolvedIsFinal` when the lease lapses | 4 changes, no fault |
| `pipeline` | `NothingVanishes`, `EventuallyStored` | 2 samples, 2 workers, flush at 2, cap 1, 2 faults |
| `pipeline_vm_error` | **violation** of `AtLeastOnce` | 1 sample, 1 fault |
| `sync_rows` | `MirrorsSnapshot`, `NeverWedges`, `RemovedAfterMisses`, `RowFollowsName` | every sequence of 4 snapshots over 2 indexes and 2 names, removal after 3, 1 fault |
| `sync_races` | `DiffFresh`, `StatusIsTheOperators`, `ResultsOfDevicesSettle` | 2 replicas, 2 results, 1 fault, 2 operator calls |
| `sync_purged` | **violation** of `ResultsSettle` | 1 result, retire and purge |
| `flows` | `LayoutIsOwn`, `ReadAsExported`, `TotalsStayHonest`, `RowsAccounted`, `StoredOnce`, `RowsLand`, `AnswersAreWhole` | 2 sockets, 3 exporters, base 4, 2 templates; 4 packets, 6 keys, 2 drains; 5 rows, 2 faults; 16 questions over 2 flows, 2 devices, 5 points in time |
| `management` | `InServiceIsPolled`, `PagesMissNone`, `SelectsWhatWasTyped`, `WithinRights`, `AttemptsBounded`, `SourceIsLimited`, `DrainedAtStop`, `GoneIsTried`, `GeneratedIsReported`, `PublishedImmutable`, `FiguresAreHonest`, `HeardIsSaved` | 3 devices and 3 requests, 2 at a time; 2 users, 3 calls; 2 sockets, with 6 traps over 6 instants for the limiter and 3 for the writer; 4 notices, one malformed, 2 channels, 3 breaks; 3 devices and 5 map calls; cadences 1 and 5 min, ages up to 31; 2 hosts, 3 stops |
| `maps_publish` | **violation** of `LinksAreThePublished` | as `management` |

Why these bounds are enough for the cases that matter. *Lease*: a third replica
may acquire while two disagree; TTL 4 and tick 2 keep the code's order (15 s /
10 s, 90 s / 30 s), and `CycleMax = 3` is the longest cycle the theorem allows.
*Dispatch*: double booking needs two schedulers and one schedule, and a clock
that reaches an interval less its jitter; a job is stranded by one supervisor
withdrawn and one started. *Alerts*: a flap needs
fire, resolve, fire; the window's edge needs a clock that leaves it; a revived
alert two instances. A second series does not interact: `evalRule` treats series
one by one and the index is per series. *Noise*: three nested names give a
parent that is itself hidden. *Pipeline*: cap 1 with two samples makes a spill
evict the file that is being drained, and two faults allow an ambiguous publish
followed by a crash; `PipelineConserves` covers the rest. *Sync*: two indexes and
two names give every swap, rename and renumbering, four snapshots an appearance
with three absences. *Races*: two replicas contend for the lock, one dies
holding it. *Flows*: layouts put the sampling interval before and after the
counters, ids are shared by exporters and redefined, records end in padding; the
batch of three rows is split and retried; a flow can outlive the raw retention
(2) and not the rollup's (4) while the clock reaches 4. A second is as long as
the hour of the instance, so that cutting the end of a window to whole seconds
shows. *Management*: each race
listed as a hazard needs two requests; devices are created at one site and moved
to the other (`AtHome`), and an edit changes one thing of a device (`OneEdit`). *Limiter*: `Burst = 2` and `Slack = 1` make a sweep
forget a source that has been quiet for more than 3 instants, and 6 leave room to
fill the bucket again. *Live view*: ages are told apart up to 31 minutes, past the
half hour a gap is carried; cadence 5 makes "two cycles" more than a minute.
Bounds keep it small: polls that come after the series were read are left
out, since the view does not look again (`PollsInTime`), what lies under the
document's index is at most one minute older than what lies under the other, or
as old as ages go (`Together`, `MaxLead`). Ports report no
speed, so a link's capacity is the one stated or the slower uplink's.

`CHECK_DEADLOCK FALSE` stands in runs whose bounded work is eventually all done,
after which the system rightly stops. Symmetry is used in safety runs only, over
interchangeable replicas or request slots; in `management` all slots are swapped
at once, because only one part moves.

### Fairness

* Lease: time passes, a waiting tick is taken, a cycle ends, a process that is
  down is restarted (the deployment's restart policy). Nothing forces a failing
  call to succeed; faults are bounded.
* Dispatch: a tick that is begun goes on, and ticks that do lead come again
  and again (strong fairness of `StartTick(s, TRUE)`, which is
  `LeaseLeaderReturns`); supervisors and the follower keep running.
* `AlertLifecycle`: a replica keeps executing its cycle, and some replica that
  can have the lease starts cycles.
* `CollectionPipeline`: weak fairness of the goroutines, strong fairness of the
  age and drain ticks: `Run`'s select chooses at random among ready cases.
* `InventorySync`: consumers keep consuming, a dead holder's key expires.
* `RawFlowWriter`: the flush loop and the schema loop keep running; inserts may
  fail a bounded number of times.

## 4. Proofs

All theorems hold for every value of the constants (any number of replicas,
requests, devices, rows, packets and results, any bound, window, cap and size)
under the named assumptions of the modules, which type the constants, keep
special values apart and say that what is counted is finite. The last column is
what a theorem assumes beyond that. The type invariants are proved and therefore
not repeated in the runs.

| Module | Theorem | Statement | Assumes |
|---|---|---|---|
| `Scheduling_proofs` | `LeaseTyped` | `[]TypeOK` | |
| | `LeaseExcludes` | `[]SoleLeader` | `CycleMax < TTL` |
| | `LeaseImplementsLoop` | `ImplementsLoop` | `CycleMax < TTL` |
| | `LeaseKept` | `LeaseIsKept` | `CycleMax < TTL`, `Interval < TTL` |
| | `NeverDoubleBooked` | `[]NotDoubleBooked` | |
| `AlertLifecycle_proofs` | `AlertsTyped` | `[]TypeOK` | |
| | `AtMostOneLive` | `[]OneLive` | |
| | `ResolvedStays` | `ResolvedIsFinal` | `~LeaseLapses` |
| | `AnnouncedOnce` | `[]NoticesOnce` | `~LeaseLapses` |
| | `FlapsAreEarned` | `[]FlapChain` | `~LeaseLapses` |
| | `NoticesPair` | `[]SilenceHolds` | |
| | `HiddenExplained` | `[]HiddenHasCause` | |
| `CollectionPipeline_proofs` | `PipelineTyped` | `[]TypeOK` | |
| | `PipelineConserves` | `[]NothingVanishes` | |
| `InventorySync_proofs` | `DiffNeverStale` | `[]DiffFresh` | `~LockLapses` |
| | `OperatorsDecide` | `StatusIsTheOperators` | |
| | `SyncNeverWedges` | `[]NeverWedges` | `~LockLapses` |
| | `RowsMirrorSnapshot` | `[]MirrorsSnapshot` | `~LockLapses` |
| | `RemovalsEarned` | `[]RemovedAfterMisses` | `~LockLapses` |
| | `RowsFollowNames` | `RowFollowsName` | `~LockLapses`, names apart, no physical address |
| `Management_proofs` | `InServicePolled` | `[]InServiceIsPolled` | |
| | `ListingsMissNone` | `[]PagesMissNone` | |
| | `IdentitiesKept` | `[]HeardIsSaved` | |
| | `PublishedStays` | `PublishedImmutable` | |
| | `GeneratedReported` | `[]GeneratedIsReported` | |
| | `ViewsAreHonest` | `[]FiguresAreHonest` | cadences of at most 60 minutes |
| | `SelectsTyped` | `[]SelectsWhatWasTyped` | |
| `Messages_proofs` | `TriedBeforeGone` | `[]GoneIsTried` | |
| | `SourcesLimited` | `[]SourceIsLimited` | `2 * Lag <= Slack + 1` |
| | `StopsDrained` | `[]DrainedAtStop` | |
| `Access_proofs` | `RightsHold` | `[]WithinRights` | |
| | `GuessesBounded` | `[]AttemptsBounded` | |
| `Flows_proofs` | `LayoutsNotMixed` | `[]LayoutIsOwn` | |
| | `BytesConserved` | `[]TotalsStayHonest` | |
| | `RowsNeverLost` | `[]RowsAccounted` | |
| | `RowsStoredOnce` | `[]StoredOnce` | |
| | `AnswersWhole` | `[]AnswersAreWhole` | |

### The assumptions

* `CycleMax < TTL` and `~LeaseLapses` are one assumption seen from two modules:
  no cycle outlasts the lease. The code bounds no cycle, and `alerts_resurrect`
  shows what happens otherwise. `Interval < TTL` holds of both loops (10 s of
  15 s, 30 s of 90 s).
* `~LockLapses`: the per-device lock outlives the transaction it covers. A lock
  that lapses is listed in section 5.
* `RowsFollowNames`: snapshots name their interfaces apart, as the property
  itself needs, and leave the physical address empty, as every connector does.
* `2 * Lag <= Slack + 1`: a datagram is handled within about half the time the
  sweep waits beyond a full bucket (`Slack` is the minute `sweep` adds; between
  reading the clock and `allow` there is no call that blocks for long). With
  `Lag = Slack = 2` TLC finds a source that passes more than its share: the
  sweep forgets a bucket while an old datagram of the
  source is still in hand.
* `MapsAssumption` says of the rows `Maps` starts from what the sync writes: an
  adjacency's port is one of the device that reported it
  (`inventory/adapters/postgres/sync.go:170-183`). `CustomersAssumption` says that
  texts are sequences of characters and a condition names one of the four columns
  `condClause` accepts.
* `QueriesAssumption` says what a question and a stored flow are made of, and
  four things the code sees to: management addresses differ
  (`devices_ip_unique`), a flow is one row (`id` stands for the row itself), the
  aggregate endpoints take no filters and the list of exporters only a window
  (`flowquery/http.go:57-89`, `Service.Exporters`). A flow may have no bytes.
* Cadences: `polling.Allowed` ends at 15 minutes; beyond an hour the window of
  the query no longer reaches back over one cadence.

### The arguments

* `LeaseExcludes`. `SoleLeader` does not say why a second replica cannot start.
  The invariant is `CoveredByLease`: a running cycle's replica owns the key, and
  the key's remaining life plus the cycle's age is at least TTL. With
  `CycleMax < TTL` the key cannot expire under a cycle, and two cycles would
  both own the one key. `LeaseImplementsLoop` follows from the same invariant,
  and `LeaseKept` adds `Renewed`: no tick has come since a renewal that the holder
  has not taken, so the key outlives the time to the next one.
* `NeverDoubleBooked`. Published jobs alone are not inductive: a scheduler may
  stall between claim and publish. `ClaimsApart` speaks of every claim,
  published or in hand: it moved the schedule by an interval less the jitter at
  least, and no two claims of a device are nearer than that.
* `AtMostOneLive`. Two statements make a row live, the INSERT and the UPDATE of
  `SetFlapping`, and the partial unique index refuses both while another live
  row of the series exists.
* `ResolvedStays`, `AnnouncedOnce`, `FlapsAreEarned`. `CycleInv` ties the locals
  of the cycle to the table: only the holder is in a cycle, what it is about to
  resolve is live and unannounced, the row it is about to mark as flapping is
  the one it inserted, and a flap count is backed by a chain of earlier resolved
  rows, each within the window of the next (`Earned`).
* `NoticesPair`. `SilenceFits`: whoever heard of an alert was judged on the
  labels the alert still carries, from the evaluation's lists to the notice in
  hand. `HiddenExplained` follows one parent to the next up to the topmost in
  breach, the shortest of the names, and needs `NoiseFits`: what the evaluator
  kept is what it read.
* `PipelineConserves`. A sample is somewhere on its way, stored, or in one of
  `capped`, `lost` and `discarded`, which only the code's own drops fill.
  `PipelineInv` adds what each hand-over relies on: a
  worker past its append has its sample accounted for (`HandedOver`), a
  goroutine that is not publishing holds nothing (`EmptyHands`), Drain's file is
  on disk or was dropped by the cap while it is sent and is past the broker when
  it is unlinked (`DrainSafe`), the ingester forgets a batch only when it is
  written (`IngestSafe`).
* `DiffNeverStale`. Mutual exclusion: a consumer between Load and Apply holds
  the lock (`HoldsLock`), and only Apply and a purge write rows.
* `SyncNeverWedges`, `RowsMirrorSnapshot`, `RowsFollowNames` are about what
  `Diff` and `Applied` compute. `Diff` is shown to hand every record a row of its
  own, and a free or matching one; the statements of `Applied`, run one by one
  over the set of rows, are shown to keep the present rows apart at every stage,
  which is why the unique index never refuses and why the result is the snapshot.
* `RemovalsEarned`. A process that dies between the commit and the
  acknowledgement gets its result again and counts a second absence from it, so
  the property allows for one absence per fault. `MissesInv` bounds each row's streak by the distinct absences
  counted so far plus the faults: an absence that a redelivered result may count
  again (`Redo`) has not used up its fault yet.
* `InServicePolled`, `ListingsMissNone`. `TablesFit`: every device, in service or
  not, has the schedules of its profile, because the request that puts it into
  service only switches on what is there. `SlotsFit`: a listing has shown every
  device that stayed up to its cursor.
* `IdentitiesKept`. No two hosts hold one identity (`TokensApart`), whoever sends
  a heartbeat has saved first (`HostFits`), and an identity once on disk stays
  there, so all those heard under are (`HeardSaved`).
* `PublishedStays`. `MapsInv`: revisions are numbered without a gap and the
  newest is a draft; a save writes the newest, so never a published one.
* `GeneratedReported`. `matchDevice` is a fold over the keys of one device inside
  a fold over the devices in no set order. What it keeps is shown to be the best
  of all names weighed so far (`BestOf`): a device it returns is named in the
  text by the longest name found, and no other device by one as long. A link end
  is then traced back through the document, the suggestions and the port that
  made them.
* `SelectsTyped`. Three descriptions of a match are shown to agree: the matcher's
  table, recursive in the places of text and pattern, whose entries depend only
  on entries nearer the end (`LikesExist`, by the number of steps left); a walk
  through the text, one hop for each character typed (`Way`); and the choice of
  places that `Means` speaks of (`Placed`). `EscapedTo` says where each character
  typed lies in the pattern, behind its escape if it has one (`PatternIs`).
* `ViewsAreHonest`. `LiveFits` carries which port each index's series is of
  (`PortsFit`), how old a series can be for its cadence (`AllTimely`), and, for
  each read of the view, what it says of the index at that moment (`QueryFits`,
  `IndexFits`, `ShowFits`); arithmetic on `staleAfter` and the query windows does
  the rest (`WindowsReach`, `StaleIs`).
* `TriedBeforeGone`. `HandlingFits`: the event in hand is the first of the queue
  and its channels are tried or left, also after a stop between two attempts.
* `SourcesLimited`. `BucketFits` counts what a bucket still holds with what it
  let through; for a forgotten source it says how long it has been quiet.
  `StopsDrained`: what is owed at the stop is written, failed, queued or in the
  batch.
* `RightsHold`. What a call has read of its user was true at some moment since
  it began (`CallFits`). `GuessesBounded` counts the calls past the lock and
  those about to record a failure (`ThrottleInv`).
* `RowsStoredOnce`. `RawFits`: a batch keeps its token until it is settled, and
  only the first unsettled batch can be in the store already, inside the
  deduplication window. `RowsNeverLost` adds where each row is (`PlaceFits`) and
  that the counter is the number of rows held (`CountFits`).
* `LayoutsNotMixed`. `DecodeFits`: a cached template is the last definition
  received under its key, or is too old for the clock and for every datagram in
  hand: a full cache that expires entries, or a socket that lags, cannot bring
  back an older layout.
* `BytesConserved`. `Conserved`: what was offered to an interface is the sum of
  what accumulates, is being written, was written and was cut off. Bytes are
  counted as the size of a set of units (`Weight`), so that moving a key from
  one counter to another leaves the set's size alone.
* `AnswersWhole`. The invariant is `QueriesFit`. Of the store (`TablesFit`): a
  raw row is missing only once it is of age, and an hour of the rollup sums
  exactly what landed in it until it is, never more. Of the question
  (`SelectFits`): the scope it read is that of the book at that moment, whatever
  was typed and whoever else claims an address (`ExplorerScopes`,
  `ResolveScopes`), and the table has its columns and reaches back far enough.
  Then each statement `Reads` its flows: every row comes to at least the flows of
  it that must count and at most those that may (`RawTable`, `HourTable`,
  `SampleReads`), and so do the rows of one key. What was read stays right while
  later statements wait, because as flows land and age `Must` only shrinks and
  `May` only grows (`Onward`), also for the ranks (`ListedStays`). Sums are again
  sizes of sets of units (`Total`), compared row by row (`Fibers`).

Induction over data is carried out by hand where these need it, since the
library's induction theorems cannot be instantiated: from a least counterexample
(`WFMin` over the natural numbers) come the lemmas on loops over a finite set or
a sequence (`LoopRuns`, `UpToAll`, `LearnMatched`) and on folds (`Iterates`,
`LeftToRight`), which name the successive values of a fold as a sequence.

### Only model-checked

Liveness is out of the prover's reach: `LeaseLeaderReturns`, `JobsAreDone`,
`AlertFollowsCondition`, `EventuallyStored`, `ResultsOfDevicesSettle`,
`RowsLand`. One safety property compares an algorithm with its reference
definition and has no theorem: `ReadAsExported`, since a body and the flows it
encodes are given together by the instance; for any datagram it would need the
exporter's encoder as a definition of its own. The flows of the run all have bytes; that a ranking may leave out one
that has none (`Weightless`) is covered by the theorem alone.
The violations of section 5 are counterexamples and need no proof.

## 5. What the runs found

Four runs are expected to fail; `findings` quotes the lines they contradict.

* `alerts_resurrect`: `Store.SetFlapping` has no condition on the state. A
  replica overtaken by the next leader between its INSERT and this UPDATE turns
  a resolved alert into a live one.
* `pipeline_vm_error`: errors of the mirrored VictoriaMetrics writer carry no
  kind, so the ingester neither retries nor requeues: one refused connection
  discards a batch that comments and documents say is requeued.
* `sync_purged`: the failed result of a purged device cannot be recorded and is
  requeued once a second without end.
* `maps_publish`: a draft saved between Publish's load and its transaction is
  published with the bindings of the document before it.

Deviations met while modelling that have no run of their own. They are
behaviours of the models, or of the code next to them.

Scheduling and collection
* A cycle longer than the lease runs on beside the next leader; the token fences
  Extend and Release, never the cycle's writes.
* Two jobs of a schedule are an interval less 5 % apart at the least: the jitter
  of `schedule.go:33-35` goes both ways. A job that waits 15 minutes for a
  consumer is dropped by the broker unseen (`amqpx.go:114-150`); the schedule has
  moved on, so that poll is skipped.
* A buffer file that cannot be read or decoded is removed and counted nowhere
  (`buffer.go:115-124`).
* No queue has a dead-letter exchange, and no redelivery cap exists, although
  documents 05 and 23 describe both. The result of a deleted discovery rule is
  requeued for ever.
* A withdrawn supervisor that is idle stays a consumer of its site's queue
  (`runtime.go`), so a withdrawn site may still be served.
* Two registrations with one enrolment token both succeed and the first identity
  is void; a lost answer after `BindAuthToken` loses the poller; a poller
  approved before it registers can never register; jobs flow before approval.
  When the first host has saved its identity and been heard, the second
  registration binds, and its host dies before saving, nobody can authenticate,
  and a poller that was heard from cannot enrol again: an operator has to delete
  it. `HeardIsSaved` therefore speaks of the file, not of coming back.
  The file is written without fsync (`agent.go:80`); only deaths of the process
  are modelled, and a host that loses power may lose it.

Alerting
* An acknowledgement between the INSERT and `SetFlapping` is overwritten. The
  firing of a flapping alert is kept quiet and its resolution is notified
  (`evaluator.go:313-315`, "flapping alerts stop notifying until stable"), so
  people hear the end of what they were not told of.
* FR-ALR-05 (`docs/03-frs.md:82`): an alert "resolving and re-firing >3 times in
  15 min collapses into a single `flapping` alert until quiet for 15 min". The code marks it at the third re-fire
  (`flapCount >= 3`, `evaluator.go:149-151,209`), counts a chain whose links are
  each within the window, so the chain may be longer than 15 minutes, and has no
  step that ends flapping but the resolution. `FlapChain` states what it does.
* A child's live alert is resolved, with a notice, when its parent starts to
  fire; an interface that was up is not alerted on while its never-up parent
  fires; a disabled rule's live alerts never resolve; `UpdateRule` can leave a
  threshold rule without expression.
* A notice whose channels cannot be loaded is acknowledged and lost; a shutdown
  during `Handle` records "failed".

Inventory
* A sync result redelivered after its commit counts another absence, so an
  interface may be removed before three syncs in a row have missed it
  (`docs/11-sync-flow.md:77`); nothing
  compares `CollectedAt`; a lock that lapses makes the diff stale; an operator's
  choice of connector between Load and Apply is overwritten. `Diff` resolves
  record by record, so with duplicate names a record may take the row a later
  one matches better.
* Two opposite merges retire both devices; `Purge` checks the status in one call
  and deletes in another; `Update` writes back the attributes it read; a cadence
  change beside a device's creation is missed by its schedules; deeper cycles of
  site parents are not prevented; `AssignByMatch` selects and updates apart.

Access, maps, traps
* A wrong password whose failure cannot be recorded is not counted; a refresh in
  flight while all sessions are revoked leaves a live token; two refreshes of
  one token both succeed; a token's roles are checked against the caller's JWT.
* A publish that heals bindings overwrites a draft saved meanwhile; rebinding an
  existing link is reverted at publish; a save that waited for a publish leaves
  a dead draft.
* The generated draft is said to come from LLDP alone: "nothing here writes a map
  ... a human decides" (`describe.go:17-19`), "what LLDP saw"
  (`generate.go:21-22,162`), also `store.go:397-398` and `docs/09-api-specification.md:344`. But
  `Store.Suggestions` appends the pairs found in descriptions
  (`store.go:434-450`) and `GenerateFromTopology` draws all of them.
  `GeneratedIsReported` states what is drawn.
* An unreadable cadence counts as a minute, so links polled every 15 are called
  stale. Between a renumbering and the sync and poll that follow it, a link shows
  another port's figures, or none. `ifOperStatus` 3 to 7 of a port that is polled
  is shown as "nodata" (`live.go:294-299`). When the row's index cannot be looked
  up, the document's is used.
* "A restart does not lose the traps" (`listener.go:242-243`): a tick or a full
  batch that the select picks between the cancellation and the drain is flushed
  with the cancelled context, fails and is forgotten. `DrainedAtStop` says that
  every trap is handed to the store, and `failed` has those it did not take. A
  socket blocked in a read at shutdown may acknowledge a trap after the queue was
  drained.

Flows
* The writer may insert before the materialized view exists, and such rows never
  reach the rollup; the final flush is not waited for by `main`; a tick picked
  after the cancellation sends with the cancelled context, and the batch waits for
  the last attempt.
* The sampling map is unbounded and not kept apart by version; an IPFIX
  withdrawal leaves the template; a v9 error drops the flows already decoded.
* The explorer selects its leading groups twice, so a listed group may have an
  empty line; a question that starts before the rollup does is answered from
  what is left; a rollup answer for an ephemeral port is empty, as documented.
* `Service.top` answers with no rows when the window's bytes come to zero, also
  when there are packets in it.
* `Series` takes its first point from the step before the window and leaves out
  a last partial step; `Share` may exceed one when a sample lands between the
  total and the detail.

## 6. Plan

1. An encoder for any layout, and with it a proof of `ReadAsExported`, one field
   at a time.
2. An abstract alert instance (firing, acknowledged, flapping, resolved) that
   `AlertLifecycle` implements while the lease is kept.
3. Notices composed end to end: `AlertLifecycle`'s events through `Notifier`
   under redelivery.

## 7. Not modelled

Reports and dashboard (read-only queries, PDF layout), the audit log (append
only, read by nothing that decides), service start-up, configuration and
migrations (delegated to goose under an advisory lock), SNMP walks and vendor
tables in the connectors (protocol I/O and data), HTTP plumbing and the
frontend. The label snapshot and the mirrors of the ingester are best effort:
their errors decide nothing. Of the inventory, columns that identify nothing,
adjacencies and the history table are written along with the rows the model
keeps. Of flow queries, interface names, status figures and query text.

Branches left out of modules, where nothing a property tells apart depends on
them: the aggregate's keys by protocol and DSCP, which are added like the others
(`aggregate.go:148-149`); the serial number in `MatchByIdentity`, to which its one
caller gives none (`collection/adapters/httpapi/discovery.go:165`); a
`sync.results` body that cannot be decoded, which is rejected before anything is
read (`src/backend/cmd/api/main.go:515-519`); devices and ports read in two
SELECTs by `describedSuggestions`, since names of devices do not change in `Maps`.
`Maps` keeps the words of names and descriptions because the longest match and its
ties are decided on them.
`PROJECT.json` lists every component with its status and reason.

# DINIS in TLA+

DINIS pings a list of hosts, decides which of them are UP or DOWN, starts and
resolves alerts, keeps the round-trip times, and shows it all on a dashboard.
It is one Go process with many goroutines.  The tests of the repository cover
its functions well; what they hardly reach is what happens when these
goroutines meet in an order nobody wrote down.  This directory models that part
of the program in TLA+, checks it with TLC, and proves the central results with
TLAPS for every size of the system.

Contents: 1 the system, 2 the modules, 3 the runs, 4 fairness, 5 the proofs,
6 disagreements between the code and its documents, 7 what is left out, 8 the plan.

## 1. The system

Line numbers refer to `src/` of the repository.

| Component | State | Operations | Interacts with |
|---|---|---|---|
| Engine, host life cycle (`pkg/pinger/engine.go`) | hosts with status, counters, alert fields; `Engine.mu` | probe results, manual ping, merge of a new target list | calls the coordinator back before and after a status change |
| Scheduler and pool (`pkg/pinger/schedule.go`, `engine.go`) | two heaps of due probes, in-flight counters, the wake-up channel, workers | dispatch, completion, resize, stop | same `Engine.mu`; hands jobs to workers over an unbuffered channel |
| ICMP prober (`pkg/pinger/icmp.go`) | pending echo requests by sequence number, sockets | send, deliver, close, reopen | called by the workers |
| Alert manager (`pkg/alerts/manager.go`) | active alerts, history, version; `Manager.mu` | trigger, acknowledge, resolve, metadata, export, import | called under `Engine.mu` and by API handlers |
| Alert state file (`pkg/server/server.go:1085`) | `alertsSavedVersion`, the file | save every 5 s and at stop, load at start | reads the manager |
| Coordinator (`pkg/server/server.go`) | rebuild lock, saved versions, last replies | `RebuildTargetList`, callbacks, API | everything |
| Store (`pkg/store/store.go`) | CIDRs, discovered hosts, exclusions, settings; one mutex, one file | single reads and writes | read by rebuilds and sweeps, written by API and sweeps |
| Discovery (`pkg/server/server.go:700-1070`) | queue of requests, runner, status, stop channel | request, take, sweep, periodic loop, stop | probes through the ICMP prober, writes the store, rebuilds |
| Import and export (`pkg/server/transfer.go`) | none | plan, apply | replaces the store's configuration |
| Event streams and tickets (`pkg/server/server.go:1157`, `1901`) | clients with 100-event buffers, tickets | broadcast, connect, close, issue, consume | receives the callbacks |
| Metric store (`pkg/timeseries`) | ring buffers, rollups, LRU | record, roll up, evict, prune | receives the results |
| InfluxDB writer (`pkg/influxdb/writer.go`) | buffer up to 10 MB | write, flush, retry, close | receives the results |
| Address arithmetic (`pkg/network/cidr.go`) | none | expand, match | used by rebuilds and sweeps |
| HTTP front end, health and history (`pkg/server/health.go`, `history.go`) | none | snapshots | reads everything |

What is hard in it:

* **Callbacks on copies.** A transition is decided under `Engine.mu`, but
  `OnStateChange` runs later on a copy of the host, with no lock.  Another
  transition, a rebuild or an acknowledgement may come between.
* **Rebuilds in several steps.** `RebuildTargetList` reads the configuration,
  closes alerts and hands the targets to the engine under different locks, while
  probes go on and the configuration changes again.
* **Scheduling without a thread per host.** The dispatcher computes how long to
  sleep, unlocks, and sleeps.  Entries change under it, hosts leave while their
  probe is on its way, and a large outage must not starve the hosts that answer.
* **Sweeps that run for minutes** and save what they read before.
* **A save that is not a transaction**: version, export and write are three steps.
* **Buffers at their limit**: events for a client that does not read, lines for a
  database that does not answer, samples of more hosts than the limit allows.
* **Shutdown** while all of the above is under way.

What makes each component correct is stated with the runs in section 3; the file
`PROJECT.json` lists every hazard at its line.

## 2. The modules

An action is what one goroutine does inside one critical section, or between two
of them where the place matters (a hand-over, a sleep, a file rename).  A lock
that covers several sections, such as `rebuildMu`, is a program counter that one
actor at a time can hold.

**Monitor** — the life cycle of a host, across engine, alert manager and
coordinator.  `status`, `fails`, `succs` and `flag` are the fields of
`HostState`; `alerts` is the manager's `activeAlerts`; `wanted` is what the
stored configuration says of a host; `prober[p]` is the goroutine of a worker or
of a ping handler with the copy of the host it carries.  `ApplyResult` is
`applyStatus` with `handleBeforeStateChange` inside it, because the code calls it
under `Engine.mu`.  `Notify`, `SyncAlert` and `PublishAlert` are the three
sections of `handleStateChange`.  The rebuild is five actions: start,
the snapshot of the alerts, closing of removed hosts' and of excluded hosts'
alerts, and `SetTargetsAndIntervals`.  Counters saturate at their thresholds,
since the code only compares them with `>=`.  `old` is a history variable: the hosts whose
alert was active when the latest rebuild began, and still is.

**Slots** — the arithmetic of `nextSlot`, the fixed phase of a host and the cap
of suspect probes, as plain operators.

**Schedule** — dispatcher, heaps, workers, the resizing of the pool,
`Engine.Start` and `Engine.Stop`.  A heap is not modelled as a tree: `Queued(h)`
and the due times say which entry the dispatcher can take (`TakeJob` takes one
with the least due time).  `token` is the one-slot channel `schedWake`.  `Finish`
is `completeJob` with the rescheduling of the entry.  Time is in ticks, and a
due time is kept as the ticks left, so that the state space is finite although
time goes on for ever.  Statuses are abstracted to `health`, which tells apart
what the scheduler asks of a host.

**Enrollment** — which hosts are monitored.  `cidrs` and `enrolled` are the
store; `monitored` is the engine's list.  Each API handler is the sequence of
store accesses it makes, the import of a configuration among them (plan, check
of each static entry, replacement); `Sweep` is `runSweep` from the copy it reads at the
start to the save at the end; `Rebuild` is the same function as in Monitor, seen
from the store: read the CIDRs, read the hosts, persist static entries, prune,
apply.  `Restart` ends the process at any point and starts it from the store.

**Discovery** — the queue of sweeps: `RequestDiscovery`, `runQueuedDiscovery`,
`discoveryLoop` and the stop.  Each action is a critical section of `discMu`.  `lastFull`
is the age of `lastFullSweep` against the interval, `periodic` says whether the
interval is more than 0, and `SetInterval` is a change of the settings.  Any
number of requests may come.
`CoordinatorProofs` extends both this module and Enrollment, so its own specification is
called `DiscoverySpec`, its CIDRs `SweepCidrs`, and so on.

**AlertBook** — the alert manager's history with its two limits, and how the
state reaches the file and returns.  The saver takes the code's steps (version,
export, write, note the saved version).  `Crash` kills the process anywhere,
`Boot` is `NewCoordinator`'s import; it may find no file, or one it cannot read.

**Prober** — the ICMP prober.  `fd`, `reader` and `closer` are the three states
of a socket (`icmpConn`): its descriptor, `readLoop` and `close`.  `pending` is
its table, which holds the number of the waiting probe instead of a pointer.
`probe[p]` is one call of `Probe` with its local variables and its channel of one
(`answer`).  `Connect` is `connection`; `Register`, `Send`, `EndWait` and
`Unregister` are the sections of `icmpConn.probe`; `Receive` is `Recvmsg` with the
matching in `handlePacket` and `handleQueuedError`, and `Give` the hand-over that
`deliver` does after it has unlocked.  `net` holds every request ever sent, so an
answer may come late, repeatedly or never, and also to a socket that replaced the
one that asked; `Foreign` are packets of other programs.

**LossyQueue** — what the InfluxDB export promises, as an abstract specification:
results wait in the order they were recorded, the database confirms the oldest
ones, and one that leaves without a confirmation is counted.

**Writer** — the writer that implements it.  `buf`, `count`, `flushSignal`,
`dbReady` and `droppedLines` are the fields of `Writer`; `flusher` is the flush
under way, with its payload and the number of its attempt.  A request to InfluxDB is
one action for each of its outcomes (2xx; 429; another status; no answer or 5xx,
with or without an effect), and results are recorded between any two of them.
`DroppedFrom` is the cut of `retainFailedPayload`: the fewest whole lines, from the
oldest on, whose bytes make room.  `database` is what the server has: nothing, the database
without a retention period, or with one.

**Streams** — the event streams.  `caster[b]` is a goroutine in `broadcastEvent`,
with the clients it has still to serve (`todo`) and the one whose channel it empties
(`drain`); from `Lock` to `Unlock` it holds `broadcastMu` and the read lock of
`clientsMu`.  `stream[c]` is the handler `handleSSE`, `channel` and `closed` are the
channels.  Every receive of a drain is a step, so the handler may take some of the
messages in between.  `owed` is a history variable: the changes that were made while
the stream was open and that it was not told of yet.

**Metrics** — the latency history.  `lru` is `lruList`, `samples` what was put into a
host's ring buffer (`Ring` is what the buffer still holds), `aggs` the hour in
progress, `minutes` and `hours` the series.  `loop` is `rollupLoop`: it lists the hosts,
takes the buffer of one, computes the point, and appends it, each under locks of
its own; `Record`, `SetTargets` (`PruneHosts`) and `SetCapacity` run under
`Engine.mu` between these steps.  A buffer that was removed while the loop holds it
stays as it was (`live`, `kept`).  A sample is known by its time; a point is the set
of the samples it was made of, which is what its statistics are computed from.

How they fit together: Monitor calls the alert manager, AlertBook is that
manager with any caller at all; Monitor takes "what the configuration says of a
host" as an input that changes, Enrollment computes it; Enrollment has one sweep
at a time, Discovery shows that there is only one; Monitor probes each entry
once at a time (`busy`), Schedule shows how the entry gets there.  Prober is what a busy worker waits for.
Writer and Metrics get what a worker does with a result; Streams gets the events of
`Notify` and of the requests.  The modules
are separate because their product would be out of reach and says no more.

`MCMonitor`, `MCSchedule`, `MCEnrollment`, `MCAlertBook`, `MCProber`, `MCWriter`,
`MCStreams` and `MCMetrics` give the instances for TLC.  `MonitorProofs`,
`ScheduleProofs` (with the arithmetic of Slots), `CoordinatorProofs` (Enrollment and
Discovery), `AlertBookProofs`, `ProberProofs`, `WriterProofs`, `StreamsProofs` and
`MetricsProofs` hold the theorems.

Definitions with a comment "mutant" or "Variant" are plausible mistakes.  Nothing
uses them; `PROJECT.json` says which property fails when one takes the place of
the definition it varies.

## 3. The runs

| Run | Question | Instance |
|---|---|---|
| MonitorFull | Do alerts follow the hosts when everything interleaves? | 1 host, 2 workers, 1 manual ping, 1 operator, 3 configuration changes |
| MonitorSerial | And completely, when one result at a time is applied? | 2 hosts, 1 worker, 2 changes |
| MonitorStaleCallback | Does an outage keep its alert with concurrent results? No. | 1 host, 1 worker, 1 manual ping |
| ScheduleChurn | Do rotation, wake-ups and the share of the answering hosts survive removals, late results and resizes, and is every host probed for ever? | 2 hosts, 2 workers, 2 changes |
| ScheduleIntervals | Does a host stay in its slot when its interval changes, and does `Stop` return? | 1 host, 2 workers, 2 intervals, down interval, confirm probe, pings, 2 changes, stop |
| Enrollment | Does the engine end up with what the store says? | 2 hosts, a single-IP CIDR inside a range, 2 requests at a time, any configuration imported, 4 operations, restarts |
| Discovery | Is any request lost, is there ever a second runner, does the stop end? | 2 CIDRs, 2 runner names, any number of requests, 2 changes of the interval |
| AlertBook | Is anything lost between memory and disk, and by the limits? | 2 hosts, history of 3, 2 per host, 3 changes, 2 failed saves or loads, 3 starts |
| Prober | Does every probe get its own answer, while its socket fails and is replaced? | 2 probes at a time, 1 target, 2 sequence numbers, 2 sockets with the same identifier, 3 calls |
| Writer | Does the writer behave like the queue it promises, and does it empty? | 5 results of 1 or 2 units, room for 4, batches of 2, 3 attempts, 5 faults |
| Streams | Is any client told too little, is a closed channel ever used, do streams end? | 2 clients, room for 2, 1 change, 4 messages of the heartbeat |
| Metrics | Is every sample in exactly one minute and one hour, whoever leaves meanwhile? | 2 hosts, limit 1 or 2, 2 hours of 2 minutes of 2 ticks, 6 samples, 2 changes, loop late by up to 1 tick |

### What they show

*Monitor.* A host that is UP has no active alert, in every state
(`UpHasNoAlert`): the alert is resolved under `Engine.mu` by the same step that
makes the host UP, and only a step that makes it DOWN starts one.  An
acknowledgement is never undone by a later failure or rebuild (`AckHolds`).
No alert that was active when a rebuild began is left when it ends, for a host that it took
out or excluded (`RebuildClosesAlerts`).  One that began meanwhile can be left; the host was
still probed and is DOWN, and section 6 has that case.
With one prober, the converse of the first holds too: a DOWN host
has an alert (`DownHasAlert`), the engine's alert fields agree with the manager
(`FlagMatchesAlert`), and the last configuration is in force in the end
(`ConfigurationApplied`), also when a rebuild had read an older one.

The converse needs one prober because of the disagreement of section 6: the
manual ping of `POST /api/hosts/{ip}/ping`, or two workers around a removal and
an addition, can apply a second transition before the callback of the first.

*Schedule.* A monitored host has an entry, and one marked in flight
has a probe that will requeue it (`NoHostForgotten`).  A sleeping dispatcher
never oversleeps a probe it could hand out (`NoLostWakeup`).  A probe of a
failing host starts only when a quarter of the workers, rounded down but at least one,
stays free of such probes (`AnsweringHostsOnTime`), so a large outage does not delay
the hosts that answer.  This is a property of the step that starts the
probe: a pool that shrinks, or a host whose status changes, can leave more probes of failing
hosts under way than that until the first of them end.  A host keeps its slots (`SlotsKept`), a change of the
interval causes no burst (`NoBurst`), every host is probed again and again
(`HostsKeepBeingProbed`), and `Engine.Stop` returns (`StopCompletes`).

*Enrollment.* When no request, sweep or rebuild is under way, the engine
monitors what the store says (`EngineMatchesStore`), an enabled single-IP target
is monitored (`SingleTargetsMonitored`), and a promoted host stays
(`PromotedStaysMonitored`).

*Discovery.* A queued request has exactly one runner that will look at the queue
again (`NoStrandedRequest`), a request is
served unless the process stops (`RequestServed`), and the stop gets past its wait
(`DiscoveryStops`).  When a full sweep is due, one ends some time
(`FullSweepHappens`): a sweep of a single CIDR does not count as one.  This is promised
if the requests for single CIDRs end, since those that keep the runner busy at every
tick put it off (section 6).

*AlertBook.* A version that counts as saved is on disk (`SavedIsOnDisk`), except the empty state
of a start that found or could read no file; a
normal stop saves the last state (`StopSaves`), every change is saved in time
(`ChangesAreSaved`), a start that can read the file gives back what was saved, one that
cannot leaves the file alone until an alert changes (`RestartRestores`), and a noisy host never costs another its entries (`NoisyHostHarmless`).

*Prober.* A probe takes only the reply to its own request (`AnswerIsOwn`), also
when its sequence number was used before or an earlier socket sent the request
that is answered now.  A probe that waits is never forgotten: its answer
is on its way, or it is in the table and a reader or a closer will still look
there (`WaiterIsAnswerable`).  No socket is left open (`NoLeakedSocket`).

*Writer.* The buffer, the payload in flight, the retries and the cut at the limit
amount to one queue (`ImplementsQueue`, a refinement of LossyQueue): a failed batch
that returns in front of newer lines loses, repeats or reorders none of them uncounted.
The buffer keeps its limit (`BufferBounded`), no line is stored in a database without
the configured retention period unless InfluxDB refused to set it
(`RetentionFirst`), and every line leaves when the database recovers, also without
any new result (`Drains`).

*Streams.* No channel is used after it was closed (`NoPanic`).  What an open stream
was not told is still on its way, as the event or as a desync
(`NothingMissedSilently`), and it arrives or the stream ends
(`ChangesReachClients`).  After `CloseStreams` every stream ends (`StreamsEnd`).

*Metrics.* A sample of a minute that was rolled up is in exactly one minute point
(`EverySampleOnce`) and in exactly one hour, finished or in progress
(`HoursComplete`), as long as its host stays in the list.  The list is in the order of
the last samples, so that the limit takes the silent hosts (`LeastRecentGoFirst`).
What the loop makes for a host that has just left does not add up: there is never
more than one such host (`GhostsAreCleared`).

Three properties are proved and run in no configuration: `ScanningShown` (the status
of Discovery is right), `HandOverNeverBlocks` and `SendsOnOpenSocket` (nobody blocks
at a probe's channel, nothing is sent on a descriptor that was given back).  The
type invariants (`TypeOK`) are part of the inductive invariants of the proofs; no
run lists them.

### Why the bounds are enough

* One or two hosts: locks aside, hosts meet only in the worker pool, the limits
  of the history and the sets a rebuild works on; two are enough for one to
  displace the other.  The Monitor actions of one host never read another's
  fields, so the interleavings of that module need one host; the serial
  run has two for the bulk rebuild.
* Two workers with a ping are three concurrent results for one host, one more
  than the shortest counterexample known takes.  `FailThreshold = 2` separates
  the first loss from the transition.
* Three configuration changes cover a rebuild that runs, one that waits on
  `rebuildMu`, and one that comes after the first has read.
* Four ticks to an interval with a phase of a quarter give slots that differ
  between hosts; `Spread` and `ConfirmDelay` lie strictly inside an interval.
  `MaxLate` stops time while a probe is that late; nothing in the code depends on
  how late a probe is beyond "the slot is over".  `Cycle` is a multiple of
  every interval, so time modulo `Cycle` loses nothing.
* The history run starts from a full history in three orders, so a change
  always meets a limit.  `MaxPerHost < MaxHistory` as in the code (20, 500).  Three starts
  and two failures allow for a start that cannot read the file, a save over it, and a
  third start.
* Two changes of the interval switch the periodic sweep off and on again, and make a sweep due
  or not due while another runs.  The requests of the API have no bound.
* Two sequence numbers for three calls make a number come back while its first
  owner is still about to leave, and two sockets cover one replacement.  Probes
  are interchangeable, hence the symmetry; the run has no liveness property.
  The theorems have no such bounds.
* Writer: lines of two sizes and room for four units make the cut of a returning
  payload fall before, at and after the end of a line; five faults are
  a flush that fails three times and a second one that fails after it.
* Streams: with room for two a channel overflows, is drained and overflows again with
  a desync in it; four messages of the heartbeat are enough for that.  Two
  clients and two broadcasts at a time share the locks.  The theorems
  have no such bounds.
* Metrics: `MaxLate` is less than a minute, so that the hypotheses of both theorems
  hold, and `Retention` is more samples than come in
  a minute, the grace and that delay, as the code's comment on `RawSampleRetention`
  asks.  A longer delay is `MetricsPause.cfg` (section 6).  Ten ticks cover the
  end of one hour and the first minute of the next; six samples fill three
  minutes of a host or overlap those of two.
* Four enrollment operations are two overlapping requests, a sweep and a restart.

Some runs give up the check for deadlock because their bounds, or a stop of the
system, end the behaviour.  ScheduleChurn and Streams keep it.

## 4. Fairness

Only goroutines are fair, never people, hosts or the network.

* Monitor: weak fairness of the rebuild (`rebuildMu` is released by every holder).
* Schedule (both runs): weak fairness of the dispatcher, each worker, the two steps of
  `Stop`, and the clock; a probe ends within its timeout because
  the prober returns at its deadline.
* Discovery: weak fairness of each runner and the loop.  The loop's exit is
  strongly fair: a closed `stopChan` is ready at every `select`, the ticker once
  a minute, so the loop cannot pick the tick every time.  `FullSweepHappens` has a premise
  of its own instead of more fairness: from some time on nobody asks for a single CIDR
  (`SingleSweepsEnd`).
* Writer: weak fairness of the goroutine `flushLoop`, whose ticker fires every few
  seconds and whose requests end by their timeouts, and of its exit.  The
  database may fail a bounded number of times, for the same reason as the disk below.
* Streams: weak fairness of each broadcast and each handler; a write ends by its
  deadline of 10 s, and the waiting for a lock ends because the heartbeat's messages
  are bounded.  With a heartbeat that never ends, a schedule that always lets the next
  message overflow the channel before the handler takes the desync would drain it
  for ever; nothing in the code excludes that, and real heartbeats come once a second.
* Metrics: none; the run has no liveness property.
* AlertBook: weak fairness of the saver, which runs every 5 seconds, and of the
  two steps of `Coordinator.Stop`.  Saves may fail, but a bounded number of times:
  nothing can be promised on a disk that stays full.

No fairness is assumed of operators, requests, probe replies, failures or crashes.

## 5. The proofs

Each theorem holds for every value of the constants that satisfies the named
assumption of its module (`MonitorAssumption`, `ScheduleAssumption`, ...).

| Theorem | States |
|---|---|
| `MonitorTypeCorrect` | `TypeOK` of Monitor |
| `AnsweringHostHasNoAlert` | `UpHasNoAlert`, with any number of workers, pings, operators, changes |
| `SerialOutageHasAlert` | `DownHasAlert`, with at most one prober (`OneProber`, a hypothesis) |
| `EngineShowsTheAlerts` | `FlagMatchesAlert`, with at most one prober and no acknowledgements |
| `AcknowledgementsHold` | the action property `AckHolds` |
| `RebuildsCloseOldAlerts` | the action property `RebuildClosesAlerts`, with any number of probers, operators and changes |
| `NextSlotOnGrid`, `NextSlotIsFirst` | `nextSlot` is the first slot after a time, for every phase, interval and time |
| `SuspectCapReserves` | the cap leaves a worker, and a quarter of them, to answering hosts |
| `MonitoredHostsStayScheduled` | `NoHostForgotten` |
| `DispatcherWakesInTime` | `NoLostWakeup` |
| `AnsweringHostsKeepTheirShare` | the action property `AnsweringHostsOnTime`, through every resize of the pool |
| `AnsweringHostsKeepTheirSlots` | `SlotsKept`, for all intervals, phases and delays |
| `ProbesNeverBurst` | the action property `NoBurst` |
| `EngineHasWhatTheStoreSays` | `EngineMatchesStore`, for all hosts, CIDRs, overlapping requests, imports and restarts |
| `SingleTargetsAreMonitored` | `SingleTargetsMonitored`, likewise |
| `PromotedStay` | `PromotedStaysMonitored`, likewise |
| `QueuedSweepsHaveARunner` | `NoStrandedRequest` |
| `StatusShowsTheScan` | `ScanningShown` |
| `NoisyHostPaysItself` | `pushHistory` takes the oldest entry of the same host, all others stay in order |
| `NoisyHostIsHarmless` | the action property `NoisyHostHarmless` |
| `RestartGivesEverythingBack` | the action property `RestartRestores`, also when the import folds the whole history over its limits again, and after a start that could not read the file |
| `SavedVersionIsOnDisk` | `SavedIsOnDisk` |
| `StoppedIsOnDisk` | `StopSaves` |
| `TypesHold`, `AnswersAreOwn`, `NoWaiterIsForgotten`, `HandOversDoNotBlock`, `SocketsAreClosed`, `SendsNeverHitAClosedSocket` | all six properties of Prober |
| `WriterImplementsQueue` | `ImplementsQueue`: the refinement, for lines of any sizes, any limit, batch and number of faults |
| `RetentionIsSetFirst` | `RetentionFirst` |
| `BufferStaysBounded` | `BufferBounded`, for lines of any sizes |
| `StreamsNeverPanic` | `NoPanic`, for any number of streams and broadcasts and any room |
| `NoEventIsMissedSilently` | `NothingMissedSilently`, likewise |
| `MetricsTypeCorrect` | `TypeOK` of Metrics |
| `SilentHostsGoFirst` | `LeastRecentGoFirst` |
| `RemovedHostsLeaveNothing` | `GhostsAreCleared` |
| `SamplesAreRolledUpOnce` | `EverySampleOnce`, while the loop is not so late that it gives up a bucket (`NothingSkipped`, a hypothesis) |
| `SamplesAreInOneHour` | `HoursComplete`, while it is less than a minute late too (`HoursInOrder`, a hypothesis) |

Every safety property of the passing runs is among them.

The assumptions say what the code takes for granted.  The limits of the
alert history are positive and one host's is not above that of all; histories found at
the start are within them.  The hosts of a CIDR are fixed, CIDRs are finitely many, and
an import gives each CIDR one state.  In Metrics an hour is a number of minutes, and the ring has
room for the samples of a minute, the grace and the delay of the loop, as the
code's comment on `RawSampleRetention` asks.  The remaining assumptions tell model values
apart, which strings of the code are.

How they go:

* *Monitor.* `UpHasNoAlert` is not inductive: a late callback of a transition to
  DOWN could start an alert for a host that answers again.  `CallbackInv` says that
  a DOWN copy always carries the alert the transition started, so its callback
  ends at once, and that only callbacks of UP go on; those resolve.  `UpInv` joins it with the
  property.  The serial theorem adds (`SerialInv`) that a callback of UP under way finds no
  alert, and that an alert in a rebuild's snapshot is still active for a host the
  rebuild is about to add; with one prober no other transition comes between, the
  only use of the hypothesis.  `FlagInv` says the same of the engine's alert fields: for a
  host the rebuild is about to add, its snapshot and the manager agree.  An
  acknowledgement can make them differ (section 6), hence that theorem's second hypothesis.
  `RebuildClosesAlerts` looks at the last step of a rebuild.  `ClosedInv` carries it there
  from the steps that closed the alerts: if a host that is leaving has an alert after them,
  it is DOWN.  `AgeInv` adds that this alert is not one of those that were there when
  the rebuild began: the step that closes a host's alert takes it out of `old`, and no step but
  the start of a rebuild puts one in (`ClosingStep`, `OldStep`).
* *Schedule.* All theorems rest on `ShapeOK`, the part of the type invariant
  that does not mention the bounds, and on `JobInv`: exactly a busy worker, or a dispatcher
  that offers one, holds a job of a host.  For the
  wake-up, every step that adds a probe or frees a suspect slot puts the token
  into `schedWake`, and time takes the timer and the due times down together.
  For the share, `suspectInFlight` is the number of workers that carry a suspect
  probe, and one more while the dispatcher offers one (`SlotsCounted`), also after the host of such
  a probe was removed; and `TakeJob` is the only step that starts a probe.  For the slots and the
  pace, `RegularInv` says of a queued probe that its interval is the one in force or that of DOWN
  hosts, that it keeps its distance from the last probe, and that it is due on a slot
  if the last probe was answered; that a slot
  stays one while the clock wraps needs that `Cycle` is a multiple of each interval.
* *Enrollment.* The property speaks of moments when nothing is under way.  The invariant
  speaks of all others: as long as a request or a sweep still has a
  rebuild of its own to do (`Owed`), nothing is promised.  Once none is owed, what the
  current rebuild has read is still what the store says (`RebuildInv`), since every
  step of a request or a sweep that changes the store belongs to somebody who owes one; and when
  that rebuild ends, the engine has it (`EngineInv`).  For hosts that several CIDRs cover the engine
  is up to date with an entry as it was before the last prune (`UpToDate`), hence the
  condition in `EngineMatchesStore`.
* *Discovery.* The invariant is the conjunction of `TypeOK` and the two properties;
  each needs the other, because `finish` leaves the status to the queue it finds.
* *AlertBook.* The saver carries a version and, after the export, a state.  The
  invariant says: if the version it carries is still the current one, the state it
  carries is the current one.  So a change that comes between the steps makes
  the versions differ, and the state counts as unsaved.  `RestartRestores` needs that a
  state within the limits passes the import unchanged (`PushAll`, an induction over the
  history), and `StatesInv` says that what is in memory, on disk and on its way
  there is within them.  That an unread file stays follows from the versions: a saver under way
  carries one above `saved`, so it is not the 0 of such a start.  `StopInv` says that the last save begins after the last change.
* *Prober.* Three invariants are proved together.  `IInv` is about numbers: no two
  calls of a socket have the same one, an entry of the table belongs to the
  call with that sequence number, a request with a call's number is that call's,
  and an answer a reader holds belongs to a call that has left the table.
  `SockInv` ties descriptor, reader and closer of a socket together.  `WaitInv`
  splits `WaiterIsAnswerable` into an inductive form: a registered call is in the
  table or has its answer coming, and only a socket that is still read or closed
  has waiting calls.  The lemmas `KeepsCalls` to `GivesAnswers` are one per kind
  of step, so that each action is an instance of one of them.  That the choice
  of the next free sequence number exists rests on the library's well-foundedness of
  the natural numbers (`NextFreeIsFree`).
* *Writer.* The invariant is small: the types, and an idle flusher has an empty
  payload.  The refinement has one lemma for each way in which lines move
  (`TakeMovesNothing`, `RetainIsFail`, `FlushEndIsStep`, `RetryIsStep`,
  `WriteProbeIsRecord`) and rests on facts about concatenated sequences, since the
  queue is the payload followed by the buffer.  `RetainIsFail` needs that the cut takes no
  more lines than the payload has, whatever their sizes (`DroppedFromBounded`).
  `RetentionIsSetFirst` adds that `dbReady` is only set when the period is set or refused,
  and that nothing is stored or sent before.  `BufferStaysBounded` is an induction over the
  lines: what the cut leaves is as long as the payload less what it dropped.
* *Streams.* `IInv` is the types and three facts: a broadcast serves registered
  clients only and drains one of them (`CasterOk`), registered clients have an open
  channel (`ClientsOk`), and one broadcast at a time holds the locks (`OneCasts`).
  `NoPanic` is part of it.  `NoEventIsMissedSilently` follows a change on its way:
  in a broadcast, in the channel, in the handler's hand (`ThreeWays`); each step
  keeps it or passes it on (`CasterKeeps`, `SendKeeps`, `HandlerKeeps`).
* *Metrics.* `WithoutLeaves` says what a removal leaves of the list: the other hosts, once
  and in their order.  With it `LruInv` is inductive as soon as it is known
  that no sample is newer than the one under way (`ClockInv`).  `GhostInv` adds to
  its property the host the loop works on: what is removed now is not yet put back, and
  a removal clears what was.  For the minutes, the loop closes a minute
  only after the grace, and a result takes no longer than that from its time to the buffer
  (`TimeInv`), so a sample is in the buffer before its minute is rolled up; the ring
  has not lost it by then (`RingHasTheMinute`); and a point has samples of its own minute only
  (`PointsInv`).  `MinuteInv` says where a sample is while the round that rolls up
  its minute is under way.  For the hours, `HourTimeInv` puts the two rounds in order: when the
  loop closes an hour, the next minute to roll up is the first of the next hour.
  This is where `HoursInOrder` is needed, and `MetricsPause.cfg` shows that it is.
  Then an hour in progress never has samples of two hours (`AggInv`), and a
  sample moves from it to the point in the loop's hand and to the series (`HourInv`,
  `HourPointsInv`).
* *Induction over data.* The library's induction theorems cannot be used here, since
  they take an operator.  Where a fact about a recursive function is needed (`Without`, `PushAll`, the
  bytes of a payload), it is proved by its least counterexample among the natural numbers, and
  the function defined by recursion is shown to exist the same way.

What is only model-checked: liveness (`ConfigurationApplied`, `HostsKeepBeingProbed`,
`StopCompletes`, `ChangesAreSaved`, `RequestServed`, `FullSweepHappens`,
`DiscoveryStops`, `Drains`, `ChangesReachClients`, `StreamsEnd`), which is
outside this prover.

## 6. Disagreements between the code and its documents

The first of these is a run that ends in a counterexample; the configurations of
the other three are kept beside the runs and end in one too.

1. **A stale callback resolves a new alert** (MonitorStaleCallback,
   `server.go:1139`).  A result makes the host UP; before its callback runs,
   another prober makes it DOWN and starts an alert; the callback then
   resolves whatever alert the host has.  The host stays DOWN without an alert,
   against README line 86.
2. **An alert nobody closes** (`MonitorOrphan.cfg` with Monitor, `server.go:483`).  The rebuild
   closes the alerts of hosts that leave, then tells the engine; a host that goes
   DOWN in between leaves an alert behind until another rebuild, against README line 88.
3. **A deleted host is enrolled again** (`EnrollmentDeleted.cfg` with MCEnrollment, `server.go:921`).
   A sweep saves, at its end, whether each host was static when it began; a
   single-IP CIDR deleted meanwhile comes back as a static host, and no deletion
   prunes a static host (`server.go:672`, README line 493).
4. **A pause over the end of an hour loses that hour** (`MetricsPause.cfg` with
   MCMetrics, `store.go:523`).  When the loop is late by a minute or more over the
   end of an hour (a suspended machine, a long stall), it rolls up the last minute of the
   hour and then the first of the next before it looks at the hours; `rollupMinute` starts
   the new hour and drops the one that was never made a point (`rollup.go:265`).
   The comment of `rollupLoop` (`store.go:494`) promises: "No sample is skipped or
   counted twice, however the ticker jitters."  The minutes are complete.

Others met while modelling, not carried as runs:

* An ICMP error is matched by sequence number and target only, on a raw socket or if the
  router quotes fewer than 24 bytes of the request (`icmp.go:646`, `660`): a late one ends
  the newer probe of the same target that has the number.  `AnswerIsOwn` therefore
  promises less for errors than for replies.
* `LateReplies` (`icmp.go:127`) also counts duplicates and replies from another
  address, not only replies after a timeout.
* An acknowledgement marks the engine's copy of the host after the alert it was
  meant for is gone (`server.go:2823`); a newer alert then shows as acknowledged.
* A change of the interval moves a confirm probe to the host's next slot
  (`schedule.go:228`); README line 58 promises it after `confirmProbeSec`.
* Pruning looks at the CIDR a host was found in, the target list at every CIDR
  that covers it (`server.go:361`): with overlapping CIDRs a host stays monitored
  until the next rebuild and then leaves.
* An alert state file that cannot be read or parsed is logged, and DINIS starts without
  alerts (`server.go:122`).  The file stays as it is until an alert changes; that
  save replaces it, with no copy kept.  No document speaks of this case.
* The loop skips a minute in which the runner is busy (`server.go:1060`), so requests for single
  CIDRs that run at every tick postpone the periodic sweep as long as they go on; README
  line 29 says that such a sweep does not change the schedule.  The API's limit of one
  request in 30 seconds does not prevent it: a sweep may run for minutes, and the next waits in the queue.
* `PUT /api/cidrs` reads an entry and writes it back (`server.go:2613`): a
  deletion in between is undone.
* A process killed between the two writes of `DeleteCIDR` (`server.go:682`)
  keeps the static entry of a single-IP CIDR, and monitors it after the restart.
* README line 603 says that the InfluxDB buffer deletes its oldest points; when the
  buffer is full, `WriteProbe` drops the newest (`writer.go:167`).  Only a batch that
  failed makes room by its oldest lines.
* `SetCapacity` (`store.go:134`) removes a host's history while the loop may hold its
  buffer: the loop then writes one more minute for it, and as long as the host is
  monitored but has no buffer, nothing removes that point.
* Between `rollupHour` and its append (`store.go:573`), a reader of the hour history sees
  the hour neither in progress nor finished; the next poll shows it.
* An event leaves before the snapshot cache is invalidated (`server.go:1135`), and events
  are encoded before `broadcastMu` is taken (`server.go:1168`): a view may be one poll old,
  and a stream may carry an older state of a host after a newer one.  No document
  promises more.
* A quarter of the pool is kept for answering hosts, rounded down (`schedule.go:136`):
  with seven workers six may probe failing hosts, more than the three quarters of README
  line 77.  When the pool shrinks, the probes of failing hosts already started stay over
  the smaller cap until they end; `AnsweringHostsOnTime` speaks of starts.

## 7. What is left out

* Monitor: changes of the thresholds while hosts count, the rate limit of manual
  pings, shutdown, and rebuilds that read a configuration which is half old and half new
  (Enrollment has that).
* Schedule: the heaps' layout, the load figures of the health report, sub-tick time.
* Enrollment: exclusions, settings, host metadata, last replies, and saves of the
  data file that fail.  The store and the file agree there.
* Discovery: `RunDiscovery`, which only tests call; HTTP handlers that outlive the
  5 seconds of `http.Server.Shutdown` and request a sweep while `Stop` waits;
  settings that cannot be saved.  A change of the interval between the loop's read of the
  settings and its look at the queue counts as one that comes after both.
* AlertBook: the time in an alert's ID; alerts are numbered.
* Prober: the counters, the ping command, the choice between ping and raw socket,
  the time of a reply, and liveness of `close`; a probe returns at its timeout in any case.
  An ICMP error whose destination the kernel does not give would end any probe with its
  number (`icmp.go:676`); the kernel gives it for every error of a packet that was sent.
* Imports: settings and exclusions of the file, and the import of host metadata.
* Writer: the ICMP error class and the other fields of a line, the querier
  (`query.go`, one read-only request per call), and the text of errors in the log.
* Streams: tickets (one map, every access one critical section of `ticketsMu`), the
  snapshot cache, the text of the events, and the client's side.  An event that cannot
  be encoded is given up without a desync (`server.go:1165`); every type that is broadcast
  can be encoded.
* Metrics: what a point says of its samples (percentiles, jitter, loss), the retention
  of points, outliers and the subnet matrix, which read single snapshots, and
  `SetHourHistory`, which is called at start-up only.
* Not modelled at all: address arithmetic, HTTP parsing and formatting, the
  JavaScript dashboard, nginx and Docker files.  They are sequential, or keep no
  state of their own.

## 8. The plan

The order follows what a failure costs.  All ten steps are done.

1. Monitor, with the theorem that a host that answers has no alert.
2. Slots and Schedule, with their theorems.
3. AlertBook: limits, save, crash, restart.
4. Discovery: queue, runner, shutdown.
5. Enrollment: store, requests, sweep, rebuild.
6. Prober: pending requests of the ICMP prober, sequence numbers that are used
   again, late replies, and a socket that fails, closes and opens again, with
   theorems for all its properties.
7. Imports as one more request of Enrollment, planned from a snapshot.
8. Writer: the InfluxDB buffer at its limit, a failed batch in front of newer
   points, retries, and the flush at the stop, as an implementation of LossyQueue, with
   the refinement proved.
9. Streams: the channel of each client, desync and shutdown, with theorems.
10. Metrics: ring buffer, rollup against prune and eviction.

Further abstract specifications worth stating: for Enrollment, "the engine monitors what
the store said at some time since the last request began"; for Monitor, a host whose
status alone decides its alert, which the serial instance implements; for AlertBook,
a variable that survives a restart.  With every safety property proved, what is left
to prove are such refinements, and the type invariants of the modules where only a part
of it was needed (Schedule, AlertBook).

## Running it

    tlc -config MonitorFull.cfg MCMonitor.tla
    tlapm MonitorProofs.tla

`PROJECT.json` names the module and configuration of each run, the lines of the
code behind each definition, the hazards, and for each property a change of the
code's behaviour that makes it fail.

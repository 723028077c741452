# oxiroute in TLA+

Specifications of the parts of oxiroute where threads, processes, files and
failures meet: which process or runtime generation serves the traffic (the
supervised master and its workers, the generation manager of direct mode, the
accept gate both use), how the configuration file is replaced, the persistent HTTP
cache, and the admission of requests to the servers of a pool. TLC checks them on
small instances; TLAPS proves the state machines, the gate, the generation manager,
the configuration store, the cache and the pool for every value of their constants.

## The system

oxiroute is a reverse proxy. It runs either directly (one process that replaces
its own runtime generation on reload) or supervised: a *master* process owns the
listening sockets and runs a *worker* process per configuration generation. On a
reload the master starts a candidate worker, quiesces the active one, activates
the candidate, and drains and stops the old one; at any failure before the
candidate is activated it rolls back to the old worker, and a failure of the
active worker fails the service closed.

### Inventory

| Component | Code (under `src/`) | State | Operations | Interacts with |
|---|---|---|---|---|
| Replacement supervisor | `crates/oxiroute-supervision/src/replacement.rs`, `lifecycle.rs` | three roles (active, candidate, retired), each an instance with a lifecycle | `apply` of 13 events, `phase` | called by the master; returns actions |
| Generation catalog | `crates/oxiroute-supervision/src/catalog.rs` | five roles of launch documents, allocator, two watermarks | allocate, begin, commit, quarantine, record, take | driven by the runner from master events |
| Correlation table | `crates/oxiroute-supervision/src/correlation.rs` | pending requests by id, next generation | insert, complete, expire | library for RPC callers |
| Master | `crates/oxiroute-supervisor-master/src/master.rs` | stage, three worker slots (pending request, deadlines, termination state, channel), deferred exit, failure, queued events | launch, replace, poll, shutdown | replacement supervisor, worker processes, runner |
| Runner | `crates/oxiroute-server/src/supervised/master.rs` | catalog, reload monitor, signals | driving loop, reconcile, shutdown, cleanup | master, catalog, configuration file |
| Worker | `crates/oxiroute-server/src/supervised/worker.rs` | startup, quiesce handle, accept gate, lifecycle | control loop: adopt, activate, quiesce, reactivate, drain, shutdown | master over a seqpacket channel, runtime generation |
| Worker processes | `crates/oxiroute-supervisor-process/src/` | child, process group, cgroup lease, channel endpoint | spawn with authenticated handshake, send, receive, poll exit, kill, drop | kernel |
| Status history | `crates/oxiroute-supervisor-master/src/status.rs` | bounded ring of worker events, snapshots | record, page by cursor | master, management API |
| Accept gate | `vendor/pingora-core/src/apps/mod.rs` 40-399, `services/listening.rs` | state and epoch under a mutex, a watch channel, participants, claims | enable, close, wait, reopen, register, claim, acknowledge | accept loops of TCP listeners and QUIC endpoints, generations |
| Generation manager (direct mode) | `crates/oxiroute-server/src/generation.rs`, `main.rs` | active, previous, candidate, start reservation, mutation permits, operation gate; the supervising thread and a thread per runtime | prepare, start, activate, rollback, quarantine, mutate, drain, shutdown | accept gate, watcher, lifecycle calls |
| Watcher, lifecycle calls | `crates/oxiroute-server/src/config_watcher.rs`, `lifecycle_control.rs`, `rtmp_api/config.rs` | none of their own | reconcile; reload, rollback, drain, shutdown, save | generation manager, coordinator |
| Configuration coordinator | `crates/oxiroute-server/src/config_coordinator/` | canonical file, lock, temporaries | load, save by compare-and-exchange, rollback | management API, watcher |
| HTTP cache | `crates/oxiroute-cache/src/cache.rs`, `disk.rs` | entries, fills in flight, record files and their index | lookup, fill, store, purge, evict, shut down, recover | proxy, disk |
| Health and pools | `crates/oxiroute-server/src/health.rs`, `routing.rs` | FIFO of waiters, permits, capacity generation, health, administrative state, passive ejection | select, wait, connect, release, probe, record, administer | proxy, admin API |
| TCP and UDP relays | `crates/oxiroute-server/src/tcp_relay.rs`, `udp_relay.rs` | session table, queues, byte accounts | admit, relay, expire | pools, generations |
| RTMP | `crates/oxiroute-rtmp/src/` | live hub, relays, recordings, segments | publish, play, push, record | sessions, disk |
| ACME and TLS | `crates/oxiroute-acme/src/`, `crates/oxiroute-server/src/tls/` | jobs, challenges, certificate revisions, watchers | order, validate, commit, collect, reload | CA, disk, listeners |
| Forward proxy, HTTP/1-3 proxying | `crates/oxiroute-server/src/forward_proxy.rs`, `http_proxy.rs`, `http3.rs` | per request | forward | pools |
| Configuration formats and import | `crates/oxiroute-config*/`, `crates/oxiroute-import/` | none | parse, resolve, validate, convert | CLI |
| UI, website, benchmarks, packaging | `ui/`, `website/`, `benchmarks/`, `scripts/` | none of the server's | | management API |

### What is hard

- The master polls. Between two polls a worker may answer, exit, hang up and
  time out in any combination, and one poll handles at most one observation per
  worker, after timeouts, in an order that depends on the phase. Which role an
  instance has when its observation is *handled* may differ from when it was
  *taken*.
- The same fact is kept three times: in the master's slots, in the replacement
  supervisor and in the catalog. They are updated at different moments, the
  catalog only when a poll has returned without an error.
- The exit of the old worker during the candidate's activation is *deferred*
  until the candidate's answer is known.
- Every send may fail, and the reaction to a failed send sends again.
- A worker loads the configuration file itself, after the master did.
- Generation ids and correlation generations are consumed, and may run out.
- The accept gate changes under a mutex and is published on a watch channel
  outside of it; accept loops act on what they last read, claim under the mutex
  and acknowledge later. Two controllers may close, wait, reopen and drain at
  once, and a session counts itself between two looks at the gate.
- Activation in direct mode takes the manager's lock twice and waits for the old
  gate in between; the watcher decides on a status it read earlier; a shutdown
  may come at any moment, also while a preparation holds the operation gate.
- A save of the configuration exchanges two names and looks afterwards at what it
  has displaced; outsiders hold no lock, and the process or the machine may stop
  after any system call.
- A cache record is removed, linked and synced in steps that fail one by one,
  while fill guards are dropped without the lock.
- Waiters of a pool are woken by notifications that may come before they listen,
  reach somebody who has just left, or be due to a permit somebody else takes.

What makes each modelled component correct is listed with its run below.

## Modules

| Module | What it is |
|---|---|
| `Replacement` | `ReplacementSupervisor` and `Lifecycle` as functions: one operator per event, giving the supervisor left behind, whether it was accepted, and the actions asked for |
| `ReplacementSupervisor` | the same as a state machine to which any event may be applied at any time |
| `Handover` | what it promises: one owner, at most one successor in the making, ownership passes to it or returns |
| `Catalog`, `GenerationCatalog` | the generation catalog as functions, and as a state machine any caller may drive |
| `CorrelationTable` | the correlation table |
| `Master` | the supervising master as functions of one record: launch, replace, poll, shutdown and every handler below them |
| `Worker` | one worker: its control loop, gate and channel ends |
| `Runner` | what the runner does to the catalog: queued events and reconciliation |
| `MasterSystem` | runner, master, workers and configuration file interleaved; composes `Runner`, `Master`, `Worker`, `Catalog`, `Replacement` |
| `AcceptGate` | the accept gate of a generation with accept loops, references, closes and drains interleaved |
| `Generations` | the generation manager of direct mode, its supervising thread, the runtimes, the watcher and the lifecycle calls interleaved |
| `ConfigStore` | one configuration file, its savers, outsiders and a file system that may lose what was not synced |
| `DiskCache` | the memory cache and the record files below it |
| `Pool` | admission to the servers of one upstream pool |
| `*MC` | constants for TLC |
| `*_proofs` | theorems |

### How they correspond to the code

`Replacement`: an instance is a record of identity, generation and lifecycle; an
empty `Option<Instance>` is `Vacant`. The handlers write before they have checked
everything, so an error reply carries the supervisor *as mutated so far*, and
`RejectedEventChangesNothing` is a property and not an assumption. The
`unreachable!()` arms of `phase` are the value `"Unreachable"`.

`Master`: each handler is an operator from the record of the master and its
workers to the record it leaves; `err` stands for an `Err` passing through `?`
(`Try`), and what was done before the error stays done. Time is one flag per
poll, *due*: the earliest deadline has passed. The set *bad* says which sends of
a call fail. Observations are taken for the three roles first and handled after,
as `poll` does, with the candidate's successful activation first while it is
activating. Failure labels (`FailurePhase`), status frames and the events only a
log reads are left out; the events the catalog reads are kept in order.

`Worker`: one turn of the control loop per request. The accept gate is its
outcome for the master: open after activation, closed by quiescing, reopened
only through the handle of the close, which draining makes stale. What the
runtime does (start, wait for the gate, drain, shut down) succeeds or not.

`MasterSystem`: one iteration of the driving loop is one step, because the
master is single-threaded and workers share nothing with it but channels and
exits. `DrivePoll` is an iteration without, `DriveReload` one with a
reconciliation. What an iteration does first and what it does last is observable by
a worker that runs meanwhile in one case only, that of a worker it kills: such a
worker keeps its gate until `Exit`, and stands for itself from the first act of the
iteration until SIGKILL has ended it. Worker `i` carries generation `i`:
`replacement_worker_identity` derives the identity from the generation.

`AcceptGate`: one step is one critical section of the gate's mutex, one access to
the watch channel, or one atomic counter. `gate` is `published`, `watch` the value
of the channel, and `seen` the version a receiver has seen; versions are epochs,
since no two published values share one. Counters of claims and references are the
sets of those they count. An accept loop of `run_endpoint` goes through *top*
(read the state), *claiming*, *accepting* (the select), *releasing* and *answering*
(drop the ownership, acknowledge), or *acking* and *waiting* when it reads a closed
gate; the one of `serve_endpoint` through *starting*, *serving*, *noting* or
*closing*, and *ended*. A controller is a thread that enables, closes, waits,
reopens or drains, with the `AcceptGateClose` it holds; its publication is a step
of its own. `start_accepting` is called once in the life of a generation
(`publish_reserved_candidate`), before anything has stopped it. Applications
with a gate never take a claim through `begin_admission`, so only accept loops own
claims. The condition variables of `wait` and `drain` are a condition that is
tested again. The HTTP/2 connections that register as participants of their own
(`http_server_app.rs:175-207`) are left out: they claim nothing and acknowledge the
state they first read.

`Generations`: a step is what one thread does under one acquisition of the
manager's mutex, one operation of an accept gate, or one atomic flag. A generation
keeps its revision, the life of its runtime, its thread and its
gate, reduced to whether it accepts and who moved it last, which is what
`AcceptGateClose` compares by epoch; `AcceptGate` models the gate itself. The
supervising thread goes through the body of `supervise_generations` with the places
where it lets go of the manager: begin, claim, spawn, setup, ready, reserve, close,
wait, publish, and the ways out. Only this thread starts candidates, so that the
token of a start reservation is left out. Identities of generations nobody holds
are used again, so that the model is finite; the code has no such limit.

`ConfigStore`: a file is an inode with a content, a name a link, and `dirs` is the
set of directories a power loss may bring back, emptied by `fsync`. A saver holds
the operation mutex, the directory lock and the lock file throughout, so there is
one transaction at a time and a step is one system call or one stable read of
`replace`, `rollback`, `finish_candidate` and `remove_exact_identity`. An outsider
renames a file over the canonical name, or truncates it and writes later through
the descriptor. Every write is a new revision. `owed` is a history variable: the
last acknowledged write. Every system call and every read may fail. When the new
temporary file cannot be examined its name stays; a failed write of it is removed like
a failed `fsync`.

`DiskCache`: an operation holds the mutex of the disk cache; its removals, syncs,
link and memory changes are steps. Guards end without it. A representation is the
number of the fill that fetched it, and `floor` is a history variable: the newest
representation of a key that a purge or a later store has made unwelcome. Any removal
of an operation may fail, also after others that were not synced yet: `undone`, a
history variable too, has what such an operation had removed. Quotas
are counted in records, all of one size. Freshness is left out: a lookup that finds
an entry touches it.

`Pool`: only pools with `queue_timeout_ms`. A notification is four steps (move the
capacity generation, wake the listeners, read the front of the FIFO, notify it) and
any thread may be between them. A selection is the reads and compare-and-swaps of
`select_server_excluding` one by one; the filter that drops the full candidates is
part of the attempt on each, which drops it all the same, and a connector reads the
generation in the step in which it takes its server or finds it moved. Tokio's `Notify` is external: `notify_one`
completes an enabled future or leaves a permit, `notify_waiters` reaches enabled
futures only. A connector stands for a reusable HTTP request in the loop of
`get_http_session`. The round-robin cursor, weights, statistics and HTTP/2 streams
that share a connection are left out: any candidate may be tried first.

## Runs

| Run | Question | Instance |
|---|---|---|
| `supervision` | Do the roles of the replacement supervisor stay consistent, and is `Handover` implemented? Are generations used once, also when ids run out? Is every token resolved exactly once? | one of the three structures per behaviour, the others idle: 3 identities and 4 generations, every lifecycle offered to `Begin` (a completed replacement, a rollback and a further attempt fit); 3 document ids (symmetric), generations 0 to 4, so that the allocator is exhausted; 3 request ids, capacity 2, 4 generations: full, reused, exhausted |
| `master_faults` | Do master, supervisor and catalog agree, and when do two workers serve at once, with every kind of fault? | 2 workers, both faulty; 4 revisions (one with other listeners, one that does not load), 2 crashes, 1 bad frame, 1 failed send, 1 failed spawn, 2 writes, 1 stop |
| `candidate_faults` | Can a faulty candidate hurt a healthy active worker, does everything end although it may hang, and does the service settle on the last configuration? | 5 workers, the second faulty, 2 interchangeable revisions, 1 crash, 1 failed spawn, 2 writes, 1 stop: the faulty worker is a candidate, then active, then retired by the third, or the attempts after it, a failed spawn and a write that raced a launch succeed in the end |
| `gate` | Does a close that was waited out exclude every owner, does drain leave nobody behind, and is no transition slept through? | 1 TCP listener with a connection, 1 QUIC endpoint, 1 session, 2 controllers, 3 transitions: enable, close, and a reopen or a second close |
| `direct` | Does one generation accept at a time in direct mode, whatever interrupts an activation, and do reconciliation and shutdown come to an end? | 4 identities (active, previous, candidate, one being stopped), 3 revisions of which one needs a restart, 1 edit (and a save), 1 call, 2 faults, a signal at any time |
| `config_store` | Is no outside write lost, is the file whole, are leftovers and outcomes reported truly? | 2 saves, 3 outside writes, 2 failing calls, 1 crash: a rollback that is itself interrupted, a write in place that races an unlink, and a save after a crashed one |
| `cache` | Does what a purge removed stay removed, and do index, directory and quota agree? | 4 keys of 2 requests (two variants, one of another Vary schema), 2 files, 2 flights, 3 fills, 1 purge, 1 fault, 1 crash |
| `pool` | Are permits counted exactly, and is every sleeping waiter right to sleep? | 2 servers of one permit, a request for either and one for the first only, 2 connectors (symmetric), 1 operator, 4 events: a waiter behind a waiter, a connector outside the FIFO and a change of state |
| `doomed_candidate` | see Disagreements | 2 workers, the second faulty, 1 bad frame, 1 write |
| `torn_purge` | see Disagreements | that of `cache`, 2 files |
| `blind_read` | see Disagreements | 2 saves, 1 outside write, 1 failing call |
| `quarantine_retry` | see Disagreements | 3 identities, 2 revisions, 1 edit, 1 fault |

The bounds of the master's runs count disturbances, not steps: polls, answers and timeouts are
unbounded. Two workers suffice for everything that concerns one replacement, since the
master never holds more than two workers at once (`RolesAgree`); the further workers
of `candidate_faults` are there for what one replacement leaves behind for the next,
and five are as many as the disturbances of that run can use up before the last
launch. One disturbance of each kind, and two
crashes, cover the pairs of failures that compensate one another. These runs set
`CHECK_DEADLOCK FALSE`: the service ends when it is stopped or has failed. The
other state machines with bounded disturbances set it too: once the events are used
up, and the loops have been shut down, nothing is left to do.

Properties of `MasterSystem`, in words:

- `SlotsMatchSupervisor`, `CatalogMatchesMaster`: the three records of who has
  which role agree, so that the catalog never meets an event it does not expect,
  which would end the service.
- `OneWorkerAdmits`: two workers admit connections together only in the window of a
  rollback, in which the active worker has been sent Reactivate and the candidate it
  replaces is killed and has not ended yet. Killed workers count as long as their
  process lives.
- `RunningMeansServing`: never an idle master with a closed gate.
- `EveryWorkerHasARole`: no worker is forgotten while it runs.
- `HealthyActiveSurvives`: only the active worker's own fault fails the service.
- `PollSucceeds`: `poll` does not meet a replacement invariant it violates itself.
- `ShutdownCompletes`, `FailingEnds`, `ReplacementEnds`, `RunnerEnds`: no wait is
  without a deadline or a process that must end.
- `SameListeners`, `Converges`: no worker runs with other listeners than the
  master holds, and the service settles on the last configuration written, unless its
  active worker is a faulty one (which may refuse to quiesce for ever).

Properties of `AcceptGate`:

- `QuiescedExcludesOwners`: from the moment `wait` returns true until the gate
  moves on, no accept loop is inside `accept` or holds what it accepted under its
  claim.
- `DrainedMeansIdle`: from the moment `drain` returns true until the gate moves on,
  no reference is held; a session that raced the close has taken itself back.
- `StoppedForGood`: once no close is left that may reopen it, a closed gate stays
  closed.
- `ListenersResume`: a gate that stays open has every TCP loop back in accept.

Properties of `Generations`:

- `OneGenerationAccepts`: only the active generation accepts, at every instant.
- `PermitPinsActive`: a lifecycle call or a save acts on the generation it was
  admitted against, and no start is under way meanwhile.
- `ActiveServesUnlessDrained`: outside the wait of an activation the active
  generation accepts exactly if nobody drained it. A refused activation gives the
  gate back; a drained generation is never reopened by one.
- `PublishedRuntimeIsLive`: what is published has a runtime that was started and
  not cancelled, and nothing is published once a shutdown was reserved.
- `Converges`: an edit ends up active, quarantined, in need of a restart or
  unreadable, for good.
- `StopCompletes`: a daemon told to stop does, and nothing accepts from then on.

Properties of `ConfigStore`:

- `NoLostUpdate`: the last acknowledged write is in the directory under some name
  until a save that expected it has replaced it. Two unlinks are excepted, and nothing
  else is: that of a displaced file after the installed one could not be read, and that
  of a file which was written in place after it had been compared.
- `CanonicalIsWhole`: whatever directory a power loss brings back, a whole file is
  under the canonical name.
- `LeftoversAreReported`: a temporary name is left only by a save that died,
  failed or reported a degraded cleanup.
- `OutcomeIsTrue`: saved means durable and over the expected revision; conflict
  means that the other write is in place.

Properties of `DiskCache`:

- `NothingStaleReturns`: nothing older than what a purge or a newer store made
  final is in memory, in the index, or in a file a crash could bring back, unless an
  operation had removed it before and failed before its sync.
- `FlightsHaveLeaders`: a flight has a leader that will take it off, a channel is
  unanswered only while its flight is in the table, and no guard ends the flight of
  another leader.
- `FilesWithinQuota`: at every step and after a crash.
- `IndexMatchesDisk`: between operations an open cache knows exactly what is on
  disk, and all of it is durable; removals are, but for those of an operation that
  failed at a later removal.

Properties of `Pool`:

- `PermitsAreCounted`: the active work of a server is its leases, the connections
  in use and the idle ones.
- `OnlyTheHeadSelects`: every waiting request is in the FIFO once, and only its
  head looks for a server.
- `SleepingHeadMustWait`, `SleepingConnectorMustWait`: who sleeps with no
  notification on its way has nothing to take, unless an ejection has just lapsed.

### Fairness

`FairSpec` assumes that the runner keeps polling (a loop with a 10 ms sleep), that
a deadline that has passed is acted on, that reconciliation comes round (every
30 s by `next_trigger`), that a process hit by SIGKILL ends, and that a *healthy*
worker answers and ends once it is leaving. A faulty worker owes nothing. The
fairness of the polling steps is written with its enabling condition spelled out
(`PollEnabled`, `ReloadEnabled`) in place of `WF`: `Poll` is a function, so the
step can change something exactly if `Poll` does, and TLC evaluates that at a
fraction of the cost of `ENABLED`.

For the gate, `GateFairSpec` assumes that a controller publishes what it has decided
and that an accept loop runs its straight-line code and is woken by the channel.
Nothing is assumed of arriving connections, ending sessions, shutdown signals, or
of a controller closing, waiting or reopening.

For `Generations`, every thread keeps running: the watcher (which reconciles
periodically), a call in progress, the runtimes and the supervising loop. Edits,
calls, faults and signals are not assumed. Strong fairness of `SupRetire` says that
a retired process is collected although other passes of the loop come in between;
the code looks at the retired processes in every pass, and the model needs it only
because it reuses identities. `Converges` allows for quarantine: the watcher does
not prepare a quarantined revision again. A rollback does not stay: the file still
has the newer revision, and the next reconciliation prepares it again.

`DiskCache`, `ConfigStore` and `Pool` are checked for safety only; that nobody
sleeps through a wake-up is stated as an invariant about who may be asleep.

### Disagreements found

Four runs show the code and a statement about it apart; they are the findings in
`PROJECT.json`.

- `doomed_candidate`: a candidate that timed out is being killed; a bad frame it
  had already sent is read in the same poll. `handle_phase_failure` has no arm
  for a candidate in `RollingBack` and fails the whole service closed.
- `torn_purge`: a store has to remove two records and fails at the second; the first
  is gone from directory and index, without a sync, and the cache stays open
  (`disk.rs:571-577`; `purge_base` and the sweeps do the same, `443-449`). A purge of
  the first record's key then finds nothing, syncs nothing and returns Ok, and a crash
  brings the record back. `disk.rs:410` and `427` say that a purge "Durably removes".
- `blind_read`: when the read of the installed file fails (`storage.rs:250-256`), the
  displaced file is unlinked before its revision is compared. An outsider's write that
  the save should have conflicted with is gone, the draft is installed, and a failure
  is reported. `docs/CONFIG_SPEC.md:1113` says "A mismatch returns a conflict and does
  not write."
- `quarantine_retry`: in direct mode the watcher skips a quarantined revision
  (`config_watcher.rs:276`) as long as the file holds it, while
  `docs/MANAGEMENT_CLI.md:139-141` says that a startup failure "remains retryable on
  the next reconciliation".

The following were met while modelling, with other constants or in the text, and
have no run of their own. In the supervised service and the gate:

- Reconciliation of the supervised runner (`supervised/master.rs:444`) compares with
  the active revision only, so the quarantined one is launched again at the next
  reconciliation; `catalog.rs:14` says it "must not be retried implicitly". In
  direct mode it is the other way round, see `quarantine_retry`.
- Two workers admit at once during some rollbacks. When a candidate fails after it was
  sent Activate, `execute_replacement_actions` sends Reactivate to the old worker
  (`master.rs:1297-1317`) before it kills the candidate (`1359-1364`): the old worker
  may reopen its gate while the candidate, whose activation the master has not heard
  of or has given up, still admits. Both serve for as long as it takes to kill the
  candidate. `OneWorkerAdmits` excepts this window (`Recalled`) and shows that there is
  no other; without the exception TLC finds it in 15 steps. No document claims the
  opposite.
- The accept loop of a QUIC endpoint ends when it sees the gate closed
  (`http3.rs:416`), and nothing starts it again. If the activation that closed the
  gate fails, the gate is reopened (`generation.rs:1582`): TCP listeners resume,
  HTTP/3 does not.
- `PollSucceeds` with two faulty workers (`candidate_faults` has one). The old worker
  exits while the candidate activates, so its exit is deferred; then the candidate
  exits too. `handle_exit` calls `begin_rollback`, which fails the master closed
  because of the deferred exit and returns `Ok`; `handle_exit` goes on with
  `CandidateStopped`, which the supervisor rejects, and `poll` returns an error
  where the timeout variant of the same race fails closed.
- `HealthyActiveSurvives` with one failed send. When the Quiesce cannot be sent, the
  supervisor already takes the active worker for quiescing, so rollback sends
  Reactivate. The worker holds no quiesce handle and refuses, and the master fails
  closed. The test for this fault uses a worker fixture that accepts any Reactivate.
- A QUIC endpoint may leave a close unanswered. `register` enters the participant
  first and subscribes afterwards. A close published in between is where the
  subscription starts, so `changed` never reports it, and an endpoint acknowledges
  only what `changed` reports: `wait` runs into its timeout. The TCP loop, which
  acknowledges the state it reads, has no such gap.

`HealthyActiveSurvives` is therefore checked as passing where the disagreements
cannot occur: `candidate_faults` has no bad frames and no failed sends.

In `ConfigStore`:

- An outsider that writes through its descriptor between the comparison and the unlink
  of `remove_exact_identity` (`storage.rs:636-642`) loses what it wrote. No file system
  call joins the two. It is the second exception of `NoLostUpdate` (`RacingWrite`).

In `Pool`, where the model follows the code:

- A connector takes the last permit after the head of the FIFO has looked for a
  saturated server and found none (`routing.rs:2042-2061`): the head is turned away
  without waiting, although `docs/CONFIG_SPEC.md:356` says "When every eligible
  server is at capacity, `queue_timeout_ms` bounds the wait for a released slot."
- Nothing resets the count of passive failures but an ejection or a recovery
  (`routing.rs:1121`), although `docs/CONFIG_SPEC.md:364` says "consecutive observed
  failures"; and in a pool without active checks a server that was marked down has
  nobody to mark it up again (`routing.rs:1142`).
- The end of an ejection wakes nobody (`routing.rs:900`); `SleepingHeadMustWait`
  excepts it. Idle connections keep their permits, which the FIFO cannot use.

## Proofs

| Module | Theorems | Inductive invariant |
|---|---|---|
| `Supervision_proofs`, the replacement supervisor | type, `RolesAgree`, `GenerationsOrdered`, `PhaseIsTotal`, `RejectedEventChangesNothing`, `OwnershipHandedOver`, `InstanceLeavesOnlyStopped`, and that `Handover` is implemented | type, role agreement and generation order together. Role agreement is needed for everything else: the second write of `CandidatePrepared` and of `CandidateActivated` succeeds only because the active worker's lifecycle is known from the candidate's |
| `Supervision_proofs`, the catalog | type, `WatermarksOrdered`, `RolesDistinct`, `ConsumedOnce`, `GenerationsNeverRepeat`, `RefusalChangesNothing`, `DocumentsReleasedByRole` | those invariants and `HistoryBelowWatermarks`: nothing above the watermarks was ever reserved or accepted. Without it the watermarks say nothing of documents taken out long ago |
| `Supervision_proofs`, the correlation table | type, `TableBounded`, `ResolvedOnce`, `TokensUnique`, `EntriesLeaveForAReason` | those invariants and `IssuedBelow`: issued tokens have generations below the next one, which keeps a new token out of the resolved ones |
| `MasterSystem_proofs` | type, `SlotsMatchSupervisor`, `OneWorkerAdmits`, `RunningMeansServing`, `EveryWorkerHasARole` | `Good`, in three parts. `Net`: no worker has two roles (`Distinct`), every worker that runs, or was killed and still admits, has one (`Owned`), a worker that leaves has closed its gate (`Closing`), a worker marked as killed does not run (`Killed`), requests are numbered in the order they are sent (`Numbered`), and a pending request is the last one sent to its worker, so that its acknowledgement tells what the gate is now (`Tracked`). `Single`: of two workers that admit connections, *or have an unread request to*, one is the active worker and the other its candidate, killed and stopping (`Overlaps`); without the unread requests a candidate that is about to read its Activate is invisible, and a rollback that kills it must find it the only one. `Control`: which lifecycles go together and which slot they are (`Matched`), that booting knows one worker only (`BootAlone`), that a deferred exit is that of a worker that is gone (`Reaps`), and that an Active worker that runs is open with nothing left to read (`Serving`). |
| `MasterCatalog_proofs` | `CatalogMatchesMaster`, `SameListeners` | `CInv`, on top of `Good`: every worker that runs binds the listeners of the active document (`Listens`), the active and the candidate document bind the same (`CatLike`), and the catalog *with the queued events applied* names the roles of the master (`Linked`); without the queued events the catalog lags behind a failed spawn |
| `MasterFaults_proofs` | with at most one faulty worker `PollSucceeds`; without failing sends and bad frames `HealthyActiveSurvives` | `SInv`, on top of `Good`: the pending request of a role fits its lifecycle (`Leads`, `Tries`, `Retires`, `Boots`), what a worker acknowledged it has done (`Truthful`), a healthy worker that was not told to stop runs once it has its listeners (`Hired`), and a healthy active worker that is asked to reopen its gate holds the handle, or has an unread request to quiesce before the one to reactivate (`Heeds`) |
| `GenerationGates_proofs`, the accept gate | type, `QuiescedExcludesOwners`, `DrainedMeansIdle`, `WatchFollowsGate`, `StoppedForGood` | what the parts know of each other: claims are the loops between claim and release (`OwnersCounted`); a close is no newer than the gate and the close in force means closed (`ClosesOrdered`), so that no loop can claim and no session can pass its second look; the newest transition is on the channel or on its way (`PublicationsOrdered`); and what `wait` and each counter read by `drained` established stays true while the close is in force (`ClaimsReturned`, `KindsReleased`) |
| `GenerationGates_proofs`, the generations | type, `OneGenerationAccepts`, `PermitPinsActive`, `ActiveServesUnlessDrained`, `PublishedRuntimeIsLive` | those, and what the threads know of each other: that a thread has the document or the permit its place needs (`HandsFull`); that the current process is the active generation and neither the candidate nor a retired one (`RolesApart`); that the start reservation is the supervising thread's and says how far it has come (`ReservationOwned`); that nothing is prepared once the manager shuts down (`PreparationsEnd`); that only an active generation is drained (`CandidatesUndrained`); and what the close, the wait and the reopening of an activation know of the old gate (`ActivationHolds`) |
| `Pool_proofs` | type, `PermitsAreCounted`, `OnlyTheHeadSelects`, `SleepingHeadMustWait`, `SleepingConnectorMustWait` | those, and where everybody stands: what a place of a request or a connector implies of its target and its permit (`Places`, `Holders`); that the servers a head still considers are the ones it has not tried (`Candidates`); and what somebody who has looked and not yet slept knows, namely that whatever has come free since was announced to it (`HeadKnows`, `ConnectorKnows`). Without the last two a wake-up between the look and the sleep is invisible |
| `ConfigStore_proofs` | type, `CanonicalIsWhole`, `LeftoversAreReported`, that a save that reports success is durable, `NoLostUpdate`, `OutcomeIsTrue` | `IInv`: in every directory a power loss could bring back the canonical name has a synced file, and the temporary name has the draft or what the exchange displaced (`CanonicalIsWhole`, `TemporaryIsWhole`, `Distinct`), and what the place of a save implies of both (`Pending`, `Decided`, `Committed`). For the last two theorems `Kept`: which revisions the files of a save can hold at each step (`Unwritten`, `Assured`); that a displaced file that holds the last write is in line for removal only if the canonical file holds it too, has replaced it, or could not be read (`Removable`); and under which name the last write is while no save has died or failed and it is in the directory at all (`Located`) |
| `DiskCache_proofs` | type, `FlightsHaveLeaders`, `FilesWithinQuota`, `IndexMatchesDisk`, `NothingStaleReturns` | `IInv`: the form of the operation at work and its own fill (`Shape`, `Owner`); index and directory agree but for the file just linked (`OnDisk`); no two records that a crash can bring back have the same access number (`Accessed`), and there is room for the record being written (`Room`). `Fresh`: what was synced last is the index but for what is being removed, or was by an operation that failed (`Durable`), a fill under way is newer than everything purged or stored for its request (`FlightsFresh`, `FlightsNewer`), and a store or purge has in hand all that it must remove (`Cleared`, `Dead`) |

Each proof of `Supervision_proofs` first reduces an operation to its effect (a lemma per
operation), then shows that each effect preserves each conjunct. The assumptions are the
ones beside the constants: an empty role is no identity, generation ids are naturals up
to some bound, request ids are finitely many. The proof of the gate has one case per
action, over any number of listeners, sessions, connections and controllers; two frame
lemmas (`ListenerFrame`, `ControlFrame`) say what a listener or a controller has to
show. Its assumptions are that the bound on epochs is a natural number and that no TCP
loop is a QUIC endpoint. The proof about the manager has one lemma per group of actions
(preparations, calls, runtimes, the parts of the supervising loop), for any number of
identities, revisions, calling threads and disturbances; it assumes that the names of
the watcher, the supervisor and of nobody are not those of others.

The proof about the pool holds for any servers, limits, requests, connectors and
disturbances; `Told` says that whoever frees capacity notifies, so that each action
only has to show what it frees. The one about the store holds for any number of
saves, outsiders, faults and crashes, whichever reads and calls fail and whether
outsiders rename or write in place; its theorems have no hypothesis beyond the
assumption beside the constants. The same goes for the one about the cache, for any
keys, quotas, fills, purges, faults and crashes, with any removal of an operation
failing.

The proof about the supervised service follows the code: one lemma for each function of
`Master.tla` (`IssueGood`, `BeginRollbackGood`, `HandleExitGood`, `PollGood`,
`ReplaceGood`, `ShutdownGood`, ...) says that it preserves `Good`. `poll` takes one
observation per role before it handles any, so `Good(s, O)` also carries the set `O` of
observations in hand and what each of them still says (`Seen`): an acknowledgement
speaks of the gate only while its request is the pending one, which is why a handler
that gives up a request, or kills, may make it stale but never wrong. Most functions do
one of a few things to slots and processes, and these have a relation and a frame lemma
each: nothing but flags, requests given up and workers killed (`Keeps`, `Shrinks`), a
change of lifecycles (`Steers`), a slot emptied (`Takes`), a request sent (`Sent`), a
worker born (`Bears`), a worker's own step (`Moves`). The theorems hold for any number
of generations, any set of faulty workers and any bounds on crashes, bad frames, failing
sends and spawns, writes and stops; the assumptions are those of `MasterSystem`, which
name the instances 1, 2, ... in the order in which they are launched. `CInv` follows the
code a second time (`BeginRollbackTied`, `CommitTied`, `PollTied`, `ReconcileFollows`,
...): `Tied` says of a master in the middle of a call that no worker has changed its
revision or come back, and that the catalog would follow the master if it took the
events emitted so far, so each function only has to weigh the one event it emits against
the role it changes. A reload launches a worker only if the replacement supervisor
accepts what the catalog has accepted (`BeginAccepted`), which is where the order of
generations is needed. `IInv` and `CInv` were first checked by TLC under the bounds of
the `MasterSystem` runs.

`SInv` follows the code a third time (`BeginRollbackSane`, `HandleExitSane`, `PollSane`,
...), with `Sane` for a master in the middle of a call. `PollsSucceed` and
`HealthySurvives` each need a hypothesis on the constants, and are false without it, as
TLC shows (see the disagreements above):

- `Lone`, at most one worker is faulty. With two, an exit of the active worker that was
  deferred and an exit of the candidate meet in one `poll`, which then returns an
  error. Any worker may be the faulty one, sends may fail and frames may be bad.
- `Calm`, no send fails and no frame is bad (`Bounds.sends = 0`, `Bounds.frames = 0`).
  A Quiesce that cannot be sent leads to a Reactivate that a healthy worker must
  refuse, and a bad frame of a candidate fails the service closed. Any number of
  workers may be faulty, by crashing, hanging, refusing and closing their channel.

`HealthySurvives` rests on two arguments. A healthy active worker answers Reactivate
with yes: requests are read in order, so if the Quiesce is still unread when the
Reactivate is sent, the handle is there when it is read. And a request that is
overdue can only be a faulty worker's or one that may take long (`DueFaulty`): when
Reactivate is pending, nothing else is.

Three facts need induction over data, which the induction theorems of the library do not
give here: that putting out the n least recently used entries of the cache leaves no
more than the quota (`OldestEnough`, `WithinQuota`), that a bounded set of numbers has a
greatest one, and that `ApplyCatalogEvents`, a fold over a sequence of any length, takes
one more event by one more step (`OneMoreEvent`). They are proved by contradiction from
a least counterexample (`Least`, from the theorem that the naturals are well-founded).
What the recursive definition of a restart computes is not needed: the proof uses only
that the kept files are among the scanned ones, of which there are no more than the
quota, and that they are the same set in memory, index and directory.

Several theorems state more than the runs check: the type invariants,
`GenerationsOrdered`, `PhaseIsTotal`, `RejectedEventChangesNothing`,
`OwnershipHandedOver`, `InstanceLeavesOnlyStopped`, `WatermarksOrdered`,
`RolesDistinct`, `RefusalChangesNothing`, `DocumentsReleasedByRole`, `TableBounded`,
`TokensUnique`, `EntriesLeaveForAReason` and `WatchFollowsGate`. They are what the
proved invariants rest on.

Only model-checked: all liveness, because fairness and `ENABLED` are beyond the prover.
Every safety invariant and action property that a passing run checks is also proved.

## Not modelled

- Status frames and the status history: a later module; they change no role.
- The spawn handshake, authentication, descriptors and cgroups of worker
  processes: a spawn succeeds or not, and a spawned worker is authenticated.
- Errors of the operating system's own calls (`wait`, `kill`), and overflow of
  `Instant`.
- Within the modelled parts: the contents of a generation and of a request, file
  permissions and symbolic links of the configuration directory, freshness and byte
  quotas of the cache, pools without a queue, weights and HTTP/2 streams.
- The UDP session table, the RTMP hub, ACME jobs and the certificate store:
  stateful and within TLC's reach, left for later as below. TCP relaying, proxying
  of single requests, codecs and statistics have no shared state of their own.
- Parsing, validation and import of configurations are pure translations without
  state; a revision here is a model value. The UI and the website are not part of
  the server. Vendored libraries are out of scope except for the accept gate.

## Plan

Built, in this order: replacement supervisor and its abstract specification,
catalog, correlation table, master, worker, runner, system; proofs of the three
pure machines; the accept gate and its proofs; the generation manager of direct mode
and its proofs; the configuration store, the disk cache and the pool, and their
proofs; the proofs about the supervised service.

Next, in order of importance:

1. `UdpSessions`: the bounded session table, its queues and expiry.
2. `AcmeJobs`: jobs, cancellation and the certificate store with crashes.
3. `StatusHistory` and `LiveHub`: bounded rings and their readers.

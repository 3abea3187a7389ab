# Sponzey Edge: TLA+ models and proofs

Sponzey Edge is a reverse proxy written in Rust. One thread runs the data plane, an event loop over
non-blocking sockets; other threads run the Admin API, health probes, log and metric collectors and the process
lifecycle, and talk to the loop through bounded channels. Command-line tools work on the same data directory:
backup, restore, recovery, offline upgrade. This directory models the parts of it that are hard to test, checks
them with TLC on small instances, and proves many of the results with TLAPS for every instance.

`PROJECT.json` is the index: components, runs, mutants, the map from definitions to source lines, findings,
hazards and theorems. All paths below are relative to the root of the repository; crates are under `src/crates`.

## 1. Inventory

| Component | State it keeps | Operations | What is hard |
|---|---|---|---|
| Payload ledger (`edge-core/payload_budget_ledger.rs`) | charges by identity, total, pressure, generation | reserve, commit, resize, grow, transfer, release | watermarks, exhausted identities, stale handles |
| Charge slots (`edge-core/*_charge*.rs`, `lib.rs`) | seven optional charge identities per connection | transactions on one or two slots | one step of several failing |
| Connection I/O (`connection_io.rs`, `connection_state.rs`, `upstream_attempt.rs`) | connection state, progress of the upstream attempt, two buffers | one method per socket event | any order of calls, refusals included |
| Event loop (`edge-core/lib.rs`) | connections, registrations, deadlines, shared budget | accept, read, route, connect, reuse, retry, write, pause and resume, expire, clean up, drain | batches of events that are stale when delivered; connections that affect one another through the budget |
| HTTP reading and forwarding, response framing, tunnels (`http_request.rs`, `upstream_response_framing.rs`, `lib.rs`) | what was read of a message, how its body is delimited | incremental read, sanitise, forward, upgrade, transfer, half-close | fragmentation, early closes, bytes of one message taken for another's |
| Upstream selector and drain tracker (`lib.rs`, `edge-application/drain.rs`) | leases per generation and upstream, health results | select, select for retry, release, reconcile, publish, activate | configurations that change while requests run |
| Active and passive health (`health.rs`, `passive_health.rs`, coordinator, worker pool, `health_runtime.rs`) | schedule and health per upstream, probes in flight, command channel | tick, dispatch, completion, observation, cooldown, replacement | late, lost and refused results; a full pool; joins against waits |
| Configuration lifecycle, startup (`config_lifecycle.rs`, `startup_config.rs`, revision repository) | saved revisions, the current one, what runs | apply, roll back, seed, resolve at start | runtime, repository and audit fail one by one; crashes |
| Audit ledger (`audit.rs`, `audit_ledger.rs`) | chained records in segments, admission state | intent, effect, terminal record, rotate, prune, reconcile, recover | torn tails, effects without a terminal record |
| Backup and restore, directory lock (`backup.rs`, `data_directory_lock.rs`) | target, stage, rollback copy, journal, lock, archive | create, verify, replace, recover | processes that meet only at a lock; a kill between a journal record and its effect |
| Offline upgrade (`operational_upgrade.rs`) | artifact, backup copy, staged artifact, journal | stage, switch, start, probe, roll back, recover | the same, with a service manager in between |
| Certificates and trust bundles (`manual_certificate_import.rs`, `trust.rs`, file stores) | stored material, what the listeners have, retained revisions | import with compensation, issue, renew, delete, activate | a compensation that fails; three files for one certificate |
| Admin API (`edge-admin-api`, `admin_http.rs`), configuration text (`edge-domain`) | sessions, the admin's own snapshot, rendered revisions | login, host edits, apply, roll back, status | text that does not read back as what was rendered; stale snapshots |
| Metrics, logs, mirrors (`metrics*.rs`, `runtime_status.rs`, collectors) | bounded channels, registry, feeds, sampler | emit without waiting, collect, serve, stop | what is lost must be counted, and the rest must be true |

**How they interact.** A handler of the loop calls the connection I/O of one connection, charges the bytes it
takes to the shared ledger through the slots of that connection, and asks the selector for an upstream, which
leases it from the drain tracker. The ledger's pressure decides, for all connections, whether new clients are
accepted and responses are read. Configurations and health results arrive as commands at two places of a turn;
the health thread and the Admin API wait for the acknowledgement. The Admin API writes an audit intent, has the
configuration activated by the loop, makes it current in the repository and writes the terminal record. What
the loop tells the operator leaves it through channels it never waits for.

**What makes the components correct.** Ledger and slots: the total is the sum of what live owners hold, and
pressure can always be left. Connection I/O: the facts a retry is decided from are true. Event loop: a request
goes to at most one upstream, on the right socket; everything charged or leased is given back on every path;
nobody waits without a deadline; reads follow the pressure; a drain ends. HTTP: what a peer receives is the
projection of what the other sent, wherever the bytes were cut. Selector: a drain is complete exactly when its
last request is gone. Health: routing follows what was measured and somebody always measures. Control plane:
what was acknowledged survives, and the history tells what happened. Directory and upgrade: the last whole copy
of the data or of the program is never given up, and a command that reports success tells the truth. Material:
a restart serves what ran. Admin: what is stored is usable. Observability: losses are counted.

## 2. Modules

| Module | Models | Extends |
|---|---|---|
| `PayloadPressure` | watermarks, admission decision, read-interest decision | |
| `PayloadLedger` | `PayloadBudgetLedger`: an operator per method, an action per call | `PayloadPressure` |
| `ConnectionCharges` | the slot transactions, each a sequence of ledger calls | `PayloadLedger`; refines `SlotBudgetSpec` |
| `SlotBudget`, `SlotBudgetSpec` | abstract accounting: bytes per owner and slot, no identities, no intermediate states | `PayloadPressure` |
| `ConnectionIo`, `ConnectionLifecycle` | `HttpConnectionIo`, `ConnectionState`, `UpstreamAttemptProgress` as operators on a record; any order of them | |
| `ProxyRuntime` | the handlers of the event loop, operators from a world to a world | `SlotBudget`, `ConnectionIo` |
| `DataPlane` | the turn of the loop: poll, batches, deadlines, drain | `ProxyRuntime` |
| `HttpFraming`, `HttpExchange` | incremental reading and framing; one client connection, its upstream and an upgraded tunnel | |
| `UpstreamDrain` | drain tracker, selection, activation, health results | |
| `HealthPolicy`, `HealthSupervisor`, `HealthRuntime` | thresholds; supervisor, passive supervisor and pool; threads, command channel, replacement, process end | each the one before |
| `AuditLedger`, `ControlPlane` | segment files and their recovery; audited configuration changes, start, crash | each the one before |
| `BackupArchive`, `DataDirectory` | what an archive holds; the processes on one data directory | each the one before |
| `OfflineUpgrade` | the journaled upgrade, its recovery, the service helper | |
| `CertificateFiles`, `TlsMaterial` | the certificate and trust stores; requests on them, activation, restart | each the one before |
| `ProxyConfig`, `AdminAccess`, `AdminApi` | snapshot, validation, text; sessions and guards; edits, apply, status | `AdminApi` the other two |
| `Observability` | channels, collectors, registry, mirrors, metrics listener | `PayloadPressure` |
| `*Proofs` | theorems about the module they are named after; `ConnectionChargesProofs` holds those of `PayloadLedger` too, `DataPlaneProofs` those of `ConnectionLifecycle` and `UpstreamDrain` | these modules, `TLAPS` |
| `MC_*` | constants for TLC | the module they are named after |

### How state and actions correspond to the code

*Ledger.* `ledger` is the struct field by field: `used`, `charges` (a function from the identities in use),
`nextId`, `pressure`. The charge generation is not stored: a live charge always carries the ledger's own, so only
the generation a caller presents matters, and it is an argument (`"current"` or `"stale"`). Every method returns
`[ok, id, ledger]`; a refused call may still change the pressure, as it does in the code (`fail_accounting`,
`Exhausted`). Watermarks are 80 and 60 per cent by integer division. Byte counts are units.

*Slots.* `ConnectionCharges` composes ledger calls in the order of the code, early returns and compensations
included. `SlotBudget` states what such a transaction promises: it happens completely or not at all, and
pressure changes only as usage does. The event loop is built on `SlotBudget`; the refinement `ImplementsBudget`
justifies that, checked in `connection_charges` and proved as `BudgetImplemented`. The abstract specification
leaves the arguments of an operation open, so the refinement says that every transaction is *some* abstract
operation of the same owner.

*Connection I/O.* A buffer is the number of units left in it; a parse is one of its outcomes (incomplete,
complete, malformed). `EventTarget` is the transition table of `ConnectionState`.

*Event loop.* A world `w` has the connections, the budget, the drain references per upstream, and `halted`,
which is TRUE when a handler returned an `io::Error` (the loop then returns and drops everything). What sockets,
TLS sessions, the selector and the allocator answer are parameters that `DataPlane` quantifies over. A handler
that loops over a socket is cut to two iterations: what is already there and how it ends. `sent` is the one
history variable: the upstreams whose transport was handed bytes of the current request. `DataPlane` has a
program counter `turn`: accept, drive reads, expire, poll, expire again, deliver events, clean up. `Poll`
captures a batch (at most one event per socket) and `Deliver` uses it later; `Expire` and the handlers of other
events run in between, which is where stale events come from. Registration is modelled with its errors:
registering or deregistering a socket in the wrong state fails, and the code propagates some of those errors.

*HTTP exchange.* A message is a sequence of symbols (line, CR, LF, body unit, chunk marks) that the network cuts
anywhere. `x` is the connection, `up` the upstream socket and the peer at its end, `client` and `script` the
client and the requests it sends. The reference definitions say what a request or an answer is once it is whole;
the handlers work on fragments. Request bytes that were handed to the transport and not yet written stay pending
in `x` while the answer is read, and may still fail then: `x.cut` says that a synthetic answer was put after the
beginning of one, `up.short` that a socket was kept with a request that never went out whole. A `Connection`
field may name any header field, the length of the body among them. The tunnel's two directions are bounded
buffers with half-closes and pressure.

*Upstream drain.* `tracker` is `UpstreamDrainTracker` with its entries in a function over all generations;
`held[c]` is the `DrainReference` of a connection; `active` and `avail` are the active revision and the health
results in use (`gen = -1`: none). `Activate` is both-or-neither, as the code builds a candidate selector.

*Health runtime.* `runtime[g]` is the thread of a generation with its supervisors and its pool, `ctl` the
controller, `loop` what routing uses, `channel` and `ack` the command channel and the answers its senders wait
for, `admin` the operator's command in progress, `process` the end of `run_serve`. A step of a thread ends where
it waits or where another thread can see what it did.

*Control plane.* `disk`, the writer and the admission state are `AuditLedger`'s; `revs`, `cur` the repository,
`core` what the loop runs, `desired`, `active` the admin's view, `pc`, `req` the request in progress. Every file
operation is a step that may fail or be the last before a crash. A frame is whole or torn, and links to its
predecessor or not. `past` has the versions of revision files and of the pointer that a power loss can bring
back; the ghost `taken` says that one has changed the pointer and no edit has set it since.

*Data directory.* `target`, `stage`, `rollback` are directories (what they hold and whether they are whole),
`journal` the restore journal, `lock` the advisory lock, `archive` the published backup. Each process has a
program counter; every file-system call is a step, may fail, and may be followed by a kill. `upsets` names the
six things that can happen which the code has no protection against; the promises hold until the first of them.
`filled`: a server seeded an empty target while a replacement was unresolved. `redone`: the directories have
moved on and the journal has not, so the recovery table is read a second time. `swept`: a restore under way lost
its stage to another command. `unlocked`: the lock was given away while a failed replacement was still rolling
back. `cut`: a published target lost files and still reads as valid. `bare`: a replaced target had no
revision to come back to.

*Offline upgrade.* `place` says which artifact is installed, backed up and staged, `running` what the service
manager runs, `journal` the operation record; two deployments, systemd and Compose. `mishaps` are the
circumstances the properties except by name: two upgrades at once (`second`), a recovery beside another command
(`overlap`), an error met while already making good for another (`lost`), a rollback the helper refuses
(`refused`), a service that still runs what was rolled back (`kept`).

*TLS material.* `files` are chain, key and metadata of each reference, `trust` the bundles, `retained` and
`current` the revisions, `loop` and `mirror` what the listeners have, `tokens` the challenges. `spoiled`,
`adrift`, `littered` record what a crash or a failed compensation left behind.

*Admin API.* `revs`, `cur` hold the parse of the stored text, `core`, `desired`, `active` as above, `auth`,
`sessions`, `admitted` the guards, `last` the edit that was acknowledged and what its body asked for, `drift` that
a failure left repository and runtime apart. Handlers are operators from a request to an answer. A proxy host
arrives as a body, a sequence of fields in the order of the text, because the decoder looks for the first place
where a name stands and not for the field. A name or a path is a sequence of pieces, four of which (a comma, a
line feed, one after a closing quote, one after a closing bracket) are read back as something else than they
were. `MaxRevisionId` stands for the 128 bytes of an audit identifier: ids of revisions grow with every edit, and
once the current one is longer every mutation, a rollback too, is answered with 400. (A file system that ends
names at 255 bytes refuses the hexadecimal name of a revision file a few bytes earlier, which is a failed save.)

*Observability.* `out` has the five channels, the number emitted and not taken, and the drop counter; `last` is
what the loop believes it has told, `mirror` the latest status, `registry` the metric series, `printed` the
product log, `tally` what really happened.

## 3. Runs

Twelve runs, all expected to pass. A property whose name stands for several is explained below the table.

| Run | Bounds | What it shows |
|---|---|---|
| `connection_charges` | limit of 5 units, requests up to 3, two owners (symmetric), all seven slots, identities exhausted at 5 | `ChargesAreExact`, `ImplementsBudget` |
| `loop_pressure` | two clients (symmetric), one upstream, limit 5, response buffer 2, batches of 2 | `PayloadIsControlled`, `LeasesMatchConnections` |
| `loop_retry` | one client, two plaintext upstreams and a TLS one, limit 8, request of two units, drain allowed | `DeadlineArmed`, `ResponseExactlyCharged`, `OneUpstreamPerRequest`, `DrainEnds` |
| `upstream_drain` | two connections (symmetric), two upstreams, three revisions, four generations, four leases | `DrainIsExact`, `StatusCountsExact` |
| `health_runtime` | one upstream, two revisions, three generations, one worker, pool of one, command channel of two | `ProbesAccounted`, `RoutingFollowsHealth`, `UpstreamsAreWatched`, `ApplyEnds`, `ShutdownEnds` |
| `control_plane` | segments of one frame, two segments, three frames in all, three requests, one fault, one crash | `AcknowledgedIsKept`, `HistoryTellsTruth`, `EffectNeedsIntent` |
| `data_directory` | two replacements, a restore to a new target, a recovery, a server, a backup, two kills, one error; explored up to the first upset | `CutOffIsDecided`, `BackupsAreUsable`, `DataSurvives`, `CommandTellsTruth` |
| `offline_upgrade` | two upgrades, two recoveries, both deployments, two kills, two errors | `PreviousIsKept`, `OutcomeIsServed`, `FailureRestoresService` |
| `tls_material` | two references, host names, certificates and revisions, one bundle, five requests, two faults, one crash | `RestartServesTheSame`, `MaterialIsInOrder`, `RollbackFindsTrust` |
| `http_exchange` | seven client scripts of one or two requests, eight answers, bodies of up to two units, output buffer 4; messages move in pieces of one or two symbols, all but the last, or all, a request is handed over as nothing, its header, or all | `RequestsArriveAsSent`, `AnswersArriveAsSent`, `TunnelKeepsBytes`, `TunnelDelivers` |
| `admin_api` | four configuration texts, twelve bodies of host edits, every endpoint with five envelopes, revision ids of at most four pieces; two mutations, one restart, one fault, two logins (password hashes symmetric) | `StoredIsUsable`, `EditTouchesOnlyItsHost`, `EchoKeepsRouting`, `StatusTellsRuntime`, `ChecksAgree` |
| `observability` | limit 5, two connections, channels of one (metrics: three), three events, two TLS failures, clock to 2, two workers | `EventsAccounted`, `OperatorIsToldTruth`, `ListenerStops` |

- `ChargesAreExact`: the slots own exactly the live charges (`SlotsOwnCharges`), upstream and retry charges come
  and go together (`PairIsWhole`), the usage is the sum of the charges, and the pressure follows it both ways.
- `PayloadIsControlled`: no charge outlives its connection, and when the loop goes to sleep a response is read
  exactly when the pressure and the client's buffer allow it, whichever connection moved the pressure.
- `OneUpstreamPerRequest`: a request is handed to one upstream at most, over a socket that leads to the one
  selected and leased for it, and the attempt's facts agree with the connection state.
- `DrainIsExact`: leases are those of live requests, the state of an entry tells whether it is in use, and
  routing uses health results of the active revision.
- `HistoryTellsTruth`: the newest success in the ledger names the current revision, unless a power loss took the
  pointer back and no edit has set it since, and the pages of the audit query are the ledger.
- `CutOffIsDecided`: a directory moved aside is named by a journal, and the recovery table has an answer for
  every state a kill leaves. `BackupsAreUsable`: a published archive is whole and restores to a valid directory.
  `DataSurvives`: no step gives up the last whole copy or changes the directory a server serves.
- `MaterialIsInOrder`: a host name gets one certificate at most, and one that covers it; a refused trust import
  leaves nothing behind; challenges are answered only during their order.
- `RequestsArriveAsSent`, `AnswersArriveAsSent`: what reaches the other end is the messages as they were sent, in
  order, without what is hop by hop, wherever reads and writes were cut. The first excepts a request whose
  length was named as hop by hop and one sent on a kept socket that lacks the end of the one before, the second
  an answer that a failed request write cut; each exception is a finding.
- `StoredIsUsable`: at most one route answers a request, and the stored text reads back as what the acknowledged
  body asked for, if its flag and id are the first of their names and no name in it ends its own line.
- `EchoKeepsRouting`: a host sent back as GET shows it keeps its routing but for the flag, if the form can show
  its route. The texts hold a route under a generated name that it cannot show.
- `OperatorIsToldTruth`: with nothing dropped and the channels empty the gauges, the request count, the feed and
  the status are those of the loop; the log knows the pressure; a repeated TLS failure is sampled.

**Why the bounds are enough.** A limit of 5 units is the smallest for which the two watermarks (4 and 3) and the
limit differ, so every pressure state is reached and left. A retry needs a second upstream, and a third that
speaks TLS for the handshake and its timeout; `RetryPolicy` allows one retry, so a fourth would not be used. One
client is enough for `loop_retry` because connections only meet in the budget, the pressure and the drain
counts, which `loop_pressure` checks with two. `MaxBatch = 2` is the smallest batch in which one event can make
another stale. A response buffer of two units has a partial write and a full buffer. `MaxRequest` bounds the
length of an incomplete request only. In `upstream_drain` four generations let an upstream be drained, removed
and brought back while a request of the first configuration still runs. Three health generations are one
replacement with the generation prepared for its rollback; a pool of one is full after one probe, and an
identity space of one makes every identity a reused one. Segments of one frame rotate on every append and prune
one or two segments, so a crash meets every step of both. Two kills cut a restore and then its recovery. Two
competing certificates, one bundle and two revisions are what a rollback that misses something needs. The
scripts and answers have each way of delimiting a message, cut at every place. Two mutations are an edit and
what the next one makes of its result. Three events fill every channel, and a fourth kind of loss does not exist.

`CHECK_DEADLOCK FALSE` is set where a finite number of commands or events runs out and the system then rests:
`data_directory`, `offline_upgrade`, `admin_api`, `observability`. Elsewhere deadlock is checked, with an
explicit stuttering step for a loop or a process that has returned.

**Mutants.** Each property of a run has a mutant: an operator defined next to the one it replaces, which makes a
plausible slip (a release forgotten on one path, a deadline missing for one state, bytes counted after the write
instead of before, a join under the lock), and under which TLC finds the property violated.

## 4. Findings

`PROJECT.json` lists twenty-three places where the code does otherwise than a document, a comment or a test says,
each with the line and the quotation. Twelve of them are stated as definitions of the modules, which TLC refutes
when they are added to the configuration of the run:

| Statement | Run | What the code does |
|---|---|---|
| `NoStrandedConnection` | `loop_retry` | After a client write timed out, or failed, with output pending, the connection has no deadline, no registration, and `cleanup_closed` skips it: it keeps its charges and drain reference until the process ends. |
| `LoopSurvives` | `loop_retry` | A write deadline deregisters the client socket; the writable event of the same poll then deregisters it again, and the error ends the event loop. |
| `NeverFailsClosed` | `loop_retry` | A response header that arrives in two reads is charged as zero bytes, which the ledger takes for an accounting failure: admission is closed for the process. |
| `PausedReadNeverDue` | `loop_pressure` | A read paused by backpressure keeps its deadline and times out against the upstream. |
| `NeverSplicedResponse` | `loop_retry` | A request write that fails after the response has begun appends a synthetic response to it. |
| `SuccessIsDurable` | `control_plane` | Revision files and the `current` pointer are not synced, the success record is: a power loss leaves a ledger that names a revision the repository does not have. |
| `LedgerReopens` | `control_plane` | A crash between two removals of retention leaves segments whose predecessor is missing; the ledger does not open again. |
| `KeptSocketsAreWhole` | `http_exchange` | An answer that ends while request bytes are pending leaves a socket that is kept for the next request. |
| `RequestsAreFramed` | `http_exchange` | A `Connection` field that names `Content-Length` takes it out of the forwarded header, and the body follows without a length. |
| `BodiesAreTakenAsWritten`, `EchoKeepsTheFlag` | `admin_api` | The first `"enabled"` of a body is taken for the host's; in what GET and the web UI write it is that of the health check, so a host without one is disabled. |
| `TextsKeepNames` | `admin_api` | Names and paths are stored without escaping and read line by line: one with a quote and a line feed comes back as other keys. |
| `NothingIsLost` | `data_directory` (without the constraint) | A server started between a cut-off restore and its recovery seeds the empty target, and the recovery takes that for the restored data and removes the rollback copy. |

`ResponseExactlyCharged` excepts the connections of `NeverSplicedResponse` (`Cut`): their buffer is replaced
under a batch that is still being written; `AnswersArriveAsSent` excepts the same answers. `EchoKeepsAnyRoute` of
`AdminApi` is refuted too: a route written by hand under the name of a proxy host loses its exact path, further
paths, priority and service when it is sent back. The other findings were met while reading: the clock passive
ejections are compared with; start-up that ends on an intent without a terminal record; a seed that a crash
leaves without a current pointer; certificate files replaced in place; retry limits that the admin decoder does
not check and documents state differently; the status after a pending restart; an upgrade journal that recovery
refuses; retries across generations; an uncharged upgrade answer; drain transitions that are not reported.

## 5. Fairness

Liveness is checked in four runs.

- `loop_retry` (`DrainEnds`): `WF(LoopStep)`, as the loop is one thread that never blocks: poll has a timeout of
  ten milliseconds while draining and every socket is non-blocking. `SF(StopDrained)`: the drain deadline is
  wall-clock time and passes, so a loop that returns to the top of its turn again and again finds it passed. The
  strong form is needed because the top of the turn is left again each time. Nothing is assumed of clients and
  upstreams: `DrainEnds` holds with a stranded connection, and when the loop has ended with an error.
- `health_runtime` (`ApplyEnds`, `ShutdownEnds`): every thread goes on, a probe ends because it has timeouts, and
  the loop drains its channel on every turn (strong, as handlers run in between).
- `http_exchange` (`TunnelDelivers`): in a tunnel the loop serves the sockets that are ready, both peers take
  what is written to them, and the pressure others made falls again. The last two are hypotheses about the
  surroundings, without which nothing can be delivered.
- `observability` (`ListenerStops`): the listener's threads run and come back from every read within the socket
  timeout; that anyone stops the process is not assumed.

## 6. Proofs

`tlapm` checks all of them without open obligations. The assumptions are the named `ASSUME`s of the modules that
declare the constants, which TLC evaluates in the runs: sizes are natural numbers (`LimitAssumption`: at least
five units, below which the watermarks coincide), sets of commands are disjoint, the first stored certificates
were stored by the program, a revision's targets are known upstreams (`TargetAssumption`), and the command channel
of `HealthRuntime` has at least two places (its `RuntimeAssumption`; the program gives it 128).

*`ConnectionChargesProofs`*, the ledger (every limit, any connections): `TypeCorrect`, `HysteresisHolds`, `RecoverableHolds`,
`UsedAlwaysSumOfCharges`. The invariant adds to the types that every live charge is between one and `Limit`
bytes, that identities in use are below `nextId`, and the watermark condition of the current pressure. The sum is
stated as the number of charged bytes, the cardinality of the set of pairs of a charge and one of its bytes, so
that reserving, releasing and resizing add and remove finite sets and no induction over charges is needed.

*`ConnectionChargesProofs`*, the slots: `ChargesAlwaysExact` and the refinement `BudgetImplemented`. `Good(L, T)` says that a
ledger `L` is sound and the slots `T` own exactly its charges, each of the class and the owner of its slot;
`Paired` that upstream and retry charges come together. There is a lemma per ledger call (what it does to `Good`
and to the view as bytes per slot, when it accepts and when it refuses) and one per transaction, refusals and
compensations included; releasing everything goes through an invariant of its stages. The refinement mapping
`View` forgets the identities.

*`DataPlaneProofs`*, one connection (buffers of any size): `AttemptCoherent`, `OutcomeIsFinal`, `LifecycleTypeCorrect`.
`AttemptFollowsState` is inductive together with the types: `Sound(x)` is their conjunction on one record, and
there is one lemma per operation that the operation keeps it, whether it accepts or refuses. `EventMoves` reduces
the transition table to the few facts the lemmas use.

*`DataPlaneProofs`*, the loop (any connections, upstreams, limits, buffer and request sizes, any batches of events, with
or without a drain): `PayloadControlled`, `LeasesExact`, `DeadlinesArmed`, `ResponsesCharged`, `OneUpstream`, from
`LoopInvariant`. None of the five is inductive. `LoopInv` has three parts beside `ReadsFollowPressure`:

- `Good(x, h)` of every connection `x` with the charges `h`: the state machine is `Sound` (above); `Led`, the
  upstream socket is the leased one while there is an attempt, a kept socket is the one its reuse key names, and
  only the socket of an attempt is registered; `Handed`, nothing was handed to an upstream before the response
  is awaited; `Owned`, which response bytes the connection has in which state, and that they are charged;
  `Armed`, the deadline has a meaning in the state, without which its expiry would disarm it. `Fit` is `Good`
  without `Armed`, which the handlers break and restore.
- `Whole(w)` of the world: the budget is balanced and holds nothing for anyone who is gone, and a drain
  reference is counted for each connection that names the upstream.
- `Promised` of what is still to be delivered: an upstream event of the batch, or a call not yet made, never
  meets a kept socket; a client read meets a connection that reads; one connection's calls end with the upstream
  read. An event for a kept socket would be taken for an answer to the next request, which `Good` alone does not
  exclude.

There is a lemma per operation of the budget (`OneSlot`: the total stays exact and only one slot moves), per
operation on the I/O record, and per handler: `Done(v, w, c, kept)` says that a handler for `c` turned the world
`v` into `w` with every other connection, its charges and its lease as they were and `c` good or gone; `kept` is
whether it may end with a kept socket, which is allowed to `read_upstream` alone unless there was one before.
`Follows` adds the read interests that the end of a pass changes for all connections.

*`DataPlaneProofs`*, draining (any upstreams, connections, revisions and bounds): `DrainAlwaysExact`, its parts, the
action property `HealthOnlyGoesForward`, and `StatusCountsAlwaysExact`. The invariant is `SoundTracker`
(types; leases below the next number; entries of generations that do not exist yet unused; states tell use),
`Agree` between tracker and connections (a lease is recorded exactly when one connection holds it), and that
availability is current. `LeasesAreHeld` alone is not inductive: a new lease is fresh only because all leases are
below `next`, and reconciling must not meet an entry of the next generation. The counts shown to the operator
are cardinalities; a bijection between leases and connections gives them.

*`DataDirectoryProofs`* (any servers, backups, restores and recoveries; any number of kills and errors):
`CutOffAlwaysDecided`, `ArchiveAlwaysWhole`, `DataAlwaysSurvives`, `CommandAlwaysTellsTruth`. `Active(p)` are the
processes past the lock; until an upset there is at most one, `AtStep` says for each of its steps what the
target, the stage, the rollback copy, the journal and the lock hold, and `Settled` what they hold when nobody is
at work. The properties alone say nothing about the steps between two renames, which is what a kill exposes.

*`OfflineUpgradeProofs`* (any number of commands of either deployment): `PreviousAlwaysKept`,
`OutcomeAlwaysServed`, `FailureAlwaysRestoresService`. `Custody` says where the previous artifact is at each step,
`Keeping` what the journal then records, `Serving` what runs.

*`TlsMaterialProofs`* (any references, hosts, bundles, revisions, requests, faults and crashes):
`RestartAlwaysServesTheSame`, `MaterialAlwaysInOrder`, `RollbackAlwaysFindsTrust`. `Rewriting` says which of the
three files of a certificate the request in progress has replaced, `TrustInOrder` which bundles may be missing,
`ServingInOrder` how the listeners, the mirror and the current revision relate in each phase of an activation.

*`ControlPlaneProofs`* (any bounds of the ledger's files, any operations and contents, any number of requests,
faults and crashes): `AcknowledgedStaysKept`, `EffectsNeedIntent`, from `ControlInvariant`. Neither property is
inductive: a record on disk may still be lost by a crash, and a record that was pruned is remembered only by a
frame that may itself not be synced or be pruned later. `ControlInv` has two parts.

- `LedgerInv`: the files are those from some `lo` to some `hi`, only the newest may be empty, sequence numbers grow
  along them (`Ordered`), nothing below a frame is missing unless a frame that a crash cannot take says it was
  pruned (`Chain`), and the same for every acknowledged record, which must not be among the frames a crash can
  take either (`Safe`). `Ready` relates the ledger in memory to the files: its segments are the newest files, its
  head is the newest frame except between a write and its sync, and the last sequence number it keeps of a segment
  bounds what is in that file and before. During retention the checkpoint covers the oldest files, first in memory
  (`Retaining`), then on disk and synced (`Removing`), which is why a crash between two removals loses nothing.
- `PlaneInv`: where the process and the request are, and that from the end of the intent to the start of the
  terminal record no append is in progress and the newest frame of the newest file, synced, is that intent.

There is a lemma per file operation about the files alone (`WriteKeepsFiles`, `RotateKeepsFiles`,
`SyncKeepsFiles`, `CrashKeepsFiles`, `RemovalKeepsFiles`), one about the segments in memory, and one per step;
`OpenedLedger` says that what a start reads from the files satisfies `Ready`. A frame's contents matter only
through its number and what a checkpoint says was pruned. `Min` and `Max` over files rest on the least-element
principle of the library's well-founded relations.

*`HealthRuntimeProofs`* (any number of generations, revisions and upstreams, any thresholds, pools and channels):
`ProbesAreAccounted`, `RoutingIsByHealth`, `SomebodyWatches`, from `HealthInvariant`. None of the three is
inductive. `HealthInv` is `Always`, with `WhileRunning` as long as the loop runs. `Always` describes each runtime:
live, ending or stopped, and what its books then say (a probe the supervisor waits for has its place in the queue,
at a worker or among the results, no two share one, and the pool's count of outstanding probes is the size of
these three and within the capacity); `ProbesAreAccounted` needs only this.
`WhileRunning` adds the controller and the channel: the active runtime works, at most one replacement is under
way, and whoever sends a command waits for its answer. So the channel holds at most one command of each sender,
only the active runtime and either the operator or the runtime being replaced send, and it is never full; what the
active runtime has queued is still what it knows, and is what the loop will route by. `Switched` is the moment
when the loop has the new generation and the controller has not, and `NewcomerAgrees` what makes it harmless. The
steps of the threads are reduced to three kinds: quiet ones, those that send, and those that take an answer.

*`ObservabilityProofs`* (any channel sizes, bounds and events): `EventsAreAccounted`, `OperatorToldTruth`, from
`ObservabilityInvariant`. The first is close to inductive; the second holds only when the channels are empty and
nothing was dropped, so the invariant (`Honest`, `Informed`) says what it becomes on the way: what the loop
believes it has told is what the registry, the feed and the log will show once the events in the channels are
taken (`GaugeTold`, `CountTold`, `FeedTold`, `LogTold`). `SamplerSound` says why the sampler, which remembers
at most `SamplerCapacity` keys, may still report a failure again within its time-to-live: the key of every record
is remembered with a time at least as late, or at least `SamplerCapacity` other keys have come after it.

**Only model-checked.**

- Liveness, which the prover does not do: `DrainEnds`, `ApplyEnds`, `ShutdownEnds`, `TunnelDelivers`,
  `ListenerStops`.
- What recursive definitions and folds compute, which needs induction over data. In `ControlPlane`
  `HistoryTellsTruth`: the pages follow cursors recursively, and after a restart the records are the concatenation
  of the files. In `HttpExchange` `RequestsArriveAsSent`, `AnswersArriveAsSent` and `TunnelKeepsBytes`: reading and
  framing of sequences. In `AdminApi` `StoredIsUsable`, `EditTouchesOnlyItsHost`, `EchoKeepsRouting`,
  `StatusTellsRuntime` and `ChecksAgree`: text, validation and rendering.
- `BackupsAreUsable` of `DataDirectory`: its part about the published file is proved (`ArchiveAlwaysWhole`); the
  other, `BackupsRestore`, has no parameter and speaks of no state, so the run, which enumerates every directory it
  quantifies over, decides it.

## 7. Modelling assumptions and what is not modelled

- A rename that returned is durable, except for revision files and the `current` pointer: these are written and
  renamed without a sync, and a power loss in `ControlPlane` brings each back in any version since it was last
  known to be on disk. The same files in `AdminApi` and `TlsMaterial`, which have restarts and kills but no power
  loss, stay.
- One operator takes a published archive away; one answer per request; the stored revisions keep the parse of
  their text. No string of a JSON body spells the name of a field, and a name holds at most one of the four pieces
  above.
- `Accept` may reuse a connection id once no event mentions it; the code counts ids upwards and never does.
- Time: a deadline is armed or not, and an armed one may be due at any turn. The moment a passive ejection ends
  is a free choice, because the code compares two unrelated clocks.
- Requests a retry policy excludes by method, body or size behave as ones for which no other upstream is found.
- In `UpstreamDrain`: round-robin order (any eligible upstream), the set of upstreams a request has tried
  (`SelectRetry` excludes the last one only, which allows more than the code), and publishing the status.
- Client TLS and WebSocket tunnels are not in `DataPlane`; tunnels are in `HttpExchange`, their charges in
  `ConnectionCharges`.
- Support bundle, SIGTERM watcher, readiness probes, character and JSON syntax, rustls records, the ACME
  protocol, the wording of logs, and everything `PROJECT.json` lists as `not_modelled`, with the reason.

Hazards noticed while reading that no model covers: an answer delimited by the close is passed to a keep-alive
client that is not closed; a header limit that depends on how reads were cut; body bytes after a refused upgrade
(`edge-core/src/lib.rs:4244`); tunnels without a deadline; a login lockout that lasts until a restart; a
leftover `.tmp` of a trust import that makes listing fail, and of a backup that blocks later ones; issue and
renewal without compensation; `upgrade-backup.age`, which nobody removes.

## 8. Plan

The modules, runs and theorems above are complete as planned. What would be worth adding:

- `HistoryTellsTruth` of `ControlPlane`, by stating the pages and the newest success without recursion and
  describing the concatenation of the files by the positions of its frames;
- `TunnelKeepsBytes` of `HttpExchange`, whose two buffers could be described by the positions of their bytes;
- client TLS and tunnels in `DataPlane`, which would let the loop's theorems cover their charges and deadlines.

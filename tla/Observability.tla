---------------------------- MODULE Observability ----------------------------
(***************************************************************************)
(* What the operator is told: the event loop and the health thread hand    *)
(* logs and metrics to bounded channels without ever waiting, collector    *)
(* threads fold them into the recent feeds, the product log and the metric *)
(* registry, two mirrors keep the latest runtime status for the Admin API, *)
(* and the Prometheus listener serves the registry.  Everything that finds *)
(* its channel full or its mirror locked is lost, and a shared counter     *)
(* says how much was.                                                      *)
(*                                                                         *)
(* Source: the emitters of crates/edge-core/src/lib.rs,                    *)
(* crates/edge-application/src/{metrics,observability_buffer,              *)
(* resource_observability,failure_observability}.rs,                       *)
(* crates/edge-adapters/src/metrics_runtime.rs and                         *)
(* apps/edge-proxy/src/{runtime_status,admin_log_ingestion,main}.rs.       *)
(***************************************************************************)
EXTENDS PayloadPressure, Sequences, FiniteSets

CONSTANTS
    Capacity,          \* channel -> the bound of its sync_channel
    RecentCapacity,    \* bound of the recent access and error buffers
    SamplerCapacity,   \* keys the TLS failure sampler remembers (256)
    Ttl,               \* seconds a sampled key stays silent (60)
    MaxSeries,         \* METRIC_MAX_SERIES
    MaxCumulative,     \* METRIC_MAX_CUMULATIVE_SERIES
    TlsKeys,           \* component, resource and error code of a TLS failure
    Workers,           \* threads that answer scrapes
    HandoffCapacity,   \* accepted scrapes that may wait for a worker (16)
    HeaderReads,       \* reads after which a scrape's header is too large
    MaxConnections,    \* of the RuntimeResourcePolicy
    MaxEvents,         \* bound: handler runs of the loop and the health thread, scrapes, the stop
    MaxClock           \* bound: the latest second of the wall clock

Channels == {"access", "error", "metric", "product", "tls"}
Usages   == {0, LowWatermark, HighWatermark}

ASSUME ObservabilityAssumption ==
    /\ Capacity \in [Channels -> Nat \ {0}]
    /\ {RecentCapacity, SamplerCapacity, Ttl, HandoffCapacity, HeaderReads} \subseteq Nat \ {0}
    /\ {MaxSeries, MaxCumulative, MaxConnections, MaxEvents, MaxClock} \subseteq Nat

VARIABLES
    loop,       \* the event loop: ledger usage, pressure, connections, revision
    last,       \* what it believes it has told: bytes, pressure, status
    out,        \* the channels, the drop counter, how much was emitted and not taken
    mirror,     \* the latest resource status and the latest drain state
    recent,     \* the recent access and error buffers
    registry,   \* the metric registry of the collector
    sampler,    \* the TLS failure sampler: emitted_at and insertion_order
    printed,    \* the product log: the last pressure record, the TLS records
    listener,   \* the Prometheus listener: state, stop flag, handoff, workers
    tally       \* what really happened, for the properties

vars == <<loop, last, out, mirror, recent, registry, sampler,
          printed, listener, tally>>

-----------------------------------------------------------------------------
(* Handing over without waiting. *)

(* A slip for the mutation runs: a refused send is forgotten. *)
SendUncounted(o, c, e) ==
    [o EXCEPT !.open = @ + 1,
              !.channel[c] = IF Len(@) < Capacity[c] THEN Append(@, e) ELSE @]

(* try_send, try_publish and what the callers do with a refusal: emit_metric, *)
(* emit_product_log, record_log_queue_drop.                                   *)
Send(o, c, e) ==
    IF Len(o.channel[c]) < Capacity[c]
    THEN [o EXCEPT !.channel[c] = Append(@, e), !.open = @ + 1]
    ELSE [o EXCEPT !.open = @ + 1, !.drops = @ + 1]

(* MetricDescriptor::definition, in the kind of the families told apart:   *)
(* the counters of failures, handshakes, transitions and rejections are    *)
(* one family of the model.                                                *)
KindOf == [requests |-> "Counter", events |-> "Counter", duration |-> "Histogram",
           payload |-> "Gauge", connections |-> "Gauge", available |-> "Gauge"]

(* MetricObservation::new: an event names its series and what it adds to a *)
(* counter or histogram, or sets a gauge to.                               *)
Metric(series, n) == [series |-> series, kind |-> KindOf[series], value |-> n]

RequestMetric                    == Metric("requests", 1)
RequestDurationMetric            == Metric("duration", 1)
UpstreamFailureMetric            == Metric("events", 1)
TlsHandshakeFailureMetric        == Metric("events", 1)
ResourceAdmissionRejectionMetric == Metric("events", 1)
FailureAwareMetric               == Metric("events", 1)
HealthTransitionMetric           == Metric("events", 1)
UpstreamAvailabilityMetric       == Metric("available", 1)
ActiveConnectionMetric(n)        == Metric("connections", n)
ResourcePayloadBytesMetric(n)    == Metric("payload", n)

SendMetric(o, e) == Send(o, "metric", e)

(* A product record is the pressure level it tells, or "Other".            *)

(* emit_access_log_event: the access record and the request's two metrics. *)
EmitAccess(o, request) ==
    SendMetric(SendMetric(Send(o, "access", request), RequestMetric), RequestDurationMetric)

(* emit_error_log for an upstream failure, and for a TLS failure. *)
EmitUpstreamError(o) == SendMetric(Send(o, "error", "failure"), UpstreamFailureMetric)
EmitTlsError(o, key) ==
    SendMetric(Send(Send(o, "error", "failure"), "tls", key), TlsHandshakeFailureMetric)

-----------------------------------------------------------------------------
(* What the loop tells about its resources. *)

Active == {"Pressured", "Exhausted"}


(* emit_resource_pressure_transition_if_changed: the level entered, that it *)
(* was left, or nothing worth a record.                                      *)
PressureTransition(from, to) ==
    CASE from = "Normal" /\ to # "Normal"       -> to
      [] from \in Active /\ to = "FailedClosed" -> to
      [] from \in Active /\ to = "Normal"       -> "Recovered"
      [] OTHER                                  -> "Nothing"

EmitPressure(o, from, to) ==
    LET t == PressureTransition(from, to)
    IN  IF t = "Nothing" THEN o ELSE Send(o, "product", t)

(* What emit_resource_status_if_changed compares and publishes; the        *)
(* publication number that goes with it is left out.                       *)
StatusOf(l) == [revision |-> l.revision, used |-> l.used, connections |-> l.connections,
                pressure |-> l.pressure]

(* A slip for the mutation runs: the connection count is not compared. *)
UnchangedButConnections(s, l) ==
    [StatusOf(l) EXCEPT !.connections = s.connections] = s
StatusUnchanged(s, l) == s = StatusOf(l)

(* emit_resource_status_if_changed: the loop remembers the status as told  *)
(* before it knows whether the mirror took it; a mirror an Admin request   *)
(* has locked to copy it refuses, and the refusal counts as a drop.        *)
EmitStatus(s, l, busy) ==
    IF StatusUnchanged(s.last.status, l) THEN s
    ELSE IF busy
    THEN [s EXCEPT !.last.status = StatusOf(l), !.out.drops = @ + 1, !.tally.missed = @ + 1]
    ELSE [s EXCEPT !.last.status = StatusOf(l), !.mirror.resource = StatusOf(l)]

(* emit_resource_payload_metric_if_changed: gauge, pressure record, status. *)
EmitPayload(s, l, busy) ==
    LET gauge == IF s.last.bytes = l.used THEN s.out
                 ELSE SendMetric(s.out, ResourcePayloadBytesMetric(l.used))
        told  == EmitPressure(gauge, s.last.pressure, l.pressure)
        said  == [s.last EXCEPT !.bytes = l.used, !.pressure = l.pressure]
    IN  EmitStatus([s EXCEPT !.out = told, !.last = said], l, busy)

(* emit_active_connection_metric *)
EmitConnections(s, l) ==
    [s EXCEPT !.out = SendMetric(@, ActiveConnectionMetric(l.connections))]

Telling == [last |-> last, out |-> out, mirror |-> mirror,
            tally |-> [tally EXCEPT !.events = @ + 1]]
Told(s) == /\ last' = s.last
           /\ out' = s.out
           /\ mirror' = s.mirror
           /\ tally' = s.tally

(* The loop and the health thread have ended when the listener is stopped. *)
(* Bound: what the listener does is not mixed with what the loop tells, as *)
(* scrapes only read.                                                      *)
MayAct      == listener.events = 0 /\ tally.events < MaxEvents
MayScrape   == tally.events = 0 /\ listener.events < MaxEvents
CollectorsUnchanged == UNCHANGED <<recent, registry, sampler, printed>>
OthersUnchanged == UNCHANGED listener /\ CollectorsUnchanged

-----------------------------------------------------------------------------
(* The event loop. *)

(* accept_ready, admitted: the connection gauge and the status. *)
Accept ==
    /\ MayAct
    /\ AdmissionDecision(loop.pressure, loop.connections, MaxConnections) = "Accepted"
    /\ loop' = [loop EXCEPT !.connections = @ + 1]
    /\ \E busy \in BOOLEAN : Told(EmitStatus(EmitConnections(Telling, loop'), loop', busy))
    /\ OthersUnchanged

(* accept_ready, refused: emit_resource_admission_rejection.  The record is *)
(* sampled by reason; the loop's sampler holds more keys than there are     *)
(* reasons, so a reason is silent exactly when it was logged and its time   *)
(* has not expired, which may or may not be the case by now.                *)
RejectAdmission ==
  \E expired \in BOOLEAN :
    LET decision == AdmissionDecision(loop.pressure, loop.connections, MaxConnections)
        counted  == SendMetric(out, ResourceAdmissionRejectionMetric)
    IN  /\ MayAct
        /\ decision # "Accepted"
        /\ last' = [last EXCEPT !.rejections = @ \cup {decision}]
        /\ out' = IF decision \in last.rejections /\ ~expired THEN counted
                  ELSE Send(counted, "product", "Other")
        /\ tally' = [tally EXCEPT !.events = @ + 1]
        /\ UNCHANGED <<loop, mirror>>
        /\ OthersUnchanged

(* A handler charges or releases payload and tells it: the usage moves, or *)
(* a reservation over the limit exhausts the budget, or the ledger finds   *)
(* its own sums wrong and fails closed.                                    *)
ChangePayload ==
    /\ MayAct
    /\ loop.connections > 0
    /\ \/ \E used \in Usages :
             loop' = [loop EXCEPT !.used = used, !.pressure = RefreshPressure(@, used)]
       \/ loop.used > 0 /\ loop' = [loop EXCEPT !.pressure = "Exhausted"]
       \/ loop' = [loop EXCEPT !.pressure = "FailedClosed"]
    /\ loop' # loop
    /\ \E busy \in BOOLEAN : Told(EmitPayload(Telling, loop', busy))
    /\ OthersUnchanged

(* remove_connection: the access record when the request has an answer, the *)
(* release of its charges, the connection gauge, the status once more.      *)
RemoveConnection ==
    \E answered \in BOOLEAN :
        LET released == IF loop.connections > 1 THEN loop
                        ELSE [loop EXCEPT !.used = 0, !.pressure = RefreshPressure(@, 0)]
            gone  == [released EXCEPT !.connections = @ - 1]
            start == IF answered
                     THEN [Telling EXCEPT !.out = EmitAccess(@, tally.requests + 1),
                                          !.tally.requests = @ + 1]
                     ELSE Telling
        IN  /\ MayAct
            /\ loop.connections > 0
            /\ loop' = gone
            /\ \E busy \in BOOLEAN :
                   Told(EmitStatus(EmitConnections(EmitPayload(start, released, busy), gone),
                                   gone, busy))
            /\ OthersUnchanged

(* An upstream attempt fails for good: the record and metric of an exhausted *)
(* retry budget (emit_failure_aware_event), the error record, the metric.    *)
UpstreamFails ==
    \E exhausted \in BOOLEAN :
        LET denied == SendMetric(Send(out, "product", "Other"), FailureAwareMetric)
        IN  /\ MayAct
            /\ loop.connections > 0
            /\ out' = EmitUpstreamError(IF exhausted THEN denied ELSE out)
            /\ tally' = [tally EXCEPT !.events = @ + 1]
            /\ UNCHANGED <<loop, last, mirror>>
            /\ OthersUnchanged

(* A TLS handshake fails or times out. *)
HandshakeFails ==
    \E key \in TlsKeys :
        /\ MayAct
        /\ loop.connections > 0
        /\ out' = EmitTlsError(out, key)
        /\ tally' = [tally EXCEPT !.events = @ + 1]
        /\ UNCHANGED <<loop, last, mirror>>
        /\ OthersUnchanged

(* sync_active_revision after a command replaced the snapshot. *)
SyncRevision ==
    /\ MayAct
    /\ loop' = [loop EXCEPT !.revision = 1 - @]
    /\ \E busy \in BOOLEAN : Told(EmitStatus(Telling, loop', busy))
    /\ OthersUnchanged

(* publish_runtime_status: the selector's drain state of an upstream.  A   *)
(* locked mirror loses the status and the transition with it, and nothing  *)
(* counts that; a transition refused by both sinks counts once.            *)
DrainTransition(from, to) ==
    CASE from = "Active" /\ to \in {"Draining", "Drained"} -> "DrainStarted"
      [] from = "Draining" /\ to = "Drained"               -> "DrainCompleted"
      [] OTHER                                             -> "Nothing"

(* Where the tracker moves an upstream next: at once to Drained when nobody *)
(* uses it, and back to Active by a later configuration.                    *)
DrainSteps(state) == CASE state = "Active"   -> {"Draining", "Drained"}
                       [] state = "Draining" -> {"Drained"}
                       [] OTHER              -> {"Active"}

PublishDrainState ==
    \E state \in DrainSteps(loop.drain), busy \in BOOLEAN :
        LET t      == DrainTransition(mirror.drain, state)
            logged == Send(out, "product", "Other")
            both   == SendMetric(logged, FailureAwareMetric)
            twice  == both.drops = out.drops + 2
        IN  /\ MayAct
            /\ loop' = [loop EXCEPT !.drain = state]
            /\ IF busy
               THEN /\ tally' = [tally EXCEPT !.events = @ + 1]
                    /\ UNCHANGED <<out, mirror>>
               ELSE /\ mirror' = [mirror EXCEPT !.drain = state]
                    /\ IF t = "Nothing"
                       THEN out' = out /\ tally' = [tally EXCEPT !.events = @ + 1]
                       ELSE /\ out' = [both EXCEPT !.drops = IF twice THEN @ - 1 ELSE @]
                            /\ tally' = [tally EXCEPT !.events = @ + 1,
                                                      !.twice = IF twice THEN @ + 1 ELSE @]
            /\ UNCHANGED last
            /\ OthersUnchanged

-----------------------------------------------------------------------------
(* The health thread: HealthRuntimeObservability::emit_log and emit_metric *)
(* for a transition, a record and two metrics through the same channels    *)
(* and the same counter.                                                   *)
HealthChanges ==
    /\ MayAct
    /\ out' = SendMetric(SendMetric(Send(out, "product", "Other"),
                                    HealthTransitionMetric),
                         UpstreamAvailabilityMetric)
    /\ tally' = [tally EXCEPT !.events = @ + 1]
    /\ UNCHANGED <<loop, last, mirror>>
    /\ OthersUnchanged

-----------------------------------------------------------------------------
(* The collectors. *)

Take(c) == /\ out.channel[c] # <<>>
           /\ out' = [out EXCEPT !.channel[c] = Tail(@), !.open = @ - 1]
ProducersUnchanged == UNCHANGED <<loop, last, mirror, listener, tally>>

(* push of the recent buffers: the oldest makes room. *)
Push(events, e) == Append(IF Len(events) >= RecentCapacity THEN Tail(events) ELSE events, e)

CollectRecent(c) ==
    /\ Take(c)
    /\ recent' = [recent EXCEPT ![c] = Push(@, Head(out.channel[c]))]
    /\ UNCHANGED <<registry, sampler, printed>>
    /\ ProducersUnchanged

(* MetricRegistry: series within the limits, and refusals per reason. *)
Known(r, e)      == e.series \in DOMAIN r.series
Cumulative(r)    == {s \in DOMAIN r.series : r.series[s].kind # "Gauge"}
SeriesRefused(r, e) ==
    \/ Cardinality(DOMAIN r.series) >= MaxSeries
    \/ e.kind # "Gauge" /\ Cardinality(Cumulative(r)) >= MaxCumulative

(* apply_operation on the series, a new one starting at zero. *)
Applied(r, e) ==
    LET old == IF Known(r, e) THEN r.series[e.series].value ELSE 0
    IN  [kind |-> e.kind, value |-> IF e.kind = "Gauge" THEN e.value ELSE old + e.value]

(* MetricRegistry::observe *)
RegistryObserve(r, e) ==
    IF ~Known(r, e) /\ SeriesRefused(r, e) THEN [r EXCEPT !.refused = @ + 1]
    ELSE [r EXCEPT !.series = [s \in DOMAIN @ \cup {e.series} |->
                                  IF s = e.series THEN Applied(r, e) ELSE @[s]]]

CollectMetric ==
    /\ Take("metric")
    /\ registry' = RegistryObserve(registry, Head(out.channel["metric"]))
    /\ UNCHANGED <<recent, sampler, printed>>
    /\ ProducersUnchanged

(* spawn_product_log_collector: of the printed records only the pressure   *)
(* ones are told apart.                                                    *)
CollectProduct ==
    /\ Take("product")
    /\ LET e == Head(out.channel["product"])
       IN  printed' = IF e = "Other" THEN printed ELSE [printed EXCEPT !.pressure = e]
    /\ UNCHANGED <<recent, registry, sampler>>
    /\ ProducersUnchanged

(* Subtraction that stops at zero: a clock set back reads as no time. *)
Elapsed(now, then) == IF now > then THEN now - then ELSE 0

Silent(s, key, now) == key \in DOMAIN s.at /\ Elapsed(now, s.at[key]) < Ttl

(* TlsFailureProductSampler::observe for a key that is not silent: a key    *)
(* that is remembered leaves the order, where it has one place, the oldest  *)
(* keys make room, and the key goes to the back.                            *)
Others(s, key) ==
    LET at == CHOOSE i \in DOMAIN s.order : s.order[i] = key
    IN  IF key \notin DOMAIN s.at THEN s.order
        ELSE SubSeq(s.order, 1, at - 1) \o SubSeq(s.order, at + 1, Len(s.order))
Sample(s, key, now) ==
    LET others == Others(s, key)
        kept   == IF Len(others) >= SamplerCapacity
                  THEN SubSeq(others, Len(others) - SamplerCapacity + 2, Len(others))
                  ELSE others
    IN  [order |-> Append(kept, key),
         at |-> [k \in {kept[i] : i \in DOMAIN kept} \cup {key} |->
                    IF k = key THEN now ELSE s.at[k]]]

(* spawn_tls_failure_log_collector.  It reads the wall clock, which may   *)
(* have been set back since the last record.                               *)
CollectTls ==
    \E now \in 0 .. MaxClock :
        LET key == Head(out.channel["tls"])
        IN  /\ Take("tls")
            /\ IF Silent(sampler, key, now) THEN UNCHANGED <<sampler, printed>>
               ELSE /\ sampler' = Sample(sampler, key, now)
                    /\ printed' = [printed EXCEPT !.tls = Append(@, [key |-> key, at |-> now])]
            /\ UNCHANGED <<recent, registry>>
            /\ ProducersUnchanged

-----------------------------------------------------------------------------
(* The Prometheus listener: one accepting thread, the workers, a bounded   *)
(* handoff between them, and a handle whose drop sets the stop flag and    *)
(* joins the thread, which joins the workers.                              *)

ListenerOnly == /\ UNCHANGED <<loop, last, out, mirror, tally>>
                /\ CollectorsUnchanged

(* accept: the connection is handed over, or closed when nobody can take it. *)
AcceptScrape ==
    /\ listener.state = "Serving"
    /\ ~listener.stop
    /\ MayScrape
    /\ listener' = [listener EXCEPT !.events = @ + 1,
                                    !.handoff = IF @ < HandoffCapacity THEN @ + 1 ELSE @]
    /\ ListenerOnly

(* An accept error that is not WouldBlock ends the accepting loop. *)
AcceptFails ==
    /\ listener.state = "Serving"
    /\ ~listener.stop
    /\ MayScrape
    /\ listener' = [listener EXCEPT !.events = @ + 1, !.state = "Failed"]
    /\ ListenerOnly

(* A worker whose last look at the stop flag let it go on takes a stream. *)
WorkerTakes(w) ==
    /\ listener.worker[w] = 0
    /\ listener.handoff > 0
    /\ ~listener.stop
    /\ listener' = [listener EXCEPT !.handoff = @ - 1, !.worker[w] = 1]
    /\ ListenerOnly

(* A slip for the mutation runs: a scrape is read on as long as it sends. *)
WorkerReadsOn(w) ==
    /\ listener.worker[w] > 0
    /\ listener' = [listener EXCEPT !.worker[w] = (@ % HeaderReads) + 1]
    /\ ListenerOnly

(* handle_metrics_connection reads on: the header is not complete yet, and *)
(* the read limit ends it.                                                 *)
WorkerReads(w) ==
    /\ listener.worker[w] \in 1 .. HeaderReads - 1
    /\ listener' = [listener EXCEPT !.worker[w] = @ + 1]
    /\ ListenerOnly

(* The answer: 431, 400, 404, 405, 500 or the registry's snapshot. *)
WorkerAnswers(w) ==
    /\ listener.worker[w] > 0
    /\ listener' = [listener EXCEPT !.worker[w] = 0]
    /\ ListenerOnly

(* The worker's loop condition. *)
WorkerEnds(w) ==
    /\ listener.worker[w] = 0
    /\ listener.stop
    /\ listener' = [listener EXCEPT !.worker[w] = -1]
    /\ ListenerOnly

(* stop_and_join at the end of run_serve, after the health thread is joined. *)
Stop ==
    /\ ~listener.stop
    /\ MayScrape
    /\ listener' = [listener EXCEPT !.events = @ + 1, !.stop = TRUE]
    /\ ListenerOnly

ListenerDrains ==
    /\ listener.stop
    /\ listener.state = "Serving"
    /\ listener' = [listener EXCEPT !.state = "Draining"]
    /\ ListenerOnly

(* The workers are joined; a failed listener stays Failed. *)
ListenerJoins ==
    /\ listener.state \in {"Draining", "Failed"}
    /\ ~listener.joined
    /\ \A w \in Workers : listener.worker[w] = -1
    /\ listener' = [listener EXCEPT !.joined = TRUE,
                                    !.state = IF @ = "Draining" THEN "Stopped" ELSE @]
    /\ ListenerOnly

-----------------------------------------------------------------------------
(* The loop after its first connection, everything it told collected: what *)
(* SnapshotMioRuntime::new tells of the empty ledger, and the connection.  *)
Init ==
    LET first == [used |-> 0, pressure |-> "Normal", connections |-> 1, revision |-> 0,
                  drain |-> "Active"]
        told  == [kind |-> "Gauge", value |-> 0]
    IN  /\ loop = first
        /\ last = [bytes |-> 0, pressure |-> "Normal", status |-> StatusOf(first), rejections |-> {}]
        /\ out = [channel |-> [c \in Channels |-> <<>>], open |-> 0, drops |-> 0]
        /\ mirror = [resource |-> StatusOf(first), drain |-> "Active"]
        /\ recent = [access |-> <<>>, error |-> <<>>]
        /\ registry = [series |-> [s \in {"payload", "connections"} |->
                                     IF s = "payload" THEN told ELSE [told EXCEPT !.value = 1]],
                       refused |-> 0]
        /\ sampler = [order |-> <<>>, at |-> [k \in {} |-> 0]]
        /\ printed = [pressure |-> "Recovered", tls |-> <<>>]
        /\ listener = [state |-> "Serving", stop |-> FALSE, joined |-> FALSE, handoff |-> 0,
                       events |-> 0, worker |-> [w \in Workers |-> 0]]
        /\ tally = [events |-> 0, requests |-> 0, missed |-> 0, twice |-> 0]

Collect == CollectRecent("access") \/ CollectRecent("error") \/ CollectMetric
           \/ CollectProduct \/ CollectTls
ListenerStep == \/ AcceptScrape \/ AcceptFails \/ Stop \/ ListenerDrains \/ ListenerJoins
                \/ \E w \in Workers : WorkerTakes(w) \/ WorkerReads(w) \/ WorkerAnswers(w)
                                      \/ WorkerEnds(w)
LoopStep == \/ Accept \/ RejectAdmission \/ ChangePayload \/ RemoveConnection
            \/ UpstreamFails \/ HandshakeFails \/ SyncRevision \/ PublishDrainState

Next == \/ LoopStep \/ HealthChanges \/ Collect
        \/ ListenerStep

(* The listener's threads run and come back from every read within the     *)
(* socket timeout; nothing says that anyone stops the process.             *)
Fairness == /\ WF_vars(ListenerDrains) /\ WF_vars(ListenerJoins)
            /\ \A w \in Workers : WF_vars(WorkerEnds(w)) /\ WF_vars(WorkerReads(w) \/ WorkerAnswers(w))

Spec == Init /\ [][Next]_vars /\ Fairness

-----------------------------------------------------------------------------
(* Properties *)

(* Everything that waits for a collector. *)
Waiting(o) == Len(o.channel["access"]) + Len(o.channel["error"]) + Len(o.channel["metric"])
              + Len(o.channel["product"]) + Len(o.channel["tls"])

(* Whatever was emitted is waiting, was taken by its collector, or is in    *)
(* the drop counter, which also counts the statuses a locked mirror refused. *)
(* A drain transition refused by the product log and by the metric channel   *)
(* counts once.  Loop and health thread share the channels and the counter.  *)
EventsAccounted == out.open - Waiting(out) + tally.missed = out.drops + tally.twice

(* As long as the drop counter is zero, what an operator reads once the     *)
(* channels are empty is what the runtime does: the gauges, the number of   *)
(* requests, the newest requests of the access feed and the live resource   *)
(* status agree with the loop, although each is told only when the loop     *)
(* believes that it changed.                                                *)
Reads(series, default) ==
    IF series \in DOMAIN registry.series THEN registry.series[series].value ELSE default
QuietIsCurrent ==
    out.drops = 0 =>
        /\ mirror.resource = StatusOf(loop)
        /\ out.channel["metric"] = <<>> /\ registry.refused = 0 =>
               /\ Reads("payload", 0) = loop.used
               /\ Reads("connections", 0) = loop.connections
               /\ Reads("requests", 0) = tally.requests
        /\ LET feed == recent.access \o out.channel["access"]
           IN  \A i \in DOMAIN feed : feed[i] = tally.requests - Len(feed) + i

(* As long as the drop counter is zero, the last pressure record of the     *)
(* product log tells whether the loop is under pressure and whether it has  *)
(* failed closed, although most moves between the levels are not logged.    *)
PressureLogTellsState ==
    out.drops = 0 /\ out.channel["product"] = <<>> =>
        /\ loop.pressure = "Normal" <=> printed.pressure = "Recovered"
        /\ loop.pressure = "FailedClosed" => printed.pressure = "FailedClosed"

(* Two records of the same TLS failure are a full period apart on the       *)
(* collector's clock, unless so many other failures were logged in between  *)
(* that the bounded sampler had to forget the first.                        *)
SampledOncePerWindow ==
    LET tls == printed.tls
    IN  \A i, j \in DOMAIN tls :
            i < j /\ tls[i].key = tls[j].key /\ Elapsed(tls[j].at, tls[i].at) < Ttl
                => Cardinality({tls[k].key : k \in i + 1 .. j - 1}) >= SamplerCapacity

(* An operator is told the truth: gauges, feeds and status are current once *)
(* the channels are empty, the log knows the pressure, and a failure that   *)
(* repeats is sampled and not flooded.                                      *)
OperatorIsToldTruth == QuietIsCurrent /\ PressureLogTellsState /\ SampledOncePerWindow

(* Stopping the Prometheus listener ends: its thread joins the workers,     *)
(* whatever they were reading, and whether or not accepting had failed.     *)
ListenerStops == listener.stop ~> listener.joined
=============================================================================

-------------------------- MODULE HealthSupervisor --------------------------
(***************************************************************************)
(* The health supervisor of one generation: which upstreams it probes,     *)
(* what it knows of each, the probes in flight; the passive supervisor     *)
(* beside it; and the bounded pool of worker threads the probes run in.    *)
(*                                                                         *)
(* Source: crates/edge-application/src/health.rs,                          *)
(* health_runtime_coordinator.rs, passive_health.rs and                    *)
(* crates/edge-adapters/src/health_probe_worker_pool.rs.                   *)
(*                                                                         *)
(* A supervisor is a record; a method maps it to the next one.  The clock  *)
(* is abstracted: a scheduled upstream may be due at any tick.             *)
(***************************************************************************)
EXTENDS HealthPolicy, FiniteSets, SequencesExt

CONSTANTS Upstreams, Revisions,
          Target,         \* what a revision says of each of its upstreams
          Capacity,       \* HEALTH_OUTSTANDING_CAPACITY
          Workers,        \* the HEALTH_WORKERS threads of a pool
          MaxTickWork,    \* MAX_TICK_WORK
          IdSpace         \* probe identities wrap around

(* A target: its endpoint, TLS and probe policy in one identity, whether   *)
(* it is probed, observed passively, and administratively draining.        *)
Targets == [what : Nat, checked : BOOLEAN, passive : BOOLEAN, draining : BOOLEAN]

ASSUME TargetAssumption ==
    /\ \A r \in Revisions : DOMAIN Target[r] \subseteq Upstreams
    /\ \A r \in Revisions : \A u \in DOMAIN Target[r] : Target[r][u] \in Targets
    /\ IdSpace \in Nat \ {0} /\ {Capacity, MaxTickWork} \subseteq Nat
    /\ IsFiniteSet(Upstreams) /\ IsFiniteSet(Workers)

KeysOf(r) == DOMAIN Target[r]

-----------------------------------------------------------------------------
(* HealthSupervisor *)

(* ProbeScheduleState *)
Schedule(st) == [st |-> st, id |-> 0]
InFlight(id) == [st |-> "InFlight", id |-> id]

(* The snapshot of no earlier generation: it knows nothing.               *)
NoPrior == [health |-> <<>>]

(* activate *)
Activate(r) ==
    [rev |-> r, running |-> TRUE, nextProbe |-> 0,
     health |-> [u \in KeysOf(r) |-> HealthForPolicy(Target[r][u].checked)],
     schedule |-> [u \in KeysOf(r) |-> Schedule(IF Target[r][u].checked THEN "Scheduled" ELSE "Disabled")]]

(* activate_reconciled: an upstream whose target did not change keeps what *)
(* the previous generation knew of it                                      *)
ActivateReconciled(r, prior) ==
    [Activate(r) EXCEPT !.health = [u \in KeysOf(r) |->
        IF /\ u \in DOMAIN prior.health
           /\ Target[r][u].what = Target[prior.rev][u].what
           /\ Target[r][u].checked = Target[prior.rev][u].checked
        THEN prior.health[u] ELSE @[u]]]

(* reconciliation_snapshot, availability_snapshot *)
ReconciliationSnapshot(s) == [rev |-> s.rev, health |-> s.health]
AvailabilitySnapshot(s) == [u \in DOMAIN s.health |-> s.health[u].a]

(* handle_tick: the due upstreams, in some order, are in flight, each under *)
(* a probe identity of its own.                                             *)
DueSets(s) ==
    {D \in SUBSET {u \in DOMAIN s.schedule : s.running /\ s.schedule[u].st = "Scheduled"} :
        Cardinality(D) <= MaxTickWork}
Requests(s, due) ==
    LET order == SetToSeq(due)
    IN  [i \in 1 .. Cardinality(due) |->
            [key |-> order[i], id |-> (s.nextProbe + i - 1) % IdSpace, rev |-> s.rev]]
TakeDue(s, work) ==
    [s EXCEPT !.schedule = [u \in DOMAIN @ |->
                  IF \E i \in DOMAIN work : work[i].key = u
                  THEN InFlight(work[CHOOSE i \in DOMAIN work : work[i].key = u].id) ELSE @[u]],
              !.nextProbe = (@ + Len(work)) % IdSpace]

(* validate_probe_request *)
ValidProbe(s, q) ==
    /\ s.running /\ q.rev = s.rev
    /\ q.key \in DOMAIN s.schedule /\ s.schedule[q.key] = InFlight(q.id)

(* handle_probe_dispatch_rejected, for the requests a full pool refused. *)
DispatchRejected(s, refused) ==
    [s EXCEPT !.schedule = [u \in DOMAIN @ |->
        IF \E q \in refused : q.key = u /\ ValidProbe(s, q) THEN Schedule("Scheduled") ELSE @[u]]]

(* handle_probe_result *)
ProbeResult(s, q, ok) ==
    IF ~ValidProbe(s, q) THEN s
    ELSE [s EXCEPT !.health[q.key] = TransitionUpstreamHealth(@, ok),
                   !.schedule[q.key] = Schedule("Scheduled")]

(* shutdown *)
SupervisorShutdown(s) ==
    [s EXCEPT !.running = FALSE,
              !.schedule = [u \in DOMAIN s.schedule |-> Schedule("Stopped")]]

-----------------------------------------------------------------------------
(* HealthProbeWorkerPool.  A pool is a record: the queue, what each worker *)
(* probes, the completion channel and the number of outstanding requests.  *)

Free == [id |-> IdSpace]
NewPool ==
    [queue |-> <<>>, busy |-> [w \in Workers |-> Free], done |-> <<>>,
     accepting |-> TRUE, outstanding |-> 0]

(* submit, for one request after the other while the pool accepts: as many *)
(* as there is room for are taken.                                          *)
Accepts(p, work) ==
    LET room == IF p.outstanding < Capacity THEN Capacity - p.outstanding ELSE 0
    IN  IF room < Len(work) THEN room ELSE Len(work)
Submit(p, work) ==
    LET n == Accepts(p, work)
    IN  [p EXCEPT !.outstanding = @ + n, !.queue = @ \o SubSeq(work, 1, n)]

(* HealthRuntimeCoordinator::handle_tick: what is due is submitted; a full *)
(* pool reschedules the probe, a stopped one stops the coordinator.        *)
HandleTick(s, p, due) ==
    LET work    == Requests(s, due)
        taken   == TakeDue(s, work)
        refused == {work[i] : i \in Accepts(p, work) + 1 .. Len(work)}
    IN  IF due = {} THEN [sup |-> s, pool |-> p]
        ELSE IF ~p.accepting THEN [sup |-> SupervisorShutdown(taken), pool |-> p]
        ELSE [sup |-> DispatchRejected(taken, refused), pool |-> Submit(p, work)]

(* take_probe_work, in a worker *)
CanTake(p, w) == p.busy[w] = Free /\ p.queue # <<>>
TakeWork(p, w) == [p EXCEPT !.busy[w] = Head(p.queue), !.queue = Tail(@)]

(* The worker's loop: the result goes to the completion channel, which     *)
(* blocks the worker while the channel is full.  Of the outcome the        *)
(* coordinator only uses whether it is Succeeded.                          *)
CanFinish(p, w) == p.busy[w] # Free /\ Len(p.done) < Capacity
FinishProbe(p, w, ok) ==
    [p EXCEPT !.busy[w] = Free,
              !.done = Append(@, [request |-> p.busy[w], ok |-> ok])]

(* HealthProbeCompletionReceiver::try_recv *)
TakeCompletion(p) == [p EXCEPT !.done = Tail(@), !.outstanding = @ - 1]

(* shutdown, before the workers are joined: a worker that is free and      *)
(* finds the pool closed ends; the slip leaves the count as it was         *)
CloseKeepsCount(p) == [p EXCEPT !.accepting = FALSE, !.queue = <<>>]
ClosePool(p) ==
    [p EXCEPT !.accepting = FALSE, !.outstanding = @ - Len(p.queue), !.queue = <<>>]
PoolJoined(p) == ~p.accepting /\ p.queue = <<>> /\ \A w \in Workers : p.busy[w] = Free

-----------------------------------------------------------------------------
(* PassiveHealthSupervisor *)

(* new and register *)
RegisterPassive(r) ==
    [u \in KeysOf(r) |-> IF Target[r][u].passive THEN Observing ELSE Passive("Disabled")]

(* handle: an observation made for another revision or generation is of no *)
(* account.                                                                *)
ObservationApplied(passive, r, g, o) ==
    o.rev = r /\ o.gen = g /\ o.key \in DOMAIN passive /\ passive[o.key].st # "Disabled"
HandleObservation(passive, r, g, o) ==
    IF ObservationApplied(passive, r, g, o)
    THEN [passive EXCEPT ![o.key] = PassiveObserve(@, o.ok)] ELSE passive
HandleObservations(passive, r, g, taken) ==
    FoldLeft(LAMBDA p, o : HandleObservation(p, r, g, o), passive, taken)

(* expire_cooldowns *)
ExpireCooldowns(passive, elapsed) ==
    [u \in DOMAIN passive |-> PassiveCooldown(passive[u], u \in elapsed)]

(* effective_availability *)
EffectiveAvailability(s, passive) ==
    [u \in DOMAIN s.health |->
        IF EffectiveEligibility(TRUE, Target[s.rev][u].draining, s.health[u].a, passive[u])
           = "Eligible"
        THEN s.health[u].a ELSE "Unhealthy"]
=============================================================================

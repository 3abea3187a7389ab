---------------------------- MODULE HealthRuntime ----------------------------
(***************************************************************************)
(* The health runtimes of a running process: the controller, one thread    *)
(* with its own pool per generation, the event loop they publish to over   *)
(* the bounded command channel, the operator's thread that replaces the    *)
(* configuration and with it the generation, and the end of the process.   *)
(*                                                                         *)
(* Source: apps/edge-proxy/src/health_runtime.rs, the apply path of        *)
(* MirroredSnapshotCommandClient and run_serve in main.rs, and the command *)
(* channel and its handlers in crates/edge-core/src/lib.rs.                *)
(***************************************************************************)
EXTENDS HealthSupervisor

CONSTANTS FirstRevision,
          Generations,    \* 1..n: how many the allocator hands out here
          ChannelCapacity,
          ObservationCapacity,
          MaxDrain        \* MAX_COMPLETION_DRAIN

(* The command channel of a process has 128 places.  Each sender waits for *)
(* its answer, and there are never three of them.                          *)
ASSUME RuntimeAssumption ==
    /\ FirstRevision \in Revisions
    /\ Generations \subseteq Nat \ {0} /\ 1 \in Generations
    /\ ChannelCapacity \in Nat /\ ChannelCapacity >= 2
    /\ {ObservationCapacity, MaxDrain} \subseteq Nat

VARIABLES runtime,   \* generation -> its thread, supervisors and pool
          ctl,       \* HealthRuntimeControllerState
          loop,      \* what the event loop routes by
          channel,   \* the runtime command channel
          ack,       \* the acknowledgement each sender waits for
          admin,     \* the operator's command in progress
          process    \* run_serve

vars == <<runtime, ctl, loop, channel, ack, admin, process>>

None == 0
Operator == 0
Senders == {Operator} \cup Generations

Absent == [pc |-> "absent"]
Prepared(r, g, prior) ==
    [pc |-> "prepared", stop |-> FALSE, drained |-> 0,
     sup |-> ActivateReconciled(r, prior), passive |-> RegisterPassive(r),
     observations |-> <<>>, pool |-> NewPool,
     reconciliation |-> ReconciliationSnapshot(ActivateReconciled(r, prior))]

Exists(g) == g \in Generations /\ runtime[g] # Absent
Alive(g) == Exists(g) /\ runtime[g].pc # "stopped"
Listens(g) == Alive(g) /\ runtime[g].pc # "joining"

(* initial_availability_snapshot has generation 0, and the runtime of the  *)
(* first generation is committed before the loop starts.                   *)
Init ==
    /\ runtime = [g \in Generations |->
          IF g = 1 THEN [Prepared(FirstRevision, 1, NoPrior) EXCEPT !.pc = "turn"] ELSE Absent]
    /\ ctl = [active |-> 1, nextGen |-> 2]
    /\ loop = [running |-> TRUE, rev |-> FirstRevision, gen |-> 0,
               avail |-> AvailabilitySnapshot(Activate(FirstRevision))]
    /\ channel = <<>>
    /\ ack = [x \in Senders |-> "None"]
    /\ admin = [pc |-> "idle", mirror |-> FirstRevision, rev |-> FirstRevision,
                next |-> None, back |-> None, previous |-> None]
    /\ process = [pc |-> "serving", joins |-> None]

-----------------------------------------------------------------------------
(* SnapshotRuntimeCommandClient::send_payload: a command is queued and its *)
(* sender waits, or it is refused at once.                                 *)
Refused == ~loop.running \/ Len(channel) >= ChannelCapacity
Send(x, command) ==
    IF Refused THEN /\ ack' = [ack EXCEPT ![x] = "Rejected"]
                    /\ UNCHANGED channel
    ELSE /\ channel' = Append(channel, [from |-> x, command |-> command])
         /\ ack' = [ack EXCEPT ![x] = "Waiting"]

(* What a thread publishes; the slip leaves out what the traffic showed *)
PublishProbesOnly(g, sup, passive) ==
    [kind |-> "Publish", rev |-> sup.rev, gen |-> g, avail |-> AvailabilitySnapshot(sup)]
Publish(g, sup, passive) ==
    [kind |-> "Publish", rev |-> sup.rev, gen |-> g, avail |-> EffectiveAvailability(sup, passive)]

(* apply_availability *)
AvailabilityFits(r, g, c) == c.rev = r /\ c.gen >= g /\ DOMAIN c.avail = KeysOf(r)

(* The phases of the operator's command that keep the controller locked    *)
(* over a step.  commit replaces the active runtime under the lock and     *)
(* joins the previous one after it gave the lock back; the slip joins it   *)
(* under the lock.  The loop takes the lock in the handlers between which  *)
(* it drains its commands.                                                 *)
JoinsUnderLock == {"joinPrevious"}
LockedPhases == {}
LoopHasLock == admin.pc \notin LockedPhases

(* drain_runtime_commands_with_listeners, one command: a publication, or   *)
(* activate_runtime_generation, which changes all of the loop or nothing.  *)
(* The registries of the generation may not fit the listeners.             *)
HandlePublish(c) ==
    IF AvailabilityFits(loop.rev, loop.gen, c)
    THEN [loop EXCEPT !.gen = c.gen, !.avail = c.avail] ELSE loop
ActivateRuntimeGeneration(c, registriesFit) ==
    IF AvailabilityFits(c.rev, IF c.rev = loop.rev THEN loop.gen ELSE 0, c) /\ registriesFit
    THEN [loop EXCEPT !.rev = c.rev, !.gen = c.gen, !.avail = c.avail] ELSE loop

LoopCommand ==
    /\ loop.running /\ LoopHasLock /\ channel # <<>>
    /\ \E registriesFit \in BOOLEAN :
          LET c == Head(channel).command
              next == IF c.kind = "Publish" THEN HandlePublish(c)
                      ELSE ActivateRuntimeGeneration(c, registriesFit)
              accepted == IF c.kind = "Publish" THEN AvailabilityFits(loop.rev, loop.gen, c)
                          ELSE /\ registriesFit
                               /\ AvailabilityFits(c.rev, IF c.rev = loop.rev THEN loop.gen ELSE 0, c)
          IN /\ (c.kind = "Publish" => registriesFit)
             /\ loop' = next
             /\ ack' = [ack EXCEPT ![Head(channel).from] = IF accepted THEN "Accepted" ELSE "Rejected"]
    /\ channel' = Tail(channel)
    /\ UNCHANGED <<runtime, ctl, admin, process>>

(* submit_passive_observation: a handler of the loop hands what it saw of  *)
(* an upstream to the active runtime, under the controller's lock.  A full *)
(* channel or a thread that is gone loses it.                              *)
SubmitObservation ==
    /\ loop.running /\ LoopHasLock
    /\ \E u \in KeysOf(loop.rev), ok \in BOOLEAN :
          /\ Target[loop.rev][u].passive
          /\ LET g == ctl.active
                 o == [rev |-> loop.rev, gen |-> loop.gen, key |-> u, ok |-> ok] IN
             runtime' = IF Listens(g) /\ Len(runtime[g].observations) < ObservationCapacity
                        THEN [runtime EXCEPT ![g].observations = Append(@, o)] ELSE runtime
    /\ UNCHANGED <<ctl, loop, channel, ack, admin, process>>

(* The loop returns: drained, or with an error.  Its receiver is dropped,  *)
(* and every command that is queued with it: the sender finds the channel  *)
(* of its answer closed.  The slip leaves it waiting.                      *)
LeftWaiting(answer) == answer
Abandoned(answer) == IF answer = "Waiting" THEN "Rejected" ELSE answer
LoopReturns ==
    /\ loop.running
    /\ loop' = [loop EXCEPT !.running = FALSE]
    /\ channel' = <<>>
    /\ ack' = [x \in Senders |-> Abandoned(ack[x])]
    /\ UNCHANGED <<runtime, ctl, admin, process>>

-----------------------------------------------------------------------------
(* The thread of a generation.                                             *)

At(g, pc) == Exists(g) /\ runtime[g].pc = pc
Goto(g, pc) == runtime' = [runtime EXCEPT ![g].pc = pc]
Mine == <<ctl, loop, admin, process>>

(* The thread ends: the coordinator stops, the pool closes and its workers *)
(* are joined.  Of a runtime that ended only the reconciliation snapshot   *)
(* can still be read.                                                      *)
Ending(rt) == [pc |-> "joining", pool |-> ClosePool(rt.pool), reconciliation |-> rt.reconciliation]
StopThread(g, rt) == runtime' = [runtime EXCEPT ![g] = Ending(rt)]

(* StartupHealthRuntime::shutdown, before the join: the stop flag is set   *)
(* and a thread that still waits for its start signal is cancelled.  At    *)
(* the top of its turn, or waiting, the thread does nothing but end;       *)
(* elsewhere it finishes the turn, without looking at observations again.  *)
Stop(R, gs) ==
    [g \in Generations |->
        IF g \notin gs \/ R[g].pc \in {"joining", "stopped"} THEN R[g]
        ELSE IF R[g].pc \in {"prepared", "turn"} THEN Ending(R[g])
        ELSE [R[g] EXCEPT !.stop = TRUE, !.observations = <<>>]]

(* A turn: what is due is submitted; then cooldowns expire, observations   *)
(* are applied, and what changed is published before any probe result is   *)
(* looked at.  An observation that does not apply leaves the states alone. *)
ThreadPassive(g, rt) ==
    \E elapsed \in SUBSET {u \in DOMAIN rt.passive : rt.passive[u].st = "Ejected"} :
        LET n == IF Len(rt.observations) < MaxDrain THEN Len(rt.observations) ELSE MaxDrain
            taken == SubSeq(rt.observations, 1, n)
            changed == \/ elapsed # {}
                       \/ \E i \in 1..n : ObservationApplied(rt.passive, rt.sup.rev, g, taken[i])
            after == IF ~changed THEN rt.passive
                     ELSE HandleObservations(ExpireCooldowns(rt.passive, elapsed), rt.sup.rev, g, taken)
        IN /\ runtime' = [runtime EXCEPT ![g] =
                 [rt EXCEPT !.passive = after, !.pc = IF changed THEN "ackPassive" ELSE "complete",
                            !.observations = SubSeq(@, n + 1, Len(@))]]
           /\ IF changed THEN Send(g, Publish(g, rt.sup, after)) ELSE UNCHANGED <<channel, ack>>
ThreadTurn(g) ==
    /\ At(g, "turn")
    /\ \E due \in DueSets(runtime[g].sup) :
          LET t == HandleTick(runtime[g].sup, runtime[g].pool, due)
              rt == [runtime[g] EXCEPT !.sup = t.sup, !.pool = t.pool] IN
          IF t.sup.running THEN ThreadPassive(g, rt)
          ELSE StopThread(g, rt) /\ UNCHANGED <<channel, ack>>
    /\ UNCHANGED Mine
(* A publication that is refused ends the thread, whichever it was.        *)
ThreadAck(g, pc) ==
    /\ At(g, pc) /\ ack[g] \in {"Accepted", "Rejected"}
    /\ IF ack[g] = "Accepted" THEN Goto(g, "complete") ELSE StopThread(g, runtime[g])
    /\ ack' = [ack EXCEPT ![g] = "None"]
    /\ UNCHANGED channel /\ UNCHANGED Mine
ThreadAckPassive(g) == ThreadAck(g, "ackPassive")
ThreadAckProbe(g) == ThreadAck(g, "ackProbe")

(* One completion, or the end of the turn: the result is applied, the      *)
(* reconciliation snapshot stored, a change of availability published.     *)
ThreadComplete(g) ==
    /\ At(g, "complete")
    /\ IF runtime[g].pool.done = <<>> \/ runtime[g].drained = MaxDrain
       THEN /\ IF runtime[g].stop THEN StopThread(g, runtime[g])
               ELSE runtime' = [runtime EXCEPT ![g] = [@ EXCEPT !.pc = "turn", !.drained = 0]]
            /\ UNCHANGED <<channel, ack>>
       ELSE LET rt == runtime[g]
                d == Head(rt.pool.done)
                s == ProbeResult(rt.sup, d.request, d.ok)
                changed == AvailabilitySnapshot(s) # AvailabilitySnapshot(rt.sup)
            IN /\ runtime' = [runtime EXCEPT ![g] =
                     [rt EXCEPT !.sup = s, !.pool = TakeCompletion(@), !.drained = @ + 1,
                                !.reconciliation = ReconciliationSnapshot(s),
                                !.pc = IF changed THEN "ackProbe" ELSE "complete"]]
               /\ IF changed THEN Send(g, Publish(g, s, rt.passive)) ELSE UNCHANGED <<channel, ack>>
    /\ UNCHANGED Mine

ThreadJoined(g) ==
    /\ At(g, "joining") /\ PoolJoined(runtime[g].pool)
    /\ runtime' = [runtime EXCEPT ![g] =
          [pc |-> "stopped", reconciliation |-> runtime[g].reconciliation]]
    /\ UNCHANGED <<channel, ack>> /\ UNCHANGED Mine

WorkerStep(g, w) ==
    /\ Alive(g)
    /\ LET p == runtime[g].pool IN
       \/ CanTake(p, w) /\ runtime' = [runtime EXCEPT ![g].pool = TakeWork(p, w)]
       \/ /\ CanFinish(p, w)
          /\ \E ok \in {ProbeOutcome(b) = "Succeeded" : b \in PeerBehaviour} :
                runtime' = [runtime EXCEPT ![g].pool = FinishProbe(p, w, ok)]
    /\ UNCHANGED <<channel, ack>> /\ UNCHANGED Mine

-----------------------------------------------------------------------------
(* MirroredSnapshotCommandClient::send for ApplyConfigSnapshot, in the     *)
(* operator's thread.                                                      *)

Forget(R, gs) == [g \in Generations |-> IF g \in gs THEN Absent ELSE R[g]]
Elsewhere == <<loop, process>>

(* HealthRuntimeController::prepare: a generation, and a thread that waits *)
(* for its start signal.  It knows what the active runtime knew.           *)
Allocate(r) ==
    /\ ctl.nextGen \in Generations
    /\ ctl' = [ctl EXCEPT !.nextGen = @ + 1]
    /\ runtime' = [runtime EXCEPT ![ctl.nextGen] = Prepared(r, ctl.nextGen,
          IF ctl.active = None THEN NoPrior ELSE runtime[ctl.active].reconciliation)]

ApplyPrepare(r) ==
    /\ admin.pc = "idle" /\ ctl.nextGen + 1 \in Generations
    /\ Allocate(r)
    /\ admin' = [admin EXCEPT !.pc = "prepareRollback", !.rev = r, !.next = ctl.nextGen]
    /\ UNCHANGED <<channel, ack>> /\ UNCHANGED Elsewhere
ApplyPrepareRollback ==
    /\ admin.pc = "prepareRollback"
    /\ Allocate(admin.mirror)
    /\ admin' = [admin EXCEPT !.pc = "send", !.back = ctl.nextGen]
    /\ UNCHANGED <<channel, ack>> /\ UNCHANGED Elsewhere

(* A thread cannot be spawned: the command is refused, and the runtime     *)
(* prepared before it is dropped.                                          *)
ApplyPrepareFails ==
    /\ admin.pc = "prepareRollback"
    /\ ctl' = [ctl EXCEPT !.nextGen = @ + 1]
    /\ admin' = [admin EXCEPT !.pc = "drop"]
    /\ runtime' = Stop(runtime, {admin.next})
    /\ UNCHANGED <<channel, ack>> /\ UNCHANGED Elsewhere

ApplySend ==
    /\ admin.pc = "send"
    /\ Send(Operator, [kind |-> "Activate", rev |-> admin.rev, gen |-> admin.next,
                      avail |-> AvailabilitySnapshot(runtime[admin.next].sup)])
    /\ admin' = [admin EXCEPT !.pc = "ack"]
    /\ UNCHANGED <<runtime, ctl>> /\ UNCHANGED Elsewhere

(* commit: the candidate starts and becomes the active runtime; the        *)
(* previous one is told to stop and joined.                                *)
ApplyCommit ==
    /\ admin.pc = "ack" /\ ack[Operator] = "Accepted"
    /\ ack' = [ack EXCEPT ![Operator] = "None"]
    /\ runtime' = [Stop(runtime, {ctl.active} \ {None}) EXCEPT ![admin.next].pc = "turn"]
    /\ ctl' = [ctl EXCEPT !.active = admin.next]
    /\ admin' = [admin EXCEPT !.pc = "joinPrevious", !.previous = ctl.active]
    /\ UNCHANGED channel /\ UNCHANGED Elsewhere
ApplyCommitted ==
    /\ admin.pc = "joinPrevious"
    /\ admin.previous = None \/ ~Alive(admin.previous)
    /\ admin' = [admin EXCEPT !.pc = "drop", !.mirror = admin.rev, !.next = None, !.previous = None]
    /\ runtime' = Stop(Forget(runtime, {admin.previous}), {admin.back})
    /\ UNCHANGED <<ctl, channel, ack>> /\ UNCHANGED Elsewhere

(* The loop refused the generation: what was prepared for it is dropped    *)
(* and the active runtime goes on; the slip stops the active runtime.      *)
StoppedOnRefusal == {admin.next, admin.back, ctl.active} \ {None}
DroppedOnRefusal == {admin.next, admin.back}
ApplyRefused ==
    /\ admin.pc = "ack" /\ ack[Operator] = "Rejected"
    /\ ack' = [ack EXCEPT ![Operator] = "None"]
    /\ runtime' = Stop(runtime, DroppedOnRefusal)
    /\ admin' = [admin EXCEPT !.pc = "drop"]
    /\ UNCHANGED <<ctl, channel>> /\ UNCHANGED Elsewhere

(* StartupHealthRuntime::drop joins what was prepared and not committed.   *)
ApplyDropped ==
    /\ admin.pc = "drop"
    /\ \A g \in {admin.next, admin.back} \ {None} : ~Alive(g)
    /\ admin' = [admin EXCEPT !.pc = "idle", !.rev = admin.mirror, !.next = None, !.back = None]
    /\ runtime' = Forget(runtime, {admin.next, admin.back})
    /\ UNCHANGED <<ctl, channel, ack>> /\ UNCHANGED Elsewhere

ApplyContinues ==
    \/ ApplyPrepareRollback \/ ApplyPrepareFails \/ ApplySend
    \/ ApplyCommit \/ ApplyCommitted \/ ApplyRefused \/ ApplyDropped

-----------------------------------------------------------------------------
(* run_serve after the loop returned: HealthRuntimeController::shutdown    *)
(* takes the active runtime, stops and joins it, and the process ends.     *)
ProcessStops ==
    /\ process.pc = "serving" /\ ~loop.running
    /\ process' = [pc |-> "joining", joins |-> ctl.active]
    /\ ctl' = [ctl EXCEPT !.active = None]
    /\ runtime' = Stop(runtime, {ctl.active} \ {None})
    /\ UNCHANGED <<loop, channel, ack, admin>>
ProcessExits ==
    /\ process.pc = "joining" /\ ~Alive(process.joins)
    /\ process' = [process EXCEPT !.pc = "exited"]
    /\ UNCHANGED <<runtime, ctl, loop, channel, ack, admin>>

ThreadStep(g) ==
    \/ ThreadTurn(g) \/ ThreadAckPassive(g)
    \/ ThreadAckProbe(g) \/ ThreadComplete(g) \/ ThreadJoined(g)

Exited == process.pc = "exited" /\ UNCHANGED vars

Next ==
    \/ /\ process.pc # "exited"
       /\ \/ LoopCommand \/ SubmitObservation \/ LoopReturns
          \/ \E g \in Generations : ThreadStep(g) \/ \E w \in Workers : WorkerStep(g, w)
          \/ \E r \in Revisions : ApplyPrepare(r)
          \/ ApplyContinues \/ ProcessStops \/ ProcessExits
    \/ Exited

Spec == Init /\ [][Next]_vars

(* Every thread goes on: a probe has timeouts, so a worker finishes it;    *)
(* the loop drains the channel on every turn, so a handler in between      *)
(* cannot keep it from the commands.                                       *)
Running(A) == process.pc # "exited" /\ A
FairSpec ==
    /\ Spec
    /\ SF_vars(Running(LoopCommand)) /\ WF_vars(Running(SubmitObservation))
    /\ \A g \in Generations :
          /\ WF_vars(Running(ThreadStep(g)))
          /\ \A w \in Workers : WF_vars(Running(WorkerStep(g, w)))
    /\ WF_vars(Running(ApplyContinues))
    /\ WF_vars(Running(ProcessStops)) /\ WF_vars(Running(ProcessExits))

-----------------------------------------------------------------------------
(* Properties.                                                             *)

InPool(p) ==
    Range(p.queue) \cup {p.busy[w] : w \in {v \in Workers : p.busy[v] # Free}}
        \cup {p.done[i].request : i \in DOMAIN p.done}
Busy(p) == Cardinality({w \in Workers : p.busy[w] # Free})


(* The probes of a runtime are accounted for, whatever the threads do and  *)
(* even while the pool shuts down: the count that limits them is exactly   *)
(* what is queued, being probed or waiting to be taken, so a worker never  *)
(* blocks on the completion channel; and an upstream is in flight exactly  *)
(* as long as one probe of it, with its identity, is in the pool.          *)
ProbesAccounted ==
    \A g \in Generations : Alive(g) => LET rt == runtime[g] IN
        /\ rt.pool.outstanding = Len(rt.pool.queue) + Busy(rt.pool) + Len(rt.pool.done)
        /\ rt.pool.outstanding <= Capacity
        /\ rt.pc # "joining" =>
             /\ {[key |-> q.key, id |-> q.id] : q \in InPool(rt.pool)}
                  = {[key |-> u, id |-> rt.sup.schedule[u].id] :
                        u \in {v \in DOMAIN rt.sup.schedule : rt.sup.schedule[v].st = "InFlight"}}
             /\ Cardinality(InPool(rt.pool)) = rt.pool.outstanding

Eligible(a) == a # "Unhealthy"
Settled(g) == At(g, "turn") \/ At(g, "complete")

(* The loop routes by what the active runtime measured: once the runtime   *)
(* has nothing left to publish, an active upstream is eligible for routing *)
(* exactly when neither its probes nor its traffic exclude it, also right  *)
(* after the configuration was replaced.                                   *)
RoutingFollowsHealth ==
    LET g == ctl.active IN
    loop.running /\ g # None /\ Settled(g) /\ admin.pc # "ack" =>
        /\ loop.rev = runtime[g].sup.rev /\ loop.gen \in {0, g}
        /\ \A u \in KeysOf(loop.rev) : ~Target[loop.rev][u].draining =>
              (Eligible(loop.avail[u]) <=>
                  Eligible(EffectiveAvailability(runtime[g].sup, runtime[g].passive)[u]))

(* While the process serves, somebody watches the upstreams: the active    *)
(* runtime only stops because its successor took over, never because a     *)
(* publication of it crossed the replacement of the configuration or found *)
(* the channel full.                                                       *)
UpstreamsAreWatched ==
    loop.running /\ admin.pc = "idle" =>
        ctl.active # None /\ Listens(ctl.active)

(* An operator's command ends: the thread that is joined always gets the   *)
(* answer it waits for, although the loop that answers needs the lock of   *)
(* the controller that joins.                                              *)
ApplyEnds == admin.pc # "idle" ~> (admin.pc = "idle" \/ process.pc = "exited")

(* When the loop has returned the process ends, whatever probes are        *)
(* queued, running or unread and whatever commands are waiting then.       *)
ShutdownEnds == ~loop.running ~> process.pc = "exited"
=============================================================================

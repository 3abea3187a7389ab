------------------------- MODULE HealthRuntimeProofs -------------------------
(***************************************************************************)
(* Theorems about HealthRuntime, for any number of upstreams, revisions,   *)
(* workers and generations and every capacity: the probes of a runtime are *)
(* accounted for, the loop routes by what the active runtime measured, and *)
(* the upstreams are watched while the process serves.                     *)
(*                                                                         *)
(* The second and the third hold because a sender waits for its answer:    *)
(* the channel then holds at most one command of each, and of the senders  *)
(* only the active runtime and one other, the operator or the runtime that *)
(* was replaced, are there at a time.  The channel is never full, and what *)
(* the active runtime has in it is still what it knows.                    *)
(***************************************************************************)
EXTENDS HealthRuntime, FiniteSetTheorems, SequenceTheorems, TLAPS

-----------------------------------------------------------------------------
(* The inductive invariant.  Its first part holds for ever: what a runtime *)
(* is made of, the bookkeeping of its probes, and which generations the    *)
(* operator's command has in hand.                                         *)

ProbeIds == 0 .. IdSpace - 1
HealthStates == [a : {"Disabled", "Unknown", "Healthy", "Unhealthy"}, s : Nat, f : Nat]
ScheduleStates == [st : {"Scheduled", "Disabled", "InFlight"}, id : ProbeIds]
AnyRequest == [key : Upstreams, id : ProbeIds, rev : Revisions]
Completions == [request : AnyRequest, ok : BOOLEAN]

IsSup(s) ==
    /\ s = [rev |-> s.rev, running |-> TRUE, nextProbe |-> s.nextProbe,
            health |-> s.health, schedule |-> s.schedule]
    /\ s.rev \in Revisions /\ s.nextProbe \in ProbeIds
    /\ s.health \in [KeysOf(s.rev) -> HealthStates]
    /\ s.schedule \in [KeysOf(s.rev) -> ScheduleStates]

IsPool(p) ==
    p \in [queue : Seq(AnyRequest), busy : [Workers -> AnyRequest \cup {Free}],
           done : Seq(Completions), accepting : BOOLEAN, outstanding : Nat]

(* What a generation leaves to the next one. *)
IsKnown(k) ==
    /\ k = [rev |-> k.rev, health |-> k.health]
    /\ k.rev \in Revisions /\ k.health \in [KeysOf(k.rev) -> HealthStates]

(* Every request of the pool is the probe its upstream is in flight with. *)
InPlace(s, q) ==
    q.rev = s.rev /\ q.key \in KeysOf(s.rev) /\ s.schedule[q.key] = InFlight(q.id)
Placed(s, p) ==
    /\ \A i \in 1 .. Len(p.queue) : InPlace(s, p.queue[i])
    /\ \A w \in Workers : p.busy[w] # Free => InPlace(s, p.busy[w])
    /\ \A i \in 1 .. Len(p.done) : InPlace(s, p.done[i].request)

(* No two requests of the pool are for the same upstream. *)
Apart(p) ==
    /\ \A i, j \in 1 .. Len(p.queue) : p.queue[i].key = p.queue[j].key => i = j
    /\ \A v, w \in Workers :
          p.busy[v] # Free /\ p.busy[w] # Free /\ p.busy[v].key = p.busy[w].key => v = w
    /\ \A i, j \in 1 .. Len(p.done) : p.done[i].request.key = p.done[j].request.key => i = j
    /\ \A i \in 1 .. Len(p.queue), w \in Workers :
          p.busy[w] # Free => p.busy[w].key # p.queue[i].key
    /\ \A i \in 1 .. Len(p.queue), j \in 1 .. Len(p.done) :
          p.queue[i].key # p.done[j].request.key
    /\ \A j \in 1 .. Len(p.done), w \in Workers :
          p.busy[w] # Free => p.busy[w].key # p.done[j].request.key

(* An upstream in flight has a request in the pool. *)
Holds(p, u) ==
    \/ \E i \in 1 .. Len(p.queue) : p.queue[i].key = u
    \/ \E w \in Workers : p.busy[w] # Free /\ p.busy[w].key = u
    \/ \E i \in 1 .. Len(p.done) : p.done[i].request.key = u
Covered(s, p) == \A u \in KeysOf(s.rev) : s.schedule[u].st = "InFlight" => Holds(p, u)

Counted(p) ==
    p.outstanding = Len(p.queue) + Busy(p) + Len(p.done) /\ p.outstanding <= Capacity

(* The bookkeeping of the probes, of one supervisor and its pool. *)
Kept(s, p) == Placed(s, p) /\ Apart(p) /\ Covered(s, p) /\ Counted(p)

TurnPcs == {"turn", "ackPassive", "complete", "ackProbe"}
EndPcs == {"joining", "stopped"}

IsLive(rt) ==
    /\ rt = [pc |-> rt.pc, stop |-> rt.stop, drained |-> rt.drained, sup |-> rt.sup,
             passive |-> rt.passive, observations |-> rt.observations, pool |-> rt.pool,
             reconciliation |-> rt.reconciliation]
    /\ rt.pc \in TurnPcs \cup {"prepared"} /\ rt.stop \in BOOLEAN
    /\ IsSup(rt.sup) /\ IsPool(rt.pool) /\ rt.pool.accepting /\ IsKnown(rt.reconciliation)
    /\ Kept(rt.sup, rt.pool)
IsEnding(rt) ==
    /\ rt = [pc |-> "joining", pool |-> rt.pool, reconciliation |-> rt.reconciliation]
    /\ IsPool(rt.pool) /\ rt.pool.queue = <<>> /\ Counted(rt.pool) /\ IsKnown(rt.reconciliation)
IsStopped(rt) ==
    rt = [pc |-> "stopped", reconciliation |-> rt.reconciliation] /\ IsKnown(rt.reconciliation)
IsRuntime(rt) == rt = Absent \/ IsLive(rt) \/ IsEnding(rt) \/ IsStopped(rt)

Runtimes == runtime = [g \in Generations |-> runtime[g]] /\ \A g \in Generations : IsRuntime(runtime[g])

GenOrNone == Generations \cup {None}
Numbers ==
    /\ ctl \in [active : GenOrNone, nextGen : Nat] /\ ctl.active < ctl.nextGen
    /\ ctl.active # None => runtime[ctl.active] # Absent
    /\ \A g \in Generations : g >= ctl.nextGen => runtime[g] = Absent

(* A runtime that was made for revision r and has not started. *)
IsPrepared(g, r) ==
    /\ g \in Generations /\ g # ctl.active /\ g < ctl.nextGen
    /\ runtime[g].pc = "prepared" /\ ~runtime[g].stop
    /\ runtime[g].sup.rev = r /\ runtime[g].passive = RegisterPassive(r)

IsOver(g) == g = None \/ (g \in Generations /\ g # ctl.active /\ runtime[g].pc \in EndPcs)

Phases ==
    /\ admin \in [pc : {"idle", "prepareRollback", "send", "ack", "joinPrevious", "drop"},
                  mirror : Revisions, rev : Revisions,
                  next : GenOrNone, back : GenOrNone, previous : GenOrNone]
    /\ admin.pc = "idle" => admin.next = None /\ admin.back = None
    /\ admin.pc = "prepareRollback" => admin.back = None
    /\ admin.pc \in {"prepareRollback", "send", "ack"} => IsPrepared(admin.next, admin.rev)
    /\ admin.pc \in {"send", "ack", "joinPrevious"} => IsPrepared(admin.back, admin.mirror)
    /\ admin.pc \in {"send", "ack"} => admin.next # admin.back
    /\ admin.pc # "joinPrevious" => admin.previous = None
    /\ admin.pc = "joinPrevious" =>
          /\ admin.previous # None => admin.previous # ctl.active /\ admin.previous # admin.back
    /\ admin.pc = "drop" => IsOver(admin.next) /\ IsOver(admin.back)

(* Its second part holds while the loop runs. *)
Avails ==
    UNION {[K -> {"Disabled", "Unknown", "Healthy", "Unhealthy"}] : K \in SUBSET Upstreams}
Commands ==
    [kind : {"Publish", "Activate"}, rev : Revisions, gen : Generations, avail : Avails]
Messages == [from : Senders, command : Commands]

(* The loop has the new generation, and the controller not yet. *)
Switched == admin.pc = "ack" /\ ack[Operator] = "Accepted"

(* The active runtime is at work; when the loop has left it behind it may  *)
(* have ended on a refusal.                                                *)
ActiveWorks ==
    /\ process.pc = "serving" /\ ctl.active \in Generations
    /\ runtime[ctl.active].pc \in TurnPcs \cup (IF Switched THEN EndPcs ELSE {})
    /\ runtime[ctl.active].pc \in TurnPcs => ~runtime[ctl.active].stop

(* The generations there are, and the order they were allocated in. *)
Lineage ==
    /\ \A g \in Generations :
          g \notin {ctl.active, admin.next, admin.back, admin.previous} => runtime[g] = Absent
    /\ admin.pc \in {"prepareRollback", "send", "ack"} => ctl.active < admin.next
    /\ admin.pc = "joinPrevious" =>
          /\ admin.next = ctl.active /\ admin.previous \in Generations
          /\ admin.previous < ctl.active
          /\ runtime[admin.previous].pc \in {"ackPassive", "complete", "ackProbe"} \cup EndPcs
          /\ runtime[admin.previous].pc \notin EndPcs => runtime[admin.previous].stop

(* Who waits for an answer has one command in the channel, or its answer. *)
Waits ==
    /\ ack \in [Senders -> {"None", "Waiting", "Accepted", "Rejected"}]
    /\ ack[Operator] # "None" => admin.pc = "ack"
    /\ \A g \in Generations : ack[g] # "None" => runtime[g].pc \in {"ackPassive", "ackProbe"}
Queued ==
    /\ channel \in Seq(Messages)
    /\ \A i \in 1 .. Len(channel) : ack[channel[i].from] = "Waiting"
    /\ \A i, j \in 1 .. Len(channel) : channel[i].from = channel[j].from => i = j
    /\ \A x \in Senders : ack[x] = "Waiting" => \E i \in 1 .. Len(channel) : channel[i].from = x

(* What a command in the channel says. *)
Says(m) ==
    /\ m.from = Operator =>
          /\ m.command.kind = "Activate" /\ m.command.rev = admin.rev
          /\ m.command.gen = admin.next
          /\ m.command.avail = AvailabilitySnapshot(runtime[admin.next].sup)
    /\ m.from \in Generations => m.command.kind = "Publish" /\ m.command.gen = m.from
    /\ m.from = ctl.active =>
          m.command = Publish(ctl.active, runtime[ctl.active].sup, runtime[ctl.active].passive)
Said == \A i \in 1 .. Len(channel) : Says(channel[i])

(* What the loop routes by agrees with what a runtime knows. *)
Agrees(avail, s, passive) ==
    \A u \in KeysOf(s.rev) : ~Target[s.rev][u].draining =>
        (Eligible(avail[u]) <=> Eligible(EffectiveAvailability(s, passive)[u]))
LoopFollows ==
    /\ loop = [running |-> loop.running, rev |-> loop.rev, gen |-> loop.gen, avail |-> loop.avail]
    /\ Switched =>
          /\ loop.rev = admin.rev /\ loop.gen = admin.next
          /\ loop.avail = AvailabilitySnapshot(runtime[admin.next].sup)
    /\ ~Switched =>
          /\ loop.rev = runtime[ctl.active].sup.rev /\ loop.gen \in {0, ctl.active}
          /\ admin.pc = "joinPrevious" => loop.gen = ctl.active
          /\ ack[ctl.active] # "Rejected"
          /\ ack[ctl.active] # "Waiting" =>
                Agrees(loop.avail, runtime[ctl.active].sup, runtime[ctl.active].passive)

Always == Runtimes /\ Numbers /\ Phases
WhileRunning == ActiveWorks /\ Lineage /\ Waits /\ Queued /\ Said /\ LoopFollows
HealthInv == Always /\ (loop.running => WhileRunning)

-----------------------------------------------------------------------------
(* A tick.                                                                 *)

(* What an update of a supervisor makes of its fields.                     *)
LEMMA SupRescheduled ==
    ASSUME NEW s, IsSup(s), NEW sch, NEW t, t = [s EXCEPT !.schedule = sch]
    PROVE  t = [rev |-> s.rev, running |-> TRUE, nextProbe |-> s.nextProbe,
                health |-> s.health, schedule |-> sch]
<1>1. PICK a, b, c, d, e :
         s = [rev |-> a, running |-> b, nextProbe |-> c, health |-> d, schedule |-> e]
  BY DEF IsSup
<1>2. t = [rev |-> a, running |-> b, nextProbe |-> c, health |-> d, schedule |-> sch]
  BY <1>1
<1>3. s.running = TRUE
  BY DEF IsSup
<1> QED
  BY <1>1, <1>2, <1>3

(* The same with the next probe identity.                                  *)
LEMMA SupNumbered ==
    ASSUME NEW s, IsSup(s), NEW sch, NEW np,
           NEW t, t = [s EXCEPT !.schedule = sch, !.nextProbe = np]
    PROVE  t = [rev |-> s.rev, running |-> TRUE, nextProbe |-> np,
                health |-> s.health, schedule |-> sch]
<1>1. PICK a, b, c, d, e :
         s = [rev |-> a, running |-> b, nextProbe |-> c, health |-> d, schedule |-> e]
  BY DEF IsSup
<1>2. t = [rev |-> a, running |-> b, nextProbe |-> np, health |-> d, schedule |-> sch]
  BY <1>1
<1>3. s.running = TRUE
  BY DEF IsSup
<1> QED
  BY <1>1, <1>2, <1>3

(* A finite set is put in some order, every member once.                   *)
LEMMA OrderOfSet ==
    ASSUME NEW D, IsFiniteSet(D), NEW o, o = SetToSeq(D)
    PROVE  /\ Cardinality(D) \in Nat
           /\ o \in [1 .. Cardinality(D) -> D]
           /\ \A i, j \in 1 .. Cardinality(D) : o[i] = o[j] => i = j
           /\ \A u \in D : \E i \in 1 .. Cardinality(D) : o[i] = u
<1> DEFINE n == Cardinality(D)
<1>1. n \in Nat /\ ExistsBijection(1 .. n, D)
  BY FS_CardinalityType
<1>2. PICK f : f \in Bijection(1 .. n, D)
  BY <1>1 DEF ExistsBijection
<1>3. f \in [1 .. n -> D] /\ IsInjective(f)
  BY <1>2 DEF Bijection, Injection
<1>4. o \in [1 .. n -> D] /\ IsInjective(o)
  BY <1>3 DEF SetToSeq
<1>5. o \in Injection(1 .. n, D)
  BY <1>4 DEF Injection
<1>6. Cardinality(1 .. n) = n
  BY <1>1, FS_Interval
<1>7. o \in Surjection(1 .. n, D)
  BY <1>5, <1>6, FS_Injection
<1>8. \A u \in D : \E i \in 1 .. n : o[i] = u
  BY <1>7 DEF Surjection
<1>9. \A i, j \in 1 .. n : o[i] = o[j] => i = j
  BY <1>4 DEF IsInjective
<1> QED
  BY <1>1, <1>4, <1>8, <1>9

(* What is due is finite, and nothing of it is in flight.                  *)
LEMMA DueIsFinite ==
    ASSUME NEW s, IsSup(s), NEW due \in DueSets(s)
    PROVE  /\ IsFiniteSet(due)
           /\ due \subseteq KeysOf(s.rev) /\ due \subseteq Upstreams
           /\ \A u \in due : s.schedule[u].st = "Scheduled"
<1>1. DOMAIN s.schedule = KeysOf(s.rev) /\ s.rev \in Revisions
  BY DEF IsSup
<1>2. due \subseteq KeysOf(s.rev) /\ \A u \in due : s.schedule[u].st = "Scheduled"
  BY <1>1 DEF DueSets
<1>3. KeysOf(s.rev) \subseteq Upstreams
  BY <1>1, TargetAssumption DEF KeysOf
<1>4. due \in SUBSET Upstreams /\ IsFiniteSet(Upstreams)
  BY <1>2, <1>3, TargetAssumption
<1>5. IsFiniteSet(due)
  BY <1>4, FS_Subset
<1> QED
  BY <1>2, <1>3, <1>5

(* The work of a tick: every due upstream once, for the revision of the    *)
(* supervisor.                                                             *)
IsWork(s, due, work) ==
    /\ work \in Seq(AnyRequest)
    /\ \A i \in 1 .. Len(work) : work[i].key \in due /\ work[i].rev = s.rev
    /\ \A i, j \in 1 .. Len(work) : work[i].key = work[j].key => i = j
    /\ \A u \in due : \E i \in 1 .. Len(work) : work[i].key = u

(* Requests makes the work of a tick.                                      *)
LEMMA RequestsAreWork ==
    ASSUME NEW s, IsSup(s), NEW due \in DueSets(s), NEW work, work = Requests(s, due)
    PROVE  IsWork(s, due, work)
<1>1. IsFiniteSet(due) /\ due \subseteq Upstreams
  BY DueIsFinite
<1>2. PICK o : o = SetToSeq(due)
  OBVIOUS
<1>3. PICK n : n = Cardinality(due)
  OBVIOUS
<1>4. /\ n \in Nat /\ o \in [1 .. n -> due]
      /\ \A i, j \in 1 .. n : o[i] = o[j] => i = j
      /\ \A u \in due : \E i \in 1 .. n : o[i] = u
  BY <1>1, <1>2, <1>3, OrderOfSet
<1>5. work = [i \in 1 .. n |-> [key |-> o[i], id |-> (s.nextProbe + i - 1) % IdSpace, rev |-> s.rev]]
  BY <1>2, <1>3 DEF Requests
<1>6. s.nextProbe \in Nat /\ IdSpace \in Nat \ {0} /\ s.rev \in Revisions
  BY TargetAssumption DEF IsSup, ProbeIds
<1>7. \A i \in 1 .. n : (s.nextProbe + i - 1) % IdSpace \in ProbeIds
  BY <1>4, <1>6 DEF ProbeIds
<1>8. \A i \in 1 .. n : work[i] \in AnyRequest /\ work[i].key = o[i] /\ work[i].rev = s.rev
  BY <1>1, <1>4, <1>5, <1>6, <1>7 DEF AnyRequest
<1>9. work \in [1 .. n -> AnyRequest]
  BY <1>5, <1>8
<1>10. work \in Seq(AnyRequest) /\ Len(work) = n
  BY <1>4, <1>9
<1> QED
  BY <1>4, <1>8, <1>10 DEF IsWork

(* The supervisor has the work in flight.                                  *)
LEMMA TakenWork ==
    ASSUME NEW s, IsSup(s), NEW due \in DueSets(s), NEW work, IsWork(s, due, work),
           NEW t, t = TakeDue(s, work)
    PROVE  /\ IsSup(t) /\ t.rev = s.rev /\ t.health = s.health
           /\ \A i \in 1 .. Len(work) : t.schedule[work[i].key] = InFlight(work[i].id)
           /\ \A u \in KeysOf(s.rev) : u \notin due => t.schedule[u] = s.schedule[u]
<1>1. /\ s = [rev |-> s.rev, running |-> TRUE, nextProbe |-> s.nextProbe,
              health |-> s.health, schedule |-> s.schedule]
      /\ s.rev \in Revisions /\ s.nextProbe \in ProbeIds
      /\ s.health \in [KeysOf(s.rev) -> HealthStates]
      /\ s.schedule \in [KeysOf(s.rev) -> ScheduleStates]
  BY DEF IsSup
<1>2. PICK sch : sch = [u \in KeysOf(s.rev) |->
          IF \E i \in 1 .. Len(work) : work[i].key = u
          THEN InFlight(work[CHOOSE i \in 1 .. Len(work) : work[i].key = u].id) ELSE s.schedule[u]]
  OBVIOUS
<1>3. PICK np : np = (s.nextProbe + Len(work)) % IdSpace
  OBVIOUS
<1>4. DOMAIN work = 1 .. Len(work) /\ DOMAIN s.schedule = KeysOf(s.rev) /\ Len(work) \in Nat
  BY <1>1 DEF IsWork
<1>5. t = [s EXCEPT !.schedule = sch, !.nextProbe = np]
  BY <1>2, <1>3, <1>4 DEF TakeDue
<1>6. t = [rev |-> s.rev, running |-> TRUE, nextProbe |-> np, health |-> s.health, schedule |-> sch]
  BY <1>5, SupNumbered
<1>7. np \in ProbeIds
  BY <1>1, <1>3, <1>4, TargetAssumption DEF ProbeIds
<1>8. due \subseteq KeysOf(s.rev)
  BY DueIsFinite
<1>9. \A i \in 1 .. Len(work) : /\ work[i].key \in due /\ work[i].id \in ProbeIds
                               /\ \A j \in 1 .. Len(work) : work[j].key = work[i].key => i = j
  <2>1. \A i \in 1 .. Len(work) : work[i] \in AnyRequest
    BY ElementOfSeq DEF IsWork
  <2> QED
    BY <2>1 DEF IsWork, AnyRequest
<1>10. \A i \in 1 .. Len(work) : sch[work[i].key] = InFlight(work[i].id)
  <2> TAKE i \in 1 .. Len(work)
  <2>1. (CHOOSE j \in 1 .. Len(work) : work[j].key = work[i].key) = i
    BY <1>9
  <2> QED
    BY <1>2, <1>8, <1>9, <2>1
<1>11. \A u \in KeysOf(s.rev) : u \notin due => sch[u] = s.schedule[u]
  BY <1>2, <1>9
<1>12. \A id \in ProbeIds : InFlight(id) \in ScheduleStates
  BY DEF InFlight, ScheduleStates
<1>13. \A u \in KeysOf(s.rev) : sch[u] \in ScheduleStates
  <2> TAKE u \in KeysOf(s.rev)
  <2>1. CASE u \in due
    <3>1. PICK i \in 1 .. Len(work) : work[i].key = u
      BY <2>1 DEF IsWork
    <3> QED
      BY <3>1, <1>9, <1>10, <1>12
  <2>2. CASE u \notin due
    BY <2>2, <1>1, <1>11
  <2> QED
    BY <2>1, <2>2
<1>14. sch \in [KeysOf(s.rev) -> ScheduleStates]
  BY <1>2, <1>13
<1>15. IsSup(t)
  BY <1>1, <1>6, <1>7, <1>14 DEF IsSup
<1> QED
  BY <1>6, <1>10, <1>11, <1>15

(* The supervisor d is s with the first n of the work in flight.           *)
Dispatched(s, due, work, n, d) ==
    /\ d.rev = s.rev /\ d.health = s.health
    /\ \A i \in 1 .. n : d.schedule[work[i].key] = InFlight(work[i].id)
    /\ \A i \in n + 1 .. Len(work) : d.schedule[work[i].key].st = "Scheduled"
    /\ \A u \in KeysOf(s.rev) : u \notin due => d.schedule[u] = s.schedule[u]

(* What the pool took, the first n of the work, is in flight; the rest is  *)
(* scheduled as before.                                                    *)
LEMMA RejectedWork ==
    ASSUME NEW s, IsSup(s), NEW due \in DueSets(s), NEW work, IsWork(s, due, work),
           NEW n \in 0 .. Len(work), NEW t, t = TakeDue(s, work),
           NEW refused, refused = {work[i] : i \in n + 1 .. Len(work)},
           NEW d, d = DispatchRejected(t, refused)
    PROVE  IsSup(d) /\ Dispatched(s, due, work, n, d)
<1>1. /\ IsSup(t) /\ t.rev = s.rev /\ t.health = s.health
      /\ \A i \in 1 .. Len(work) : t.schedule[work[i].key] = InFlight(work[i].id)
      /\ \A u \in KeysOf(s.rev) : u \notin due => t.schedule[u] = s.schedule[u]
  BY TakenWork
<1>2. /\ t = [rev |-> s.rev, running |-> TRUE, nextProbe |-> t.nextProbe,
              health |-> t.health, schedule |-> t.schedule]
      /\ s.rev \in Revisions /\ t.nextProbe \in ProbeIds
      /\ t.health \in [KeysOf(s.rev) -> HealthStates]
      /\ t.schedule \in [KeysOf(s.rev) -> ScheduleStates]
  BY <1>1 DEF IsSup
<1>3. PICK sch : sch = [u \in KeysOf(s.rev) |->
          IF \E q \in refused : q.key = u /\ ValidProbe(t, q) THEN Schedule("Scheduled")
          ELSE t.schedule[u]]
  OBVIOUS
<1>4. DOMAIN t.schedule = KeysOf(s.rev) /\ t.running /\ Len(work) \in Nat
  BY <1>2 DEF IsWork
<1>5. d = [t EXCEPT !.schedule = sch]
  BY <1>3, <1>4 DEF DispatchRejected
<1>6. d = [rev |-> s.rev, running |-> TRUE, nextProbe |-> t.nextProbe, health |-> t.health,
           schedule |-> sch]
  <2>0. IsSup(t)
    BY <1>1
  <2>1. d = [rev |-> t.rev, running |-> TRUE, nextProbe |-> t.nextProbe, health |-> t.health,
             schedule |-> sch]
    BY <2>0, <1>5, SupRescheduled
  <2> QED
    BY <1>1, <2>1
<1>7. due \subseteq KeysOf(s.rev)
  BY DueIsFinite
<1>8. \A i \in 1 .. Len(work) : /\ work[i].key \in due /\ work[i].rev = s.rev
                               /\ \A j \in 1 .. Len(work) : work[j].key = work[i].key => i = j
  BY DEF IsWork
<1>9. \A i \in 1 .. n : sch[work[i].key] = InFlight(work[i].id)
  <2> TAKE i \in 1 .. n
  <2>1. i \in 1 .. Len(work) /\ \A j \in n + 1 .. Len(work) : j \in 1 .. Len(work) /\ i # j
    BY <1>4
  <2>2. ~\E q \in refused : q.key = work[i].key
    BY <1>8, <2>1
  <2> QED
    BY <1>1, <1>3, <1>7, <1>8, <2>1, <2>2
<1>10. \A i \in n + 1 .. Len(work) : sch[work[i].key].st = "Scheduled"
  <2> TAKE i \in n + 1 .. Len(work)
  <2>1. i \in 1 .. Len(work) /\ work[i] \in refused
    BY <1>4
  <2>2. ValidProbe(t, work[i])
    BY <1>1, <1>4, <1>7, <1>8, <2>1 DEF ValidProbe
  <2>3. sch[work[i].key] = Schedule("Scheduled")
    BY <1>3, <1>7, <1>8, <2>1, <2>2
  <2> QED
    BY <2>3 DEF Schedule
<1>11. \A u \in KeysOf(s.rev) : u \notin due => sch[u] = s.schedule[u]
  <2> TAKE u \in KeysOf(s.rev)
  <2>1. ASSUME u \notin due
        PROVE  ~\E q \in refused : q.key = u
    <3>1. \A i \in n + 1 .. Len(work) : i \in 1 .. Len(work)
      BY <1>4
    <3> QED
      BY <1>8, <2>1, <3>1
  <2> QED
    BY <1>1, <1>3, <2>1
<1>12. Schedule("Scheduled") \in ScheduleStates
  BY TargetAssumption DEF Schedule, ScheduleStates, ProbeIds
<1>13. sch \in [KeysOf(s.rev) -> ScheduleStates]
  BY <1>2, <1>3, <1>12
<1>14. /\ d.rev = s.rev /\ d.running = TRUE /\ d.nextProbe = t.nextProbe
       /\ d.health = t.health /\ d.schedule = sch
  BY <1>6
<1>15. d = [rev |-> d.rev, running |-> TRUE, nextProbe |-> d.nextProbe, health |-> d.health,
            schedule |-> d.schedule]
  BY <1>6, <1>14
<1>16. IsSup(d)
  BY <1>2, <1>13, <1>14, <1>15 DEF IsSup
<1> QED
  BY <1>1, <1>9, <1>10, <1>11, <1>14, <1>16 DEF Dispatched

(* The fields of a pool.                                                   *)
LEMMA PoolFields ==
    ASSUME NEW p, IsPool(p)
    PROVE  /\ p = [queue |-> p.queue, busy |-> p.busy, done |-> p.done,
                   accepting |-> p.accepting, outstanding |-> p.outstanding]
           /\ p.queue \in Seq(AnyRequest) /\ p.busy \in [Workers -> AnyRequest \cup {Free}]
           /\ p.done \in Seq(Completions) /\ p.accepting \in BOOLEAN /\ p.outstanding \in Nat
           /\ Len(p.queue) \in Nat /\ Len(p.done) \in Nat
BY DEF IsPool

(* The pool r is p with the first n of the work at the end of the queue.   *)
Submitted(p, work, n, r) ==
    /\ r.busy = p.busy /\ r.done = p.done /\ r.accepting = p.accepting
    /\ r.outstanding = p.outstanding + n /\ r.outstanding <= Capacity
    /\ Len(r.queue) = Len(p.queue) + n
    /\ \A i \in 1 .. Len(p.queue) : r.queue[i] = p.queue[i]
    /\ \A i \in Len(p.queue) + 1 .. Len(p.queue) + n : r.queue[i] = work[i - Len(p.queue)]

(* What is submitted comes to the end of the queue, as far as there is     *)
(* room.                                                                   *)
LEMMA SubmittedWork ==
    ASSUME NEW p, IsPool(p), Counted(p), NEW work \in Seq(AnyRequest),
           NEW n, n = Accepts(p, work), NEW r, r = Submit(p, work)
    PROVE  IsPool(r) /\ n \in 0 .. Len(work) /\ Submitted(p, work, n, r)
<1>1. /\ p.queue \in Seq(AnyRequest) /\ p.outstanding \in Nat
      /\ Len(p.queue) \in Nat /\ Len(work) \in Nat /\ Capacity \in Nat
  BY PoolFields, TargetAssumption
<1>2. n \in 0 .. Len(work) /\ p.outstanding + n <= Capacity
  BY <1>1 DEF Accepts, Counted
<1>3. PICK w : w = SubSeq(work, 1, n)
  OBVIOUS
<1>4. \A i \in 1 .. n : i \in 1 .. Len(work)
  BY <1>1, <1>2
<1>5. \A i \in 1 .. n : work[i] \in AnyRequest
  BY <1>4, ElementOfSeq
<1>6. w \in Seq(AnyRequest) /\ Len(w) = n /\ \A i \in 1 .. n : w[i] = work[i]
  BY <1>2, <1>3, <1>5, SubSeqProperties
<1>7. PICK q : q = p.queue \o w
  OBVIOUS
<1>8. /\ q \in Seq(AnyRequest) /\ Len(q) = Len(p.queue) + Len(w)
      /\ \A i \in 1 .. Len(p.queue) + Len(w) :
             q[i] = IF i <= Len(p.queue) THEN p.queue[i] ELSE w[i - Len(p.queue)]
  BY <1>1, <1>6, <1>7, ConcatProperties
<1>9. r = [p EXCEPT !.outstanding = @ + n, !.queue = q]
  BY <1>3, <1>7 DEF Submit
<1>10. IsPool(r) /\ r.queue = q /\ r.busy = p.busy /\ r.done = p.done
       /\ r.accepting = p.accepting /\ r.outstanding = p.outstanding + n
  <2>1. PICK a, b, c, d, e : p = [queue |-> a, busy |-> b, done |-> c,
                                  accepting |-> d, outstanding |-> e]
    BY PoolFields
  <2>2. r = [queue |-> q, busy |-> b, done |-> c, accepting |-> d, outstanding |-> e + n]
    BY <2>1, <1>9
  <2>3. /\ b \in [Workers -> AnyRequest \cup {Free}] /\ c \in Seq(Completions)
        /\ d \in BOOLEAN /\ e \in Nat
    BY <2>1, PoolFields
  <2>4. e + n \in Nat
    BY <2>3, <1>1, <1>2
  <2>5. IsPool(r)
    BY <2>2, <2>3, <2>4, <1>8 DEF IsPool
  <2> QED
    BY <2>1, <2>2, <2>5
<1>11. \A i \in 1 .. Len(p.queue) : q[i] = p.queue[i]
  BY <1>1, <1>2, <1>6, <1>8
<1>12. \A i \in Len(p.queue) + 1 .. Len(p.queue) + n : q[i] = work[i - Len(p.queue)]
  <2> DEFINE m == Len(p.queue)
  <2> SUFFICES ASSUME NEW i \in m + 1 .. m + n PROVE q[i] = work[i - m]
    OBVIOUS
  <2>1. m \in Nat /\ n \in Nat
    BY <1>1, <1>2
  <2>2. \A x \in 1 .. m + n : q[x] = IF x <= m THEN p.queue[x] ELSE w[x - m]
    BY <1>6, <1>8
  <2> HIDE DEF m
  <2>3. i \in 1 .. m + n /\ ~(i <= m) /\ i - m \in 1 .. n
    BY <2>1
  <2> QED
    BY <2>2, <2>3, <1>6
<1> QED
  BY <1>2, <1>6, <1>8, <1>10, <1>11, <1>12 DEF Submitted

(* The count of a pool depends on these three.                             *)
LEMMA CountAfter ==
    ASSUME NEW p, NEW r, r.busy = p.busy
    PROVE  Busy(r) = Busy(p)
BY DEF Busy

(* Workers are finitely many, so are the busy ones.                        *)
LEMMA BusyIsNat ==
    ASSUME NEW p, IsPool(p)
    PROVE  /\ IsFiniteSet({w \in Workers : p.busy[w] # Free})
           /\ Busy(p) = Cardinality({w \in Workers : p.busy[w] # Free}) /\ Busy(p) \in Nat
<1>1. {w \in Workers : p.busy[w] # Free} \in SUBSET Workers /\ IsFiniteSet(Workers)
  BY TargetAssumption
<1>2. IsFiniteSet({w \in Workers : p.busy[w] # Free})
  BY <1>1, FS_Subset
<1> QED
  BY <1>2, FS_CardinalityType DEF Busy

(* A tick keeps the books.                                                 *)
LEMMA TickKeepsBooks ==
    ASSUME NEW s, IsSup(s), NEW p, IsPool(p), Kept(s, p),
           NEW due \in DueSets(s), NEW work, IsWork(s, due, work),
           NEW n \in 0 .. Len(work),
           NEW d, IsSup(d), Dispatched(s, due, work, n, d),
           NEW r, IsPool(r), Submitted(p, work, n, r)
    PROVE  Kept(d, r)
<1> USE DEF Dispatched, Submitted
<1> DEFINE m == Len(p.queue)
           l == Len(work)
           k == Len(p.done)
<1>1. m \in Nat /\ l \in Nat /\ k \in Nat /\ n \in Nat /\ n <= l
  BY PoolFields DEF IsWork
<1>2. due \subseteq KeysOf(s.rev) /\ \A u \in due : s.schedule[u].st = "Scheduled"
  BY DueIsFinite
<1>3. /\ \A i \in 1 .. l : work[i].key \in due /\ work[i].rev = s.rev
      /\ \A i, j \in 1 .. l : work[i].key = work[j].key => i = j
      /\ \A u \in due : \E i \in 1 .. l : work[i].key = u
  BY DEF IsWork
<1>4. \A q : InPlace(s, q) => InPlace(d, q) /\ q.key \notin due
  BY <1>2 DEF InPlace, InFlight
<1>5. \A i \in 1 .. m + n : \/ i \in 1 .. m /\ r.queue[i] = p.queue[i]
                            \/ /\ i \in m + 1 .. m + n /\ i - m \in 1 .. n /\ i - m \in 1 .. l
                               /\ r.queue[i] = work[i - m]
  <2>1. /\ \A i \in 1 .. m : r.queue[i] = p.queue[i]
        /\ \A i \in m + 1 .. m + n : r.queue[i] = work[i - m]
    OBVIOUS
  <2> HIDE DEF m, l
  <2>2. \A i \in 1 .. m + n : \/ i \in 1 .. m
                              \/ i \in m + 1 .. m + n /\ i - m \in 1 .. n /\ i - m \in 1 .. l
    BY <1>1
  <2> QED
    BY <2>1, <2>2
<1>6. Len(r.queue) = m + n
  OBVIOUS
<1>7. /\ \A i \in 1 .. m : InPlace(s, p.queue[i])
      /\ \A w \in Workers : p.busy[w] # Free => InPlace(s, p.busy[w])
      /\ \A i \in 1 .. k : InPlace(s, p.done[i].request)
  BY DEF Kept, Placed
<1>8. \A i \in 1 .. n : i \in 1 .. l /\ InPlace(d, work[i])
  BY <1>1, <1>2, <1>3 DEF InPlace
<1> HIDE DEF m, l, k
<1>9. Placed(d, r)
  <2>1. \A i \in 1 .. m + n : InPlace(d, r.queue[i])
    BY <1>4, <1>5, <1>7, <1>8
  <2> QED
    BY <2>1, <1>4, <1>6, <1>7 DEF Placed, k
<1>10. Apart(r)
  <2>1. /\ \A i, j \in 1 .. m : p.queue[i].key = p.queue[j].key => i = j
        /\ \A i \in 1 .. m, w \in Workers : p.busy[w] # Free => p.busy[w].key # p.queue[i].key
        /\ \A i \in 1 .. m, j \in 1 .. k : p.queue[i].key # p.done[j].request.key
    BY DEF Kept, Apart, m, k
  <2>2. /\ \A i \in 1 .. m : p.queue[i].key \notin due
        /\ \A w \in Workers : p.busy[w] # Free => p.busy[w].key \notin due
        /\ \A i \in 1 .. k : p.done[i].request.key \notin due
    BY <1>4, <1>7
  <2>a. \A i \in 1 .. m : r.queue[i].key \notin due
    BY <2>2 DEF m
  <2>b. \A i \in 1 .. m + n : i \notin 1 .. m => r.queue[i].key \in due
    BY <1>3, <1>5
  <2>3. \A i, j \in 1 .. m + n : r.queue[i].key = r.queue[j].key => i = j
    <3> SUFFICES ASSUME NEW i \in 1 .. m + n, NEW j \in 1 .. m + n,
                        r.queue[i].key = r.queue[j].key
                 PROVE  i = j
      OBVIOUS
    <3>1. CASE i \in 1 .. m /\ j \in 1 .. m
      BY <3>1, <1>1, <1>5, <2>1
    <3>2. CASE i \notin 1 .. m /\ j \notin 1 .. m
      <4>1. i - m \in 1 .. l /\ j - m \in 1 .. l /\ work[i - m].key = work[j - m].key
        BY <3>2, <1>5
      <4>2. i - m = j - m
        BY <4>1, <1>3
      <4> QED
        BY <4>2, <1>1
    <3>3. CASE i \in 1 .. m /\ j \notin 1 .. m
      BY <3>3, <2>a, <2>b
    <3>4. CASE i \notin 1 .. m /\ j \in 1 .. m
      BY <3>4, <2>a, <2>b
    <3> QED
      BY <3>1, <3>2, <3>3, <3>4
  <2>4. \A i \in 1 .. m + n, w \in Workers : p.busy[w] # Free => p.busy[w].key # r.queue[i].key
    BY <1>3, <1>5, <2>1, <2>2
  <2>5. \A i \in 1 .. m + n, j \in 1 .. k : r.queue[i].key # p.done[j].request.key
    BY <1>3, <1>5, <2>1, <2>2, SMTT(30)
  <2> QED
    BY <2>3, <2>4, <2>5, <1>6 DEF Kept, Apart, k
<1>11. Covered(d, r)
  <2> SUFFICES ASSUME NEW u \in KeysOf(s.rev), d.schedule[u].st = "InFlight"
               PROVE  Holds(r, u)
    BY DEF Covered
  <2>1. CASE u \in due
    <3>1. PICK i \in 1 .. l : work[i].key = u
      BY <2>1, <1>3
    <3>2. i \in 1 .. n
      BY <3>1, <1>1 DEF l
    <3>3. i + m \in 1 .. m + n /\ i + m \in m + 1 .. m + n /\ (i + m) - m = i
      BY <3>2, <1>1
    <3>4. r.queue[i + m].key = u
      BY <3>1, <3>3 DEF m
    <3> QED
      BY <3>3, <3>4, <1>6 DEF Holds
  <2>2. CASE u \notin due
    <3>1. Holds(p, u)
      BY <2>2 DEF Kept, Covered
    <3>2. \A i \in 1 .. m : i \in 1 .. m + n /\ r.queue[i] = p.queue[i]
      BY <1>1 DEF m
    <3> QED
      BY <3>1, <3>2, <1>6 DEF Holds, m
  <2> QED
    BY <2>1, <2>2
<1>12. Counted(r)
  <2>1. Busy(r) = Busy(p) /\ Busy(p) \in Nat
    BY CountAfter, BusyIsNat
  <2>2. p.outstanding = m + Busy(p) + k
    BY DEF Kept, Counted, m, k
  <2>3. /\ r.outstanding = p.outstanding + n /\ r.outstanding <= Capacity
        /\ Len(r.queue) = m + n /\ Len(r.done) = k
    BY <1>6 DEF k
  <2>4. r.outstanding = (m + n) + Busy(r) + k
    BY <2>1, <2>2, <2>3, <1>1
  <2> QED
    BY <2>3, <2>4 DEF Counted
<1> QED
  BY <1>9, <1>10, <1>11, <1>12 DEF Kept

(* HandleTick of a running supervisor and an accepting pool keeps the      *)
(* books, and what is known of the upstreams.                              *)
LEMMA TickIsKept ==
    ASSUME NEW s, IsSup(s), NEW p, IsPool(p), p.accepting, Kept(s, p),
           NEW due \in DueSets(s), NEW t, t = HandleTick(s, p, due)
    PROVE  /\ IsSup(t.sup) /\ t.sup.rev = s.rev /\ t.sup.health = s.health
           /\ IsPool(t.pool) /\ t.pool.accepting /\ Kept(t.sup, t.pool)
<1>1. CASE due = {}
  <2>1. t = [sup |-> s, pool |-> p]
    BY <1>1 DEF HandleTick
  <2> QED
    BY <2>1
<1>2. CASE due # {}
  <2>1. PICK work : work = Requests(s, due)
    OBVIOUS
  <2>2. IsWork(s, due, work)
    BY <2>1, RequestsAreWork
  <2>3. PICK n : n = Accepts(p, work)
    OBVIOUS
  <2>4. PICK r : r = Submit(p, work)
    OBVIOUS
  <2>5. PICK taken : taken = TakeDue(s, work)
    OBVIOUS
  <2>6. PICK refused : refused = {work[i] : i \in n + 1 .. Len(work)}
    OBVIOUS
  <2>7. PICK d : d = DispatchRejected(taken, refused)
    OBVIOUS
  <2>8. t = [sup |-> d, pool |-> r]
    BY <1>2, <2>1, <2>3, <2>4, <2>5, <2>6, <2>7 DEF HandleTick
  <2>9. work \in Seq(AnyRequest) /\ Counted(p)
    BY <2>2 DEF IsWork, Kept
  <2>10. IsPool(r) /\ n \in 0 .. Len(work) /\ Submitted(p, work, n, r)
    BY <2>3, <2>4, <2>9, SubmittedWork
  <2>11. IsSup(d) /\ Dispatched(s, due, work, n, d)
    BY <2>2, <2>5, <2>6, <2>7, <2>10, RejectedWork
  <2>12. Kept(d, r)
    BY <2>2, <2>10, <2>11, TickKeepsBooks
  <2>13. t.sup = d /\ t.pool = r
    BY <2>8
  <2>14. r.accepting /\ d.rev = s.rev /\ d.health = s.health
    BY <2>10, <2>11 DEF Dispatched, Submitted
  <2> QED
    BY <2>10, <2>11, <2>12, <2>13, <2>14
<1> QED
  BY <1>1, <1>2

-----------------------------------------------------------------------------
(* The workers.                                                            *)

(* A request is not the mark of a free worker.                             *)
LEMMA FreeIsNoRequest ==
    \A q \in AnyRequest : q # Free
<1> TAKE q \in AnyRequest
<1>1. q.id \in ProbeIds /\ Free.id = IdSpace
  BY DEF AnyRequest, Free
<1>2. q.id # IdSpace
  BY <1>1, TargetAssumption DEF ProbeIds
<1> QED
  BY <1>1, <1>2

(* One more worker is busy.                                                *)
LEMMA OneMoreBusy ==
    ASSUME NEW p, IsPool(p), NEW r, IsPool(r), NEW w \in Workers,
           p.busy[w] = Free, r.busy[w] # Free, \A v \in Workers : v # w => r.busy[v] = p.busy[v]
    PROVE  Busy(r) = Busy(p) + 1
<1> DEFINE B == {v \in Workers : p.busy[v] # Free}
<1>1. {v \in Workers : r.busy[v] # Free} = B \cup {w} /\ w \notin B
  OBVIOUS
<1>2. IsFiniteSet(B) /\ Busy(p) = Cardinality(B)
  BY BusyIsNat
<1>3. Busy(r) = Cardinality(B \cup {w})
  BY <1>1 DEF Busy
<1>4. Cardinality(B \cup {w}) = Cardinality(B) + 1
  BY <1>1, <1>2, FS_AddElement
<1> QED
  BY <1>2, <1>3, <1>4

(* In the pool r the worker w has the head of the queue of p.              *)
Handed(p, w, r) ==
    /\ r.accepting = p.accepting /\ r.outstanding = p.outstanding /\ r.done = p.done
    /\ p.queue[1] # Free /\ p.busy[w] = Free
    /\ r.busy = [p.busy EXCEPT ![w] = p.queue[1]]
    /\ Len(p.queue) \in Nat \ {0} /\ Len(r.queue) = Len(p.queue) - 1
    /\ \A i \in 1 .. Len(p.queue) - 1 : r.queue[i] = p.queue[i + 1]

(* A worker takes the head of the queue: its upstream stays in flight.     *)
LEMMA WorkIsTaken ==
    ASSUME NEW p, IsPool(p), NEW w \in Workers, CanTake(p, w), NEW r, r = TakeWork(p, w)
    PROVE  IsPool(r) /\ Handed(p, w, r) /\ (Counted(p) => Counted(r))
<1>1. /\ p.queue \in Seq(AnyRequest) /\ p.busy \in [Workers -> AnyRequest \cup {Free}]
      /\ p.done \in Seq(Completions) /\ p.accepting \in BOOLEAN /\ p.outstanding \in Nat
      /\ Len(p.queue) \in Nat /\ Len(p.done) \in Nat /\ p.queue # <<>> /\ p.busy[w] = Free
  BY PoolFields DEF CanTake
<1>2. PICK h : h = Head(p.queue)
  OBVIOUS
<1>3. PICK q : q = Tail(p.queue)
  OBVIOUS
<1>4. /\ h \in AnyRequest /\ h = p.queue[1] /\ q \in Seq(AnyRequest) /\ Len(q) = Len(p.queue) - 1
      /\ \A i \in 1 .. Len(q) : q[i] = p.queue[i + 1]
  BY <1>1, <1>2, <1>3, HeadTailProperties
<1>5. Len(p.queue) \in Nat \ {0}
  BY <1>1, EmptySeq
<1>6. PICK b : b = [p.busy EXCEPT ![w] = h]
  OBVIOUS
<1>7. b \in [Workers -> AnyRequest \cup {Free}] /\ b[w] = h /\ \A v \in Workers : v # w => b[v] = p.busy[v]
  BY <1>1, <1>4, <1>6
<1>8. r = [p EXCEPT !.busy = b, !.queue = q]
  BY <1>2, <1>3, <1>6 DEF TakeWork
<1>9. IsPool(r) /\ r.queue = q /\ r.busy = b /\ r.done = p.done
      /\ r.accepting = p.accepting /\ r.outstanding = p.outstanding
  <2>1. PICK x, y, z, a, o : p = [queue |-> x, busy |-> y, done |-> z,
                                  accepting |-> a, outstanding |-> o]
    BY PoolFields
  <2>2. r = [queue |-> q, busy |-> b, done |-> z, accepting |-> a, outstanding |-> o]
    BY <2>1, <1>8
  <2>3. z \in Seq(Completions) /\ a \in BOOLEAN /\ o \in Nat
    BY <2>1, <1>1
  <2>4. IsPool(r)
    BY <2>2, <2>3, <1>4, <1>7 DEF IsPool
  <2> QED
    BY <2>1, <2>2, <2>4
<1>10. h # Free
  BY <1>4, FreeIsNoRequest
<1>11. Busy(r) = Busy(p) + 1 /\ Busy(p) \in Nat
  BY <1>1, <1>7, <1>9, <1>10, OneMoreBusy, BusyIsNat
<1>12. Counted(p) => Counted(r)
  <2>1. /\ r.outstanding = p.outstanding /\ Len(r.queue) = Len(p.queue) - 1
        /\ Len(r.done) = Len(p.done)
    BY <1>4, <1>9
  <2> QED
    BY <2>1, <1>1, <1>5, <1>11 DEF Counted
<1> QED
  BY <1>1, <1>4, <1>5, <1>6, <1>9, <1>10, <1>12 DEF Handed

(* ... and the books are kept.                                             *)
LEMMA TakenIsKept ==
    ASSUME NEW p, IsPool(p), NEW w \in Workers, CanTake(p, w), NEW r, r = TakeWork(p, w),
           NEW s, Kept(s, p)
    PROVE  Kept(s, r)
<1> DEFINE m == Len(p.queue)
           k == Len(p.done)
           h == p.queue[1]
<1>1. /\ IsPool(r) /\ r.done = p.done /\ h # Free
      /\ r.busy = [p.busy EXCEPT ![w] = h] /\ p.busy[w] = Free
      /\ m \in Nat \ {0} /\ Len(r.queue) = m - 1
      /\ \A i \in 1 .. m - 1 : r.queue[i] = p.queue[i + 1]
  <2>1. IsPool(r) /\ Handed(p, w, r)
    BY WorkIsTaken
  <2> QED
    BY <2>1 DEF Handed
<1>2. Counted(r)
  BY WorkIsTaken DEF Kept
<1>3. p.busy \in [Workers -> AnyRequest \cup {Free}] /\ k \in Nat
  BY PoolFields
<1>4. r.busy[w] = h /\ \A v \in Workers : v # w => r.busy[v] = p.busy[v]
  BY <1>1, <1>3
<1>5. /\ \A i \in 1 .. m : InPlace(s, p.queue[i])
      /\ \A v \in Workers : p.busy[v] # Free => InPlace(s, p.busy[v])
      /\ \A i \in 1 .. k : InPlace(s, p.done[i].request)
  BY DEF Kept, Placed
<1>6. Apart(p)
  BY DEF Kept
<1>7. /\ \A i, j \in 1 .. m : p.queue[i].key = p.queue[j].key => i = j
      /\ \A v, x \in Workers :
            p.busy[v] # Free /\ p.busy[x] # Free /\ p.busy[v].key = p.busy[x].key => v = x
      /\ \A i, j \in 1 .. k : p.done[i].request.key = p.done[j].request.key => i = j
      /\ \A i \in 1 .. m, v \in Workers : p.busy[v] # Free => p.busy[v].key # p.queue[i].key
      /\ \A i \in 1 .. m, j \in 1 .. k : p.queue[i].key # p.done[j].request.key
      /\ \A j \in 1 .. k, v \in Workers : p.busy[v] # Free => p.busy[v].key # p.done[j].request.key
  BY <1>6 DEF Apart
<1>8. Len(r.done) = k
  BY <1>1
<1>h. h = p.queue[1]
  OBVIOUS
<1> HIDE DEF m, k, h
<1>9. 1 \in 1 .. m /\ \A i \in 1 .. m - 1 : i + 1 \in 1 .. m /\ i + 1 # 1
  BY <1>1
<1>10. Placed(s, r)
  BY <1>1, <1>h, <1>4, <1>5, <1>8, <1>9 DEF Placed
<1>11. Apart(r)
  <2>1. \A i, j \in 1 .. m - 1 : r.queue[i].key = r.queue[j].key => i = j
    <3> SUFFICES ASSUME NEW i \in 1 .. m - 1, NEW j \in 1 .. m - 1, r.queue[i].key = r.queue[j].key
                 PROVE  i = j
      OBVIOUS
    <3>1. i + 1 = j + 1
      BY <1>1, <1>7, <1>9, SMTT(30)
    <3> QED
      BY <3>1, <1>1
  <2>2. \A i \in 1 .. m - 1 : r.queue[i].key # h.key
    BY <1>1, <1>h, <1>7, <1>9
  <2>3. \A v, x \in Workers :
            r.busy[v] # Free /\ r.busy[x] # Free /\ r.busy[v].key = r.busy[x].key => v = x
    BY <1>h, <1>4, <1>7, <1>9
  <2>4. \A i \in 1 .. m - 1, v \in Workers : r.busy[v] # Free => r.busy[v].key # r.queue[i].key
    BY <1>1, <1>4, <1>7, <1>9, <2>2
  <2>5. \A i \in 1 .. m - 1, j \in 1 .. k : r.queue[i].key # r.done[j].request.key
    BY <1>1, <1>7, <1>9
  <2>6. \A j \in 1 .. k, v \in Workers : r.busy[v] # Free => r.busy[v].key # r.done[j].request.key
    BY <1>1, <1>h, <1>4, <1>7, <1>9
  <2>7. \A i, j \in 1 .. k : r.done[i].request.key = r.done[j].request.key => i = j
    BY <1>1, <1>7
  <2>8. Len(r.queue) = m - 1
    BY <1>1
  <2> QED
    BY <2>1, <2>3, <2>4, <2>5, <2>6, <2>7, <2>8, <1>8 DEF Apart
<1>12. Covered(s, r)
  <2> SUFFICES ASSUME NEW u \in KeysOf(s.rev), s.schedule[u].st = "InFlight"
               PROVE  Holds(r, u)
    BY DEF Covered
  <2>1. Holds(p, u)
    BY DEF Kept, Covered
  <2>2. CASE \E i \in 1 .. m : p.queue[i].key = u
    <3>1. PICK i \in 1 .. m : p.queue[i].key = u
      BY <2>2
    <3>2. CASE i = 1
      BY <3>1, <3>2, <1>1, <1>h, <1>4 DEF Holds
    <3>3. CASE i # 1
      <4>1. i - 1 \in 1 .. m - 1 /\ (i - 1) + 1 = i
        BY <3>3, <1>1
      <4>2. r.queue[i - 1].key = u /\ Len(r.queue) = m - 1
        BY <3>1, <4>1, <1>1
      <4> QED
        BY <4>1, <4>2 DEF Holds
    <3> QED
      BY <3>2, <3>3
  <2>3. CASE \E v \in Workers : p.busy[v] # Free /\ p.busy[v].key = u
    BY <2>3, <1>1, <1>4 DEF Holds
  <2>4. CASE \E i \in 1 .. k : p.done[i].request.key = u
    BY <2>4, <1>1, <1>8 DEF Holds
  <2> QED
    BY <2>1, <2>2, <2>3, <2>4 DEF Holds, m, k
<1> QED
  BY <1>2, <1>10, <1>11, <1>12 DEF Kept

(* In the pool r the worker w is free and what it had is at the end of the *)
(* completion channel.                                                     *)
Finished(p, w, r) ==
    /\ r.accepting = p.accepting /\ r.outstanding = p.outstanding /\ r.queue = p.queue
    /\ p.busy[w] # Free /\ r.busy = [p.busy EXCEPT ![w] = Free]
    /\ Len(p.done) \in Nat /\ Len(r.done) = Len(p.done) + 1
    /\ \A i \in 1 .. Len(p.done) : r.done[i] = p.done[i]
    /\ r.done[Len(p.done) + 1].request = p.busy[w]

(* A worker hands over its result.                                         *)
LEMMA ProbeIsFinished ==
    ASSUME NEW p, IsPool(p), NEW w \in Workers, CanFinish(p, w), NEW ok \in BOOLEAN,
           NEW r, r = FinishProbe(p, w, ok)
    PROVE  IsPool(r) /\ Finished(p, w, r) /\ (Counted(p) => Counted(r))
<1>1. /\ p.queue \in Seq(AnyRequest) /\ p.busy \in [Workers -> AnyRequest \cup {Free}]
      /\ p.done \in Seq(Completions) /\ p.accepting \in BOOLEAN /\ p.outstanding \in Nat
      /\ Len(p.queue) \in Nat /\ Len(p.done) \in Nat /\ p.busy[w] # Free
  BY PoolFields DEF CanFinish
<1>2. PICK e : e = [request |-> p.busy[w], ok |-> ok]
  OBVIOUS
<1>3. e \in Completions /\ e.request = p.busy[w]
  BY <1>1, <1>2 DEF Completions
<1>4. PICK q : q = Append(p.done, e)
  OBVIOUS
<1>5. /\ q \in Seq(Completions) /\ Len(q) = Len(p.done) + 1
      /\ \A i \in 1 .. Len(p.done) : q[i] = p.done[i]
      /\ q[Len(p.done) + 1] = e
  BY <1>1, <1>3, <1>4, AppendProperties
<1>6. PICK b : b = [p.busy EXCEPT ![w] = Free]
  OBVIOUS
<1>7. b \in [Workers -> AnyRequest \cup {Free}] /\ b[w] = Free /\ \A v \in Workers : v # w => b[v] = p.busy[v]
  BY <1>1, <1>6
<1>8. r = [p EXCEPT !.busy = b, !.done = q]
  BY <1>2, <1>4, <1>6 DEF FinishProbe
<1>9. IsPool(r) /\ r.queue = p.queue /\ r.busy = b /\ r.done = q
      /\ r.accepting = p.accepting /\ r.outstanding = p.outstanding
  <2>1. PICK x, y, z, a, o : p = [queue |-> x, busy |-> y, done |-> z,
                                  accepting |-> a, outstanding |-> o]
    BY PoolFields
  <2>2. r = [queue |-> x, busy |-> b, done |-> q, accepting |-> a, outstanding |-> o]
    BY <2>1, <1>8
  <2>3. x \in Seq(AnyRequest) /\ a \in BOOLEAN /\ o \in Nat
    BY <2>1, <1>1
  <2>4. IsPool(r)
    BY <2>2, <2>3, <1>5, <1>7 DEF IsPool
  <2> QED
    BY <2>1, <2>2, <2>4
<1>10. Busy(p) = Busy(r) + 1 /\ Busy(r) \in Nat
  BY <1>1, <1>7, <1>9, OneMoreBusy, BusyIsNat
<1>11. Counted(p) => Counted(r)
  <2>1. /\ r.outstanding = p.outstanding /\ Len(r.queue) = Len(p.queue)
        /\ Len(r.done) = Len(p.done) + 1
    BY <1>5, <1>9
  <2>2. Len(p.queue) + Busy(p) + Len(p.done) = Len(r.queue) + Busy(r) + Len(r.done)
    <3>1. \A x, y, z, v \in Nat : v = y + 1 => x + v + z = x + y + (z + 1)
      OBVIOUS
    <3>2. Len(p.queue) \in Nat /\ Len(p.done) \in Nat /\ Busy(p) \in Nat /\ Busy(r) \in Nat
      BY <1>1, <1>10
    <3>3. Len(p.queue) + Busy(p) + Len(p.done) = Len(p.queue) + Busy(r) + (Len(p.done) + 1)
      BY <3>1, <3>2, <1>10, SMTT(30)
    <3> QED
      BY <3>3, <2>1
  <2> QED
    BY <2>1, <2>2 DEF Counted
<1> QED
  BY <1>1, <1>3, <1>5, <1>6, <1>9, <1>11 DEF Finished

(* ... and the books are kept.                                             *)
LEMMA FinishedIsKept ==
    ASSUME NEW p, IsPool(p), NEW w \in Workers, NEW r, IsPool(r), Finished(p, w, r),
           Counted(r), NEW s, Kept(s, p)
    PROVE  Kept(s, r)
<1> DEFINE m == Len(p.queue)
           k == Len(p.done)
           h == p.busy[w]
<1>1. /\ r.queue = p.queue /\ h # Free /\ r.busy = [p.busy EXCEPT ![w] = Free]
      /\ k \in Nat /\ Len(r.done) = k + 1
      /\ \A i \in 1 .. k : r.done[i] = p.done[i]
      /\ r.done[k + 1].request = h
  BY DEF Finished
<1>3. p.busy \in [Workers -> AnyRequest \cup {Free}] /\ m \in Nat
  BY PoolFields
<1>4. r.busy[w] = Free /\ \A v \in Workers : v # w => r.busy[v] = p.busy[v]
  BY <1>1, <1>3
<1>5. /\ \A i \in 1 .. m : InPlace(s, p.queue[i])
      /\ \A v \in Workers : p.busy[v] # Free => InPlace(s, p.busy[v])
      /\ \A i \in 1 .. k : InPlace(s, p.done[i].request)
  BY DEF Kept, Placed
<1>6. Apart(p)
  BY DEF Kept
<1>7. /\ \A i, j \in 1 .. m : p.queue[i].key = p.queue[j].key => i = j
      /\ \A v, x \in Workers :
            p.busy[v] # Free /\ p.busy[x] # Free /\ p.busy[v].key = p.busy[x].key => v = x
      /\ \A i, j \in 1 .. k : p.done[i].request.key = p.done[j].request.key => i = j
      /\ \A i \in 1 .. m, v \in Workers : p.busy[v] # Free => p.busy[v].key # p.queue[i].key
      /\ \A i \in 1 .. m, j \in 1 .. k : p.queue[i].key # p.done[j].request.key
      /\ \A j \in 1 .. k, v \in Workers : p.busy[v] # Free => p.busy[v].key # p.done[j].request.key
  BY <1>6 DEF Apart
<1>8. Len(r.queue) = m
  BY <1>1
<1>h. h = p.busy[w]
  OBVIOUS
<1> HIDE DEF m, k, h
<1>9. /\ \A i \in 1 .. k + 1 : i \in 1 .. k \/ (i = k + 1 /\ i \notin 1 .. k)
      /\ k + 1 \in 1 .. k + 1 /\ \A i \in 1 .. k : i \in 1 .. k + 1
  BY <1>1
<1>a. \A i \in 1 .. k + 1 : \/ i \in 1 .. k /\ r.done[i].request = p.done[i].request
                            \/ i = k + 1 /\ r.done[i].request = h
  BY <1>1, <1>9
<1>10. Placed(s, r)
  <2>1. \A i \in 1 .. k + 1 : InPlace(s, r.done[i].request)
    BY <1>1, <1>h, <1>5, <1>a
  <2>2. \A v \in Workers : r.busy[v] # Free => InPlace(s, r.busy[v])
    BY <1>4, <1>5
  <2>3. \A i \in 1 .. m : InPlace(s, r.queue[i])
    BY <1>1, <1>5
  <2> QED
    BY <2>1, <2>2, <2>3, <1>1, <1>8 DEF Placed
<1>11. Apart(r)
  <2>1. \A i, j \in 1 .. m : r.queue[i].key = r.queue[j].key => i = j
    BY <1>1, <1>7
  <2>3. \A v, x \in Workers :
            r.busy[v] # Free /\ r.busy[x] # Free /\ r.busy[v].key = r.busy[x].key => v = x
    BY <1>4, <1>7
  <2>4. \A i \in 1 .. m, v \in Workers : r.busy[v] # Free => r.busy[v].key # r.queue[i].key
    BY <1>1, <1>4, <1>7
  <2>5. \A i \in 1 .. m, j \in 1 .. k + 1 : r.queue[i].key # r.done[j].request.key
    BY <1>1, <1>h, <1>7, <1>a
  <2>6. \A j \in 1 .. k + 1, v \in Workers : r.busy[v] # Free => r.busy[v].key # r.done[j].request.key
    BY <1>1, <1>h, <1>4, <1>7, <1>a
  <2>7. \A i, j \in 1 .. k + 1 : r.done[i].request.key = r.done[j].request.key => i = j
    <3>1. \A j \in 1 .. k : p.done[j].request.key # h.key
      BY <1>1, <1>h, <1>7
    <3> QED
      BY <3>1, <1>7, <1>a
  <2>8. Len(r.done) = k + 1
    BY <1>1
  <2> QED
    BY <2>1, <2>3, <2>4, <2>5, <2>6, <2>7, <2>8, <1>8 DEF Apart
<1>12. Covered(s, r)
  <2> SUFFICES ASSUME NEW u \in KeysOf(s.rev), s.schedule[u].st = "InFlight"
               PROVE  Holds(r, u)
    BY DEF Covered
  <2>1. Holds(p, u)
    BY DEF Kept, Covered
  <2>2. CASE \E i \in 1 .. m : p.queue[i].key = u
    BY <2>2, <1>1, <1>8 DEF Holds
  <2>3. CASE \E v \in Workers : p.busy[v] # Free /\ p.busy[v].key = u
    <3>1. PICK v \in Workers : p.busy[v] # Free /\ p.busy[v].key = u
      BY <2>3
    <3>2. CASE v = w
      <4>1. r.done[k + 1].request.key = u
        BY <3>1, <3>2, <1>1, <1>h
      <4> QED
        BY <4>1, <1>1, <1>9 DEF Holds
    <3>3. CASE v # w
      BY <3>1, <3>3, <1>4 DEF Holds
    <3> QED
      BY <3>2, <3>3
  <2>4. CASE \E i \in 1 .. k : p.done[i].request.key = u
    <3>1. PICK i \in 1 .. k : p.done[i].request.key = u
      BY <2>4
    <3>2. i \in 1 .. k + 1 /\ r.done[i].request.key = u
      BY <3>1, <1>1, <1>9
    <3> QED
      BY <3>2, <1>1 DEF Holds
  <2> QED
    BY <2>1, <2>2, <2>3, <2>4 DEF Holds, m, k
<1> QED
  BY <1>10, <1>11, <1>12 DEF Kept

-----------------------------------------------------------------------------
(* The result of a probe.                                                  *)

(* A transition stays within the states of an upstream's health.           *)
LEMMA TransitionType ==
    ASSUME NEW h \in HealthStates, NEW ok \in BOOLEAN
    PROVE  TransitionUpstreamHealth(h, ok) \in HealthStates
<1>1. HealthState("Healthy") \in HealthStates /\ HealthState("Unhealthy") \in HealthStates
  BY DEF HealthState, HealthStates
<1>a. PICK a, x, y : /\ h = [a |-> a, s |-> x, f |-> y] /\ x \in Nat /\ y \in Nat
                      /\ a \in {"Disabled", "Unknown", "Healthy", "Unhealthy"}
  BY DEF HealthStates
<1>b. x + 1 \in Nat /\ y + 1 \in Nat
  BY <1>a
<1>2. [h EXCEPT !.s = @ + 1, !.f = 0] \in HealthStates
  <2>1. PICK t : t = [h EXCEPT !.s = @ + 1, !.f = 0]
    OBVIOUS
  <2>2. t = [a |-> a, s |-> x + 1, f |-> 0]
    BY <1>a, <2>1
  <2>3. t \in HealthStates
    BY <1>a, <1>b, <2>2 DEF HealthStates
  <2> QED
    BY <2>1, <2>3
<1>3. [h EXCEPT !.s = 0, !.f = @ + 1] \in HealthStates
  <2>1. PICK t : t = [h EXCEPT !.s = 0, !.f = @ + 1]
    OBVIOUS
  <2>2. t = [a |-> a, s |-> 0, f |-> y + 1]
    BY <1>a, <2>1
  <2>3. t \in HealthStates
    BY <1>a, <1>b, <2>2 DEF HealthStates
  <2> QED
    BY <2>1, <2>3
<1> QED
  BY <1>1, <1>2, <1>3 DEF TransitionUpstreamHealth

(* In the pool r the first completion of p is taken.                       *)
Drained(p, r) ==
    /\ r.accepting = p.accepting /\ r.queue = p.queue /\ r.busy = p.busy
    /\ Len(p.done) \in Nat \ {0} /\ Len(r.done) = Len(p.done) - 1
    /\ \A i \in 1 .. Len(p.done) - 1 : r.done[i] = p.done[i + 1]

(* A completion is taken, and no longer counted.                           *)
LEMMA CompletionIsTaken ==
    ASSUME NEW p, IsPool(p), p.done # <<>>, Counted(p), NEW r, r = TakeCompletion(p)
    PROVE  IsPool(r) /\ Drained(p, r) /\ Counted(r)
<1>1. /\ p.queue \in Seq(AnyRequest) /\ p.busy \in [Workers -> AnyRequest \cup {Free}]
      /\ p.done \in Seq(Completions) /\ p.accepting \in BOOLEAN /\ p.outstanding \in Nat
      /\ Len(p.queue) \in Nat /\ Len(p.done) \in Nat
  BY PoolFields
<1>2. Len(p.done) \in Nat \ {0}
  BY <1>1, EmptySeq
<1>3. PICK q : q = Tail(p.done)
  OBVIOUS
<1>4. /\ q \in Seq(Completions) /\ Len(q) = Len(p.done) - 1
      /\ \A i \in 1 .. Len(q) : q[i] = p.done[i + 1]
  BY <1>1, <1>3, HeadTailProperties
<1>5. Busy(p) \in Nat /\ p.outstanding = Len(p.queue) + Busy(p) + Len(p.done) /\ p.outstanding <= Capacity
  BY BusyIsNat DEF Counted
<1>6. p.outstanding - 1 \in Nat
  BY <1>1, <1>2, <1>5
<1>7. r = [p EXCEPT !.done = q, !.outstanding = p.outstanding - 1]
  BY <1>3 DEF TakeCompletion
<1>8. IsPool(r) /\ r.queue = p.queue /\ r.busy = p.busy /\ r.done = q
      /\ r.accepting = p.accepting /\ r.outstanding = p.outstanding - 1
  <2>1. PICK x, y, z, a, o : p = [queue |-> x, busy |-> y, done |-> z,
                                  accepting |-> a, outstanding |-> o]
    BY PoolFields
  <2>2. r = [queue |-> x, busy |-> y, done |-> q, accepting |-> a, outstanding |-> o - 1]
    BY <2>1, <1>7
  <2>3. x \in Seq(AnyRequest) /\ y \in [Workers -> AnyRequest \cup {Free}] /\ a \in BOOLEAN /\ o - 1 \in Nat
    BY <2>1, <1>1, <1>6
  <2>4. IsPool(r)
    BY <2>2, <2>3, <1>4 DEF IsPool
  <2> QED
    BY <2>1, <2>2, <2>4
<1>9. Counted(r)
  <2>1. Busy(r) = Busy(p)
    BY <1>8, CountAfter
  <2>2. /\ r.outstanding = p.outstanding - 1 /\ Len(r.queue) = Len(p.queue)
        /\ Len(r.done) = Len(p.done) - 1 /\ Capacity \in Nat
    BY <1>4, <1>8, TargetAssumption
  <2> QED
    BY <2>1, <2>2, <1>1, <1>5, SMTT(30) DEF Counted
<1> QED
  BY <1>2, <1>4, <1>8, <1>9 DEF Drained

(* In the supervisor t the upstream u is scheduled again.                  *)
Rescheduled(s, u, t) ==
    /\ t.rev = s.rev /\ u \in KeysOf(s.rev) /\ t.schedule[u].st = "Scheduled"
    /\ \A v \in KeysOf(s.rev) : v # u => t.schedule[v] = s.schedule[v]

(* A result that fits is applied.                                          *)
LEMMA ResultIsApplied ==
    ASSUME NEW s, IsSup(s), NEW q \in AnyRequest, InPlace(s, q), NEW ok \in BOOLEAN,
           NEW t, t = ProbeResult(s, q, ok)
    PROVE  IsSup(t) /\ Rescheduled(s, q.key, t)
<1>1. /\ s.rev \in Revisions /\ s.nextProbe \in ProbeIds /\ s.running = TRUE
      /\ s.health \in [KeysOf(s.rev) -> HealthStates]
      /\ s.schedule \in [KeysOf(s.rev) -> ScheduleStates]
  BY DEF IsSup
<1>2. q.key \in KeysOf(s.rev) /\ ValidProbe(s, q)
  BY <1>1 DEF InPlace, ValidProbe
<1>3. PICK hl : hl = [s.health EXCEPT ![q.key] = TransitionUpstreamHealth(s.health[q.key], ok)]
  OBVIOUS
<1>4. PICK sch : sch = [s.schedule EXCEPT ![q.key] = Schedule("Scheduled")]
  OBVIOUS
<1>5. Schedule("Scheduled") \in ScheduleStates /\ Schedule("Scheduled").st = "Scheduled"
  BY TargetAssumption DEF Schedule, ScheduleStates, ProbeIds
<1>6. /\ sch \in [KeysOf(s.rev) -> ScheduleStates] /\ sch[q.key].st = "Scheduled"
      /\ \A v \in KeysOf(s.rev) : v # q.key => sch[v] = s.schedule[v]
  BY <1>1, <1>2, <1>4, <1>5
<1>7. hl \in [KeysOf(s.rev) -> HealthStates]
  <2>1. TransitionUpstreamHealth(s.health[q.key], ok) \in HealthStates
    BY <1>1, <1>2, TransitionType
  <2> QED
    BY <1>1, <1>3, <2>1
<1>8. t = [s EXCEPT !.health = hl, !.schedule = sch]
  BY <1>2, <1>3, <1>4 DEF ProbeResult
<1>9. t = [rev |-> s.rev, running |-> TRUE, nextProbe |-> s.nextProbe, health |-> hl, schedule |-> sch]
  <2>1. PICK a, b, c, d, e :
           s = [rev |-> a, running |-> b, nextProbe |-> c, health |-> d, schedule |-> e]
    BY DEF IsSup
  <2>2. t = [rev |-> a, running |-> b, nextProbe |-> c, health |-> hl, schedule |-> sch]
    BY <2>1, <1>8
  <2> QED
    BY <2>1, <2>2, <1>1
<1>10. t.rev = s.rev /\ t.running = TRUE /\ t.nextProbe = s.nextProbe /\ t.health = hl /\ t.schedule = sch
  BY <1>9
<1>11. t = [rev |-> t.rev, running |-> TRUE, nextProbe |-> t.nextProbe, health |-> t.health,
            schedule |-> t.schedule]
  BY <1>9, <1>10
<1>12. IsSup(t)
  BY <1>1, <1>6, <1>7, <1>10, <1>11 DEF IsSup
<1> QED
  BY <1>2, <1>6, <1>10, <1>12 DEF Rescheduled

(* The books are kept when a result is applied and its completion taken:   *)
(* nobody else had the upstream.                                           *)
LEMMA ResultIsKept ==
    ASSUME NEW s, IsSup(s), NEW p, IsPool(p), Kept(s, p),
           NEW r, IsPool(r), Drained(p, r), Counted(r),
           NEW t, IsSup(t), Rescheduled(s, p.done[1].request.key, t)
    PROVE  Kept(t, r)
<1> DEFINE m == Len(p.queue)
           k == Len(p.done)
           x == p.done[1].request.key
<1>1. /\ r.queue = p.queue /\ r.busy = p.busy
      /\ k \in Nat \ {0} /\ Len(r.done) = k - 1
      /\ \A i \in 1 .. k - 1 : r.done[i] = p.done[i + 1]
  BY DEF Drained
<1>2. /\ t.rev = s.rev /\ x \in KeysOf(s.rev) /\ t.schedule[x].st = "Scheduled"
      /\ \A v \in KeysOf(s.rev) : v # x => t.schedule[v] = s.schedule[v]
  BY DEF Rescheduled
<1>5. /\ \A i \in 1 .. m : InPlace(s, p.queue[i])
      /\ \A v \in Workers : p.busy[v] # Free => InPlace(s, p.busy[v])
      /\ \A i \in 1 .. k : InPlace(s, p.done[i].request)
  BY DEF Kept, Placed
<1>6. Apart(p)
  BY DEF Kept
<1>7. /\ \A i, j \in 1 .. m : p.queue[i].key = p.queue[j].key => i = j
      /\ \A v, w \in Workers :
            p.busy[v] # Free /\ p.busy[w] # Free /\ p.busy[v].key = p.busy[w].key => v = w
      /\ \A i, j \in 1 .. k : p.done[i].request.key = p.done[j].request.key => i = j
      /\ \A i \in 1 .. m, v \in Workers : p.busy[v] # Free => p.busy[v].key # p.queue[i].key
      /\ \A i \in 1 .. m, j \in 1 .. k : p.queue[i].key # p.done[j].request.key
      /\ \A j \in 1 .. k, v \in Workers : p.busy[v] # Free => p.busy[v].key # p.done[j].request.key
  BY <1>6 DEF Apart
<1>8. Len(r.queue) = m
  BY <1>1
<1>x. x = p.done[1].request.key
  OBVIOUS
<1>c. \A u \in KeysOf(s.rev) : s.schedule[u].st = "InFlight" => Holds(p, u)
  BY DEF Kept, Covered
<1>d. \A u : Holds(p, u) => \/ \E i \in 1 .. m : p.queue[i].key = u
                            \/ \E w \in Workers : p.busy[w] # Free /\ p.busy[w].key = u
                            \/ \E i \in 1 .. k : p.done[i].request.key = u
  BY DEF Holds
<1> HIDE DEF m, k, x
<1>9. 1 \in 1 .. k /\ \A i \in 1 .. k - 1 : i + 1 \in 1 .. k /\ i + 1 # 1
  BY <1>1
<1>a. /\ \A i \in 1 .. m : p.queue[i].key # x
      /\ \A v \in Workers : p.busy[v] # Free => p.busy[v].key # x
      /\ \A i \in 1 .. k - 1 : r.done[i].request.key # x
  BY <1>x, <1>1, <1>7, <1>9
<1>b. \A q : InPlace(s, q) /\ q.key # x => InPlace(t, q)
  BY <1>2 DEF InPlace
<1>10. Placed(t, r)
  <2>1. \A i \in 1 .. k - 1 : InPlace(t, r.done[i].request)
    BY <1>1, <1>5, <1>9, <1>a, <1>b
  <2>2. \A v \in Workers : r.busy[v] # Free => InPlace(t, r.busy[v])
    BY <1>1, <1>5, <1>a, <1>b
  <2>3. \A i \in 1 .. m : InPlace(t, r.queue[i])
    BY <1>1, <1>5, <1>a, <1>b
  <2> QED
    BY <2>1, <2>2, <2>3, <1>1, <1>8 DEF Placed
<1>11. Apart(r)
  <2>1. \A i, j \in 1 .. k - 1 : r.done[i].request.key = r.done[j].request.key => i = j
    <3> SUFFICES ASSUME NEW i \in 1 .. k - 1, NEW j \in 1 .. k - 1,
                        r.done[i].request.key = r.done[j].request.key
                 PROVE  i = j
      OBVIOUS
    <3>1. i + 1 = j + 1
      BY <1>1, <1>7, <1>9, SMTT(30)
    <3> QED
      BY <3>1, <1>1
  <2>5. \A i \in 1 .. m, j \in 1 .. k - 1 : r.queue[i].key # r.done[j].request.key
    BY <1>1, <1>7, <1>9
  <2>6. \A j \in 1 .. k - 1, v \in Workers : r.busy[v] # Free => r.busy[v].key # r.done[j].request.key
    BY <1>1, <1>7, <1>9
  <2>7. Len(r.done) = k - 1
    BY <1>1
  <2> QED
    BY <2>1, <2>5, <2>6, <2>7, <1>1, <1>7, <1>8 DEF Apart
<1>12. Covered(t, r)
  <2> SUFFICES ASSUME NEW u \in KeysOf(s.rev), t.schedule[u].st = "InFlight"
               PROVE  Holds(r, u)
    BY <1>2 DEF Covered
  <2>1. u # x /\ Holds(p, u)
    BY <1>2, <1>c
  <2>2. CASE \E i \in 1 .. m : p.queue[i].key = u
    BY <2>2, <1>1, <1>8 DEF Holds
  <2>3. CASE \E v \in Workers : p.busy[v] # Free /\ p.busy[v].key = u
    BY <2>3, <1>1 DEF Holds
  <2>4. CASE \E i \in 1 .. k : p.done[i].request.key = u
    <3>1. PICK i \in 1 .. k : p.done[i].request.key = u
      BY <2>4
    <3>2. i # 1
      BY <3>1, <2>1, <1>x
    <3>3. i - 1 \in 1 .. k - 1 /\ (i - 1) + 1 = i
      BY <3>2, <1>1
    <3>4. r.done[i - 1].request.key = u /\ Len(r.done) = k - 1
      BY <3>1, <3>3, <1>1
    <3> QED
      BY <3>3, <3>4 DEF Holds
  <2> QED
    BY <2>1, <2>2, <2>3, <2>4, <1>d
<1> QED
  BY <1>10, <1>11, <1>12 DEF Kept

-----------------------------------------------------------------------------
(* The end of a pool, and a new one.                                       *)

(* What was queued is dropped and no longer counted.                       *)
LEMMA PoolIsClosed ==
    ASSUME NEW p, IsPool(p), Counted(p), NEW r, r = ClosePool(p)
    PROVE  IsPool(r) /\ r.queue = <<>> /\ Counted(r)
<1>1. /\ p.busy \in [Workers -> AnyRequest \cup {Free}]
      /\ p.done \in Seq(Completions) /\ p.outstanding \in Nat
      /\ Len(p.queue) \in Nat /\ Len(p.done) \in Nat
  BY PoolFields
<1>2. Busy(p) \in Nat /\ p.outstanding = Len(p.queue) + Busy(p) + Len(p.done) /\ p.outstanding <= Capacity
  BY BusyIsNat DEF Counted
<1>3. PICK n : n = p.outstanding - Len(p.queue)
  OBVIOUS
<1>4. n \in Nat /\ n = Busy(p) + Len(p.done) /\ n <= Capacity
  BY <1>1, <1>2, <1>3, TargetAssumption, SMTT(30)
<1>5. r = [p EXCEPT !.accepting = FALSE, !.outstanding = n, !.queue = <<>>]
  BY <1>3 DEF ClosePool
<1>6. IsPool(r) /\ r.queue = <<>> /\ r.busy = p.busy /\ r.done = p.done /\ r.outstanding = n
  <2>1. PICK x, y, z, a, o : p = [queue |-> x, busy |-> y, done |-> z,
                                  accepting |-> a, outstanding |-> o]
    BY PoolFields
  <2>2. r = [queue |-> <<>>, busy |-> y, done |-> z, accepting |-> FALSE, outstanding |-> n]
    BY <2>1, <1>5
  <2>3. y \in [Workers -> AnyRequest \cup {Free}] /\ z \in Seq(Completions) /\ <<>> \in Seq(AnyRequest)
    BY <2>1, <1>1
  <2>4. IsPool(r)
    BY <2>2, <2>3, <1>4 DEF IsPool
  <2> QED
    BY <2>1, <2>2, <2>4
<1>7. Busy(r) = Busy(p) /\ Len(r.queue) = 0
  BY <1>6, CountAfter
<1>8. Counted(r)
  BY <1>1, <1>2, <1>4, <1>6, <1>7 DEF Counted
<1> QED
  BY <1>6, <1>8

(* A new supervisor: it is in order, whatever was known before.            *)
LEMMA NewSupervisor ==
    ASSUME NEW r \in Revisions, NEW prior, prior = NoPrior \/ IsKnown(prior),
           NEW s, s = ActivateReconciled(r, prior)
    PROVE  /\ IsSup(s) /\ s.rev = r
           /\ \A u \in KeysOf(r) : s.schedule[u].st # "InFlight"
<1>1. PICK hl : hl = [u \in KeysOf(r) |->
        IF /\ u \in DOMAIN prior.health
           /\ Target[r][u].what = Target[prior.rev][u].what
           /\ Target[r][u].checked = Target[prior.rev][u].checked
        THEN prior.health[u] ELSE HealthForPolicy(Target[r][u].checked)]
  OBVIOUS
<1>2. PICK sch : sch = [u \in KeysOf(r) |->
                           Schedule(IF Target[r][u].checked THEN "Scheduled" ELSE "Disabled")]
  OBVIOUS
<1>3. PICK h0 : h0 = [u \in KeysOf(r) |-> HealthForPolicy(Target[r][u].checked)]
  OBVIOUS
<1>4. PICK a : a = Activate(r)
  OBVIOUS
<1>5. a = [rev |-> r, running |-> TRUE, nextProbe |-> 0, health |-> h0, schedule |-> sch]
  BY <1>2, <1>3, <1>4 DEF Activate
<1>6. a.health = h0
  BY <1>5
<1>7. hl = [u \in KeysOf(r) |->
        IF /\ u \in DOMAIN prior.health
           /\ Target[r][u].what = Target[prior.rev][u].what
           /\ Target[r][u].checked = Target[prior.rev][u].checked
        THEN prior.health[u] ELSE a.health[u]]
  BY <1>1, <1>3, <1>6
<1>8. s = [a EXCEPT !.health = hl]
  BY <1>4, <1>7 DEF ActivateReconciled
<1>9. s = [rev |-> r, running |-> TRUE, nextProbe |-> 0, health |-> hl, schedule |-> sch]
  BY <1>5, <1>8
<1>10. \A u \in KeysOf(r) : HealthForPolicy(Target[r][u].checked) \in HealthStates
  BY DEF HealthForPolicy, HealthState, HealthStates
<1>11. \A u \in DOMAIN prior.health : prior.health[u] \in HealthStates
  <2>1. CASE prior = NoPrior
    BY <2>1 DEF NoPrior
  <2>2. CASE IsKnown(prior)
    BY <2>2 DEF IsKnown
  <2> QED
    BY <2>1, <2>2
<1>12. hl \in [KeysOf(r) -> HealthStates]
  BY <1>1, <1>10, <1>11
<1>13. /\ sch \in [KeysOf(r) -> ScheduleStates]
       /\ \A u \in KeysOf(r) : sch[u].st # "InFlight"
  BY <1>2, TargetAssumption DEF Schedule, ScheduleStates, ProbeIds
<1>14. s.rev = r /\ s.running = TRUE /\ s.nextProbe = 0 /\ s.health = hl /\ s.schedule = sch
  BY <1>9
<1>15. s = [rev |-> s.rev, running |-> TRUE, nextProbe |-> s.nextProbe, health |-> s.health,
            schedule |-> s.schedule]
  BY <1>9, <1>14
<1>16. 0 \in ProbeIds
  BY TargetAssumption DEF ProbeIds
<1>17. IsSup(s)
  BY <1>12, <1>13, <1>14, <1>15, <1>16 DEF IsSup
<1> QED
  BY <1>13, <1>14, <1>17

(* The first generation knows what the loop starts with.                   *)
LEMMA FirstSupervisor ==
    ASSUME NEW r \in Revisions
    PROVE  ActivateReconciled(r, NoPrior).health = Activate(r).health
<1>1. PICK a : a = Activate(r)
  OBVIOUS
<1>2. PICK h0 : h0 = [u \in KeysOf(r) |-> HealthForPolicy(Target[r][u].checked)]
  OBVIOUS
<1>3. a.health = h0 /\ "health" \in DOMAIN a
  BY <1>1, <1>2 DEF Activate
<1>4. \A u \in KeysOf(r) : u \notin DOMAIN NoPrior.health
  BY DEF NoPrior
<1>5. [u \in KeysOf(r) |->
        IF /\ u \in DOMAIN NoPrior.health
           /\ Target[r][u].what = Target[NoPrior.rev][u].what
           /\ Target[r][u].checked = Target[NoPrior.rev][u].checked
        THEN NoPrior.health[u] ELSE a.health[u]] = h0
  BY <1>2, <1>3, <1>4
<1>6. ActivateReconciled(r, NoPrior) = [a EXCEPT !.health = h0]
  BY <1>1, <1>5 DEF ActivateReconciled
<1> QED
  BY <1>1, <1>3, <1>6

(* A new pool, beside a supervisor with nothing in flight.                 *)
LEMMA NewPoolIsKept ==
    ASSUME NEW s, \A u \in KeysOf(s.rev) : s.schedule[u].st # "InFlight"
    PROVE  IsPool(NewPool) /\ NewPool.accepting /\ Kept(s, NewPool)
<1>1. PICK p : p = NewPool
  OBVIOUS
<1>2. p = [queue |-> <<>>, busy |-> [w \in Workers |-> Free], done |-> <<>>,
           accepting |-> TRUE, outstanding |-> 0]
  BY <1>1 DEF NewPool
<1>3. IsPool(p)
  BY <1>2 DEF IsPool
<1>4. /\ p.queue = <<>> /\ p.done = <<>> /\ p.outstanding = 0 /\ p.accepting = TRUE
      /\ \A w \in Workers : p.busy[w] = Free
  BY <1>2
<1>5. {w \in Workers : p.busy[w] # Free} = {}
  BY <1>4
<1>6. Busy(p) = 0
  BY <1>5, FS_EmptySet DEF Busy
<1>7. Len(p.queue) = 0 /\ Len(p.done) = 0 /\ 1 .. 0 = {}
  BY <1>4
<1>8. Counted(p)
  BY <1>4, <1>6, <1>7, TargetAssumption DEF Counted
<1>9. Placed(s, p) /\ Apart(p) /\ Covered(s, p)
  BY <1>4, <1>7 DEF Placed, Apart, Covered
<1> QED
  BY <1>1, <1>3, <1>4, <1>8, <1>9 DEF Kept

-----------------------------------------------------------------------------
(* What the books say.                                                     *)

(* An injective function has as many values as arguments.                  *)
LEMMA ImageCardinality ==
    ASSUME NEW S, IsFiniteSet(S), NEW f, f = [x \in S |-> f[x]],
           \A x, y \in S : f[x] = f[y] => x = y
    PROVE  /\ IsFiniteSet({f[x] : x \in S})
           /\ Cardinality({f[x] : x \in S}) = Cardinality(S)
<1> DEFINE T == {f[x] : x \in S}
<1>1. f \in [S -> T]
  OBVIOUS
<1>2. f \in Surjection(S, T)
  BY <1>1 DEF Surjection
<1>3. f \in Injection(S, T)
  BY <1>1 DEF Injection, IsInjective
<1> HIDE DEF T
<1>4. IsFiniteSet(T) /\ (Cardinality(T) = Cardinality(S) <=> f \in Injection(S, T))
  BY <1>2, FS_Surjection
<1> QED
  BY <1>3, <1>4 DEF T

(* Two finite sets with nothing in common.                                 *)
LEMMA DisjointUnion ==
    ASSUME NEW S, IsFiniteSet(S), NEW T, IsFiniteSet(T), S \cap T = {}
    PROVE  IsFiniteSet(S \cup T) /\ Cardinality(S \cup T) = Cardinality(S) + Cardinality(T)
<1>1. IsFiniteSet(S \cup T)
      /\ Cardinality(S \cup T) = Cardinality(S) + Cardinality(T) - Cardinality(S \cap T)
  BY FS_Union
<1>2. Cardinality(S \cap T) = 0
  BY FS_EmptySet
<1>3. Cardinality(S) \in Nat /\ Cardinality(T) \in Nat
  BY FS_CardinalityType
<1> QED
  BY <1>1, <1>2, <1>3

(* The requests of a pool are as many as its places are taken.             *)
LEMMA PoolIsCounted ==
    ASSUME NEW p, IsPool(p), Apart(p)
    PROVE  Cardinality(InPool(p)) = Len(p.queue) + Busy(p) + Len(p.done)
<1> DEFINE m == Len(p.queue)
           k == Len(p.done)
           B == {v \in Workers : p.busy[v] # Free}
           Q == {p.queue[i] : i \in 1 .. m}
           W == {p.busy[v] : v \in B}
           D == {p.done[i].request : i \in 1 .. k}
<1>1. /\ p.queue \in [1 .. m -> AnyRequest] /\ p.busy \in [Workers -> AnyRequest \cup {Free}]
      /\ p.done \in [1 .. k -> Completions] /\ m \in Nat /\ k \in Nat
  BY PoolFields
<1>2. InPool(p) = Q \cup W \cup D
  <2>1. DOMAIN p.queue = 1 .. m /\ DOMAIN p.done = 1 .. k
    BY <1>1
  <2> QED
    BY <2>1 DEF InPool, Range
<1>3. /\ \A i, j \in 1 .. m : p.queue[i].key = p.queue[j].key => i = j
      /\ \A v, x \in B : p.busy[v].key = p.busy[x].key => v = x
      /\ \A i, j \in 1 .. k : p.done[i].request.key = p.done[j].request.key => i = j
      /\ \A i \in 1 .. m, v \in B : p.busy[v].key # p.queue[i].key
      /\ \A i \in 1 .. m, j \in 1 .. k : p.queue[i].key # p.done[j].request.key
      /\ \A j \in 1 .. k, v \in B : p.busy[v].key # p.done[j].request.key
  BY DEF Apart
<1>4. IsFiniteSet(B) /\ Busy(p) = Cardinality(B) /\ Busy(p) \in Nat
  BY BusyIsNat
<1>5. /\ IsFiniteSet(1 .. m) /\ Cardinality(1 .. m) = m
      /\ IsFiniteSet(1 .. k) /\ Cardinality(1 .. k) = k
  <2>1. \A n \in Nat : IsFiniteSet(1 .. n) /\ Cardinality(1 .. n) = n
    <3> TAKE n \in Nat
    <3>1. 1 \in Int /\ n \in Int
      OBVIOUS
    <3>2. IsFiniteSet(1 .. n) /\ Cardinality(1 .. n) = IF 1 > n THEN 0 ELSE n - 1 + 1
      BY <3>1, FS_Interval
    <3> QED
      BY <3>2
  <2>2. m \in Nat /\ k \in Nat
    BY <1>1
  <2> QED
    BY <2>1, <2>2
<1>6. Q \cap W = {} /\ (Q \cup W) \cap D = {}
  BY <1>3
<1> HIDE DEF m, k, B
<1>7. IsFiniteSet(Q) /\ Cardinality(Q) = m
  <2>1. p.queue = [i \in 1 .. m |-> p.queue[i]]
    BY <1>1
  <2>2. \A i, j \in 1 .. m : p.queue[i] = p.queue[j] => i = j
    BY <1>3
  <2>3. PICK f : f = p.queue
    OBVIOUS
  <2>4. PICK S : S = 1 .. m
    OBVIOUS
  <2>5. IsFiniteSet(S) /\ f = [x \in S |-> f[x]] /\ \A x, y \in S : f[x] = f[y] => x = y
    BY <2>1, <2>2, <2>3, <2>4, <1>5
  <2>6. IsFiniteSet({f[x] : x \in S}) /\ Cardinality({f[x] : x \in S}) = Cardinality(S)
    BY <2>5, ImageCardinality
  <2> QED
    BY <2>3, <2>4, <2>6, <1>5
<1>8. IsFiniteSet(W) /\ Cardinality(W) = Busy(p)
  <2>1. PICK f : f = [v \in B |-> p.busy[v]]
    OBVIOUS
  <2>2. f = [v \in B |-> f[v]] /\ \A v \in B : f[v] = p.busy[v]
    BY <2>1
  <2>3. \A v, x \in B : f[v] = f[x] => v = x
    BY <2>2, <1>3
  <2>4. IsFiniteSet({f[v] : v \in B}) /\ Cardinality({f[v] : v \in B}) = Cardinality(B)
    BY <2>2, <2>3, <1>4, ImageCardinality
  <2>5. {f[v] : v \in B} = W
    BY <2>2
  <2> QED
    BY <2>4, <2>5, <1>4
<1>9. IsFiniteSet(D) /\ Cardinality(D) = k
  <2>1. PICK f : f = [i \in 1 .. k |-> p.done[i].request]
    OBVIOUS
  <2>2. f = [i \in 1 .. k |-> f[i]] /\ \A i \in 1 .. k : f[i] = p.done[i].request
    BY <2>1
  <2>3. \A i, j \in 1 .. k : f[i] = f[j] => i = j
    BY <2>2, <1>3
  <2>4. IsFiniteSet({f[i] : i \in 1 .. k}) /\ Cardinality({f[i] : i \in 1 .. k}) = Cardinality(1 .. k)
    <3>1. PICK S : S = 1 .. k
      OBVIOUS
    <3>2. IsFiniteSet(S) /\ f = [x \in S |-> f[x]] /\ \A x, y \in S : f[x] = f[y] => x = y
      BY <2>2, <2>3, <3>1, <1>5
    <3>3. IsFiniteSet({f[x] : x \in S}) /\ Cardinality({f[x] : x \in S}) = Cardinality(S)
      BY <3>2, ImageCardinality
    <3> QED
      BY <3>1, <3>3
  <2>5. {f[i] : i \in 1 .. k} = D
    BY <2>2
  <2> QED
    BY <2>4, <2>5, <1>5
<1> HIDE DEF Q, W, D
<1>10. IsFiniteSet(Q \cup W) /\ Cardinality(Q \cup W) = m + Busy(p)
  BY <1>6, <1>7, <1>8, DisjointUnion
<1>11. Cardinality((Q \cup W) \cup D) = (m + Busy(p)) + k
  BY <1>6, <1>9, <1>10, DisjointUnion
<1> QED
  BY <1>2, <1>11 DEF m, k

(* An upstream is in flight exactly as long as a probe of it is in the     *)
(* pool.                                                                   *)
LEMMA FlightsArePooled ==
    ASSUME NEW s, IsSup(s), NEW p, IsPool(p), Kept(s, p)
    PROVE  {[key |-> q.key, id |-> q.id] : q \in InPool(p)}
             = {[key |-> u, id |-> s.schedule[u].id] :
                   u \in {v \in DOMAIN s.schedule : s.schedule[v].st = "InFlight"}}
<1> DEFINE F == {v \in DOMAIN s.schedule : s.schedule[v].st = "InFlight"}
           L == {[key |-> q.key, id |-> q.id] : q \in InPool(p)}
           R == {[key |-> u, id |-> s.schedule[u].id] : u \in F}
<1>1. DOMAIN s.schedule = KeysOf(s.rev)
  BY DEF IsSup
<1>2. DOMAIN p.queue = 1 .. Len(p.queue) /\ DOMAIN p.done = 1 .. Len(p.done)
  BY PoolFields
<1>3. \A q : q \in InPool(p) <=> \/ \E i \in 1 .. Len(p.queue) : q = p.queue[i]
                                 \/ \E w \in Workers : p.busy[w] # Free /\ q = p.busy[w]
                                 \/ \E i \in 1 .. Len(p.done) : q = p.done[i].request
  BY <1>2 DEF InPool, Range
<1>4. \A q \in InPool(p) : InPlace(s, q)
  BY <1>3 DEF Kept, Placed
<1>5. \A q \in InPool(p) : q.key \in F /\ s.schedule[q.key].id = q.id
  <2> TAKE q \in InPool(p)
  <2>1. q.key \in DOMAIN s.schedule /\ s.schedule[q.key] = InFlight(q.id)
    BY <1>1, <1>4 DEF InPlace
  <2>2. InFlight(q.id).st = "InFlight" /\ InFlight(q.id).id = q.id
    BY DEF InFlight
  <2> QED
    BY <2>1, <2>2
<1>6. \A u \in F : \E q \in InPool(p) : q.key = u
  <2> TAKE u \in F
  <2>1. Holds(p, u)
    BY <1>1 DEF Kept, Covered
  <2> QED
    BY <2>1, <1>3 DEF Holds
<1> HIDE DEF F
<1>7. L \subseteq R
  <2> SUFFICES ASSUME NEW q \in InPool(p) PROVE [key |-> q.key, id |-> q.id] \in R
    OBVIOUS
  <2>1. q.key \in F /\ s.schedule[q.key].id = q.id
    BY <1>5
  <2> QED
    BY <2>1
<1>8. R \subseteq L
  <2> SUFFICES ASSUME NEW u \in F PROVE [key |-> u, id |-> s.schedule[u].id] \in L
    OBVIOUS
  <2>1. PICK q \in InPool(p) : q.key = u
    BY <1>6
  <2>2. s.schedule[u].id = q.id
    BY <2>1, <1>5
  <2> QED
    BY <2>1, <2>2
<1>9. L = R
  BY <1>7, <1>8
<1> QED
  BY <1>9 DEF F

-----------------------------------------------------------------------------
(* A runtime.                                                              *)

LivePcs == TurnPcs \cup {"prepared"}
AckPcs == {"ackPassive", "ackProbe"}

(* Where its thread is says what a runtime is made of.                     *)
LEMMA RuntimeByPc ==
    ASSUME NEW rt, IsRuntime(rt)
    PROVE  /\ rt = Absent \/ rt.pc \in LivePcs \/ rt.pc \in EndPcs
           /\ rt = Absent => rt.pc \notin LivePcs /\ rt.pc \notin EndPcs
           /\ rt.pc \in LivePcs => IsLive(rt)
           /\ rt.pc = "joining" => IsEnding(rt)
           /\ rt.pc = "stopped" => IsStopped(rt)
           /\ rt # Absent => IsKnown(rt.reconciliation)
<1>1. /\ rt = Absent => rt.pc = "absent"
      /\ IsLive(rt) => rt.pc \in LivePcs /\ IsKnown(rt.reconciliation)
      /\ IsEnding(rt) => rt.pc = "joining" /\ IsKnown(rt.reconciliation)
      /\ IsStopped(rt) => rt.pc = "stopped" /\ IsKnown(rt.reconciliation)
  BY DEF IsLive, IsEnding, IsStopped, Absent, LivePcs
<1>2. rt = Absent \/ IsLive(rt) \/ IsEnding(rt) \/ IsStopped(rt)
  BY DEF IsRuntime
<1> QED
  BY <1>1, <1>2 DEF LivePcs, TurnPcs, EndPcs

(* The fields of a live runtime.                                           *)
LiveRecord(pc, stop, drained, sup, passive, observations, pool, reconciliation) ==
    [pc |-> pc, stop |-> stop, drained |-> drained, sup |-> sup, passive |-> passive,
     observations |-> observations, pool |-> pool, reconciliation |-> reconciliation]

(* A live runtime, from its fields.                                        *)
LEMMA LiveMade ==
    ASSUME NEW a \in LivePcs, NEW b \in BOOLEAN, NEW c, NEW d, IsSup(d), NEW e, NEW f,
           NEW g, IsPool(g), g.accepting, Kept(d, g), NEW h, IsKnown(h),
           NEW t, t = LiveRecord(a, b, c, d, e, f, g, h)
    PROVE  /\ IsLive(t) /\ IsRuntime(t) /\ t # Absent
           /\ t.pc = a /\ t.stop = b /\ t.sup = d /\ t.passive = e /\ t.pool = g
<1>1. /\ t.pc = a /\ t.stop = b /\ t.drained = c /\ t.sup = d /\ t.passive = e
      /\ t.observations = f /\ t.pool = g /\ t.reconciliation = h
  BY DEF LiveRecord
<1>2. t = [pc |-> t.pc, stop |-> t.stop, drained |-> t.drained, sup |-> t.sup,
           passive |-> t.passive, observations |-> t.observations, pool |-> t.pool,
           reconciliation |-> t.reconciliation]
  BY <1>1 DEF LiveRecord
<1>3. IsLive(t)
  BY <1>1, <1>2 DEF IsLive, LivePcs
<1>4. t # Absent
  BY <1>1 DEF Absent, LivePcs, TurnPcs
<1> QED
  BY <1>1, <1>3, <1>4 DEF IsRuntime

(* ... and back.                                                           *)
LEMMA LiveFields ==
    ASSUME NEW rt, IsLive(rt)
    PROVE  /\ rt = LiveRecord(rt.pc, rt.stop, rt.drained, rt.sup, rt.passive,
                              rt.observations, rt.pool, rt.reconciliation)
           /\ rt.pc \in LivePcs /\ rt.stop \in BOOLEAN /\ IsSup(rt.sup) /\ IsPool(rt.pool)
           /\ rt.pool.accepting /\ IsKnown(rt.reconciliation) /\ Kept(rt.sup, rt.pool)
BY DEF IsLive, LiveRecord, LivePcs

(* The thread ends.                                                        *)
LEMMA EndingMade ==
    ASSUME NEW rt, IsLive(rt), NEW t, t = Ending(rt)
    PROVE  IsRuntime(t) /\ t # Absent /\ t.pc = "joining" /\ t.pc \in EndPcs
<1>1. IsPool(rt.pool) /\ Counted(rt.pool) /\ IsKnown(rt.reconciliation)
  BY DEF IsLive, Kept
<1>2. PICK p : p = ClosePool(rt.pool)
  OBVIOUS
<1>3. IsPool(p) /\ p.queue = <<>> /\ Counted(p)
  BY <1>1, <1>2, PoolIsClosed
<1>4. t = [pc |-> "joining", pool |-> p, reconciliation |-> rt.reconciliation]
  BY <1>2 DEF Ending
<1>5. t.pc = "joining" /\ t.pool = p /\ t.reconciliation = rt.reconciliation
  BY <1>4
<1>6. IsEnding(t)
  BY <1>1, <1>3, <1>4, <1>5 DEF IsEnding
<1>7. t # Absent
  BY <1>5 DEF Absent
<1> QED
  BY <1>5, <1>6, <1>7 DEF IsRuntime, EndPcs

(* What a step of a thread or a worker may make of a runtime: it neither   *)
(* starts one nor brings one back, and leaves the stop flag alone.         *)
Moves(o, n) ==
    /\ IsRuntime(n) /\ n # Absent
    /\ o.pc = "prepared" <=> n.pc = "prepared"
    /\ o.pc \in EndPcs => n.pc \in EndPcs
    /\ n.pc \notin EndPcs => n.stop = o.stop /\ n.sup.rev = o.sup.rev
    /\ n.pc = "turn" /\ o.pc # "turn" => ~n.stop
(* ... without a change of what is published.                              *)
SameView(o, n) ==
    n.pc \notin EndPcs =>
        AvailabilitySnapshot(n.sup) = AvailabilitySnapshot(o.sup) /\ n.passive = o.passive

Quiet(o, n) ==
    /\ Moves(o, n) /\ SameView(o, n)
    /\ o.pc \in AckPcs => n.pc = o.pc
    /\ n.pc \in EndPcs => o.pc \in EndPcs \/ (o.pc \in TurnPcs /\ o.stop)

(* The steps of the threads and workers, by what they do to the channel.   *)
Becomes(g, n) == runtime' = [runtime EXCEPT ![g] = n]
QuietStep(g) ==
    /\ runtime[g] # Absent /\ UNCHANGED <<channel, ack>>
    /\ \E n : Becomes(g, n) /\ Quiet(runtime[g], n)
SendStep(g) ==
    /\ runtime[g].pc \in {"turn", "complete"}
    /\ \E n : /\ Becomes(g, n) /\ Moves(runtime[g], n) /\ n.pc \in AckPcs
              /\ Send(g, Publish(g, n.sup, n.passive))
AnswerStep(g) ==
    /\ runtime[g].pc \in AckPcs /\ ack[g] \in {"Accepted", "Rejected"}
    /\ ack' = [ack EXCEPT ![g] = "None"] /\ UNCHANGED channel
    /\ \E n : /\ Becomes(g, n) /\ Moves(runtime[g], n) /\ SameView(runtime[g], n)
              /\ n.pc = IF ack[g] = "Accepted" THEN "complete" ELSE "joining"

(* Only the pool of a live runtime changes, with its books kept.           *)
LEMMA LivePoolChanged ==
    ASSUME NEW o, IsLive(o), NEW x, IsPool(x), x.accepting, Kept(o.sup, x),
           NEW n, n = [o EXCEPT !.pool = x]
    PROVE  Quiet(o, n)
<1>1. PICK a, b, c, d, e, f, p, h : o = LiveRecord(a, b, c, d, e, f, p, h)
  BY LiveFields
<1>2. n = LiveRecord(a, b, c, d, e, f, x, h)
  BY <1>1 DEF LiveRecord
<1>3. /\ o.pc = a /\ o.stop = b /\ o.sup = d /\ o.passive = e /\ o.reconciliation = h
  BY <1>1 DEF LiveRecord
<1>4. a \in LivePcs /\ b \in BOOLEAN /\ IsSup(d) /\ IsKnown(h)
  BY <1>3, LiveFields
<1>5. /\ IsLive(n) /\ IsRuntime(n) /\ n # Absent
      /\ n.pc = a /\ n.stop = b /\ n.sup = d /\ n.passive = e
  BY <1>2, <1>3, <1>4, LiveMade
<1>6. a \notin EndPcs
  BY <1>4 DEF LivePcs, TurnPcs, EndPcs
<1> QED
  BY <1>3, <1>5, <1>6 DEF Quiet, Moves, SameView

(* Only the pool of a runtime that ends changes.                           *)
LEMMA EndingPoolChanged ==
    ASSUME NEW o, IsEnding(o), NEW x, IsPool(x), x.queue = <<>>, Counted(x),
           NEW n, n = [o EXCEPT !.pool = x]
    PROVE  Quiet(o, n)
<1>1. PICK a, h : o = [pc |-> "joining", pool |-> a, reconciliation |-> h] /\ IsKnown(h)
  BY DEF IsEnding
<1>2. n = [pc |-> "joining", pool |-> x, reconciliation |-> h]
  BY <1>1
<1>3. n.pc = "joining" /\ n.pool = x /\ n.reconciliation = h /\ o.pc = "joining"
  BY <1>1, <1>2
<1>4. IsEnding(n)
  BY <1>1, <1>2, <1>3 DEF IsEnding
<1>5. n # Absent
  BY <1>3 DEF Absent
<1> QED
  BY <1>3, <1>4, <1>5 DEF Quiet, Moves, SameView, IsRuntime, EndPcs, AckPcs

(* A worker's step.                                                        *)
LEMMA WorkerIsQuiet ==
    ASSUME Runtimes, NEW g \in Generations, NEW w \in Workers, WorkerStep(g, w)
    PROVE  QuietStep(g) /\ UNCHANGED <<ctl, loop, admin, process>>
<1>1. IsRuntime(runtime[g]) /\ runtime[g] # Absent /\ runtime[g].pc # "stopped"
  BY DEF Runtimes, WorkerStep, Alive, Exists
<1>2. UNCHANGED <<channel, ack>> /\ UNCHANGED <<ctl, loop, admin, process>>
  BY DEF WorkerStep, Mine
<1>3. PICK o : o = runtime[g]
  OBVIOUS
<1>4. PICK p : p = o.pool
  OBVIOUS
<1>5. IsLive(o) \/ IsEnding(o)
  BY <1>1, <1>3, RuntimeByPc DEF EndPcs
<1>6. IsPool(p)
  BY <1>4, <1>5 DEF IsLive, IsEnding
<1>7. PICK x : /\ runtime' = [runtime EXCEPT ![g] = [o EXCEPT !.pool = x]]
               /\ \/ CanTake(p, w) /\ x = TakeWork(p, w)
                  \/ CanFinish(p, w) /\ \E ok \in BOOLEAN : x = FinishProbe(p, w, ok)
  <2>1. CASE CanTake(p, w) /\ runtime' = [runtime EXCEPT ![g].pool = TakeWork(p, w)]
    BY <1>3, <2>1
  <2>2. CASE /\ CanFinish(p, w)
             /\ \E ok \in {ProbeOutcome(b) = "Succeeded" : b \in PeerBehaviour} :
                   runtime' = [runtime EXCEPT ![g].pool = FinishProbe(p, w, ok)]
    <3>1. PICK ok \in BOOLEAN : runtime' = [runtime EXCEPT ![g].pool = FinishProbe(p, w, ok)]
      BY <2>2
    <3> QED
      BY <1>3, <2>2, <3>1
  <2> QED
    BY <1>3, <1>4, <2>1, <2>2 DEF WorkerStep
<1>8. PICK n : n = [o EXCEPT !.pool = x]
  OBVIOUS
<1>9. CASE IsLive(o)
  <2>1. p.accepting /\ Kept(o.sup, p) /\ Counted(p)
    BY <1>4, <1>9 DEF IsLive, Kept
  <2>2. ASSUME CanTake(p, w) /\ x = TakeWork(p, w)
        PROVE  Quiet(o, n)
    <3>a. IsPool(x) /\ Handed(p, w, x)
      BY <1>6, <2>2, WorkIsTaken
    <3>1. IsPool(x) /\ x.accepting
      BY <2>1, <3>a DEF Handed
    <3>2. Kept(o.sup, x)
      BY <1>6, <2>1, <2>2, TakenIsKept
    <3> QED
      BY <1>8, <1>9, <3>1, <3>2, LivePoolChanged
  <2>3. ASSUME CanFinish(p, w) /\ \E ok \in BOOLEAN : x = FinishProbe(p, w, ok)
        PROVE  Quiet(o, n)
    <3>1. IsPool(x) /\ Finished(p, w, x) /\ Counted(x)
      BY <1>6, <2>1, <2>3, ProbeIsFinished
    <3>2. Kept(o.sup, x)
      BY <1>6, <2>1, <3>1, FinishedIsKept
    <3>3. x.accepting
      BY <2>1, <3>1 DEF Finished
    <3> QED
      BY <1>8, <1>9, <3>1, <3>2, <3>3, LivePoolChanged
  <2>4. Quiet(o, n)
    BY <1>7, <2>2, <2>3
  <2> QED
    BY <1>1, <1>2, <1>3, <1>7, <1>8, <2>4 DEF QuietStep, Becomes
<1>10. CASE IsEnding(o)
  <2>1. p.queue = <<>> /\ Counted(p)
    BY <1>4, <1>10 DEF IsEnding
  <2>2. PICK ok \in BOOLEAN : CanFinish(p, w) /\ x = FinishProbe(p, w, ok)
    BY <1>7, <2>1 DEF CanTake
  <2>3. IsPool(x) /\ Finished(p, w, x) /\ Counted(x)
    BY <1>6, <2>1, <2>2, ProbeIsFinished
  <2>4. x.queue = <<>>
    BY <2>1, <2>3 DEF Finished
  <2>5. Quiet(o, n)
    BY <1>8, <1>10, <2>3, <2>4, EndingPoolChanged
  <2> QED
    BY <1>1, <1>2, <1>3, <1>7, <1>8, <2>5 DEF QuietStep, Becomes
<1> QED
  BY <1>5, <1>9, <1>10

(* The workers of a runtime that ends are joined.                          *)
LEMMA JoinedIsQuiet ==
    ASSUME Runtimes, NEW g \in Generations, ThreadJoined(g)
    PROVE  QuietStep(g) /\ UNCHANGED <<ctl, loop, admin, process>>
<1>1. IsRuntime(runtime[g]) /\ runtime[g] # Absent /\ runtime[g].pc = "joining"
  BY DEF Runtimes, ThreadJoined, At, Exists
<1>2. UNCHANGED <<channel, ack>> /\ UNCHANGED <<ctl, loop, admin, process>>
  BY DEF ThreadJoined, Mine
<1>3. PICK n : n = [pc |-> "stopped", reconciliation |-> runtime[g].reconciliation]
  OBVIOUS
<1>4. IsKnown(runtime[g].reconciliation)
  BY <1>1, RuntimeByPc
<1>5. n.pc = "stopped" /\ n.reconciliation = runtime[g].reconciliation
  BY <1>3
<1>6. IsStopped(n) /\ n # Absent
  BY <1>3, <1>4, <1>5 DEF IsStopped, Absent
<1>7. Quiet(runtime[g], n)
  BY <1>1, <1>5, <1>6 DEF Quiet, Moves, SameView, IsRuntime, EndPcs, AckPcs
<1>8. Becomes(g, n)
  BY <1>3 DEF ThreadJoined, Becomes
<1> QED
  BY <1>1, <1>2, <1>7, <1>8 DEF QuietStep

(* An observation is handed to the active runtime, or lost.                *)
LEMMA ObservationIsQuiet ==
    ASSUME Runtimes, Numbers, SubmitObservation
    PROVE  /\ UNCHANGED <<channel, ack>> /\ UNCHANGED <<ctl, loop, admin, process>>
           /\ runtime' = runtime \/ (ctl.active \in Generations /\ QuietStep(ctl.active))
<1>1. UNCHANGED <<channel, ack>> /\ UNCHANGED <<ctl, loop, admin, process>>
  BY DEF SubmitObservation
<1>2. SUFFICES ASSUME runtime' # runtime
               PROVE  ctl.active \in Generations /\ QuietStep(ctl.active)
  BY <1>1
<1>3. PICK g : g = ctl.active
  OBVIOUS
<1>4. PICK x : Listens(g) /\ runtime' = [runtime EXCEPT ![g].observations = x]
  BY <1>2, <1>3 DEF SubmitObservation
<1>5. g \in Generations /\ runtime[g] # Absent /\ runtime[g].pc \notin EndPcs /\ IsRuntime(runtime[g])
  BY <1>4 DEF Listens, Alive, Exists, EndPcs, Runtimes
<1>6. PICK o : o = runtime[g]
  OBVIOUS
<1>7. IsLive(o)
  BY <1>5, <1>6, RuntimeByPc
<1>8. PICK n : n = [o EXCEPT !.observations = x]
  OBVIOUS
<1>9. PICK a, b, c, d, e, f, p, h : o = LiveRecord(a, b, c, d, e, f, p, h)
  BY <1>7, LiveFields
<1>10. n = LiveRecord(a, b, c, d, e, x, p, h)
  BY <1>8, <1>9 DEF LiveRecord
<1>11. /\ o.pc = a /\ o.stop = b /\ o.sup = d /\ o.passive = e /\ o.pool = p /\ o.reconciliation = h
  BY <1>9 DEF LiveRecord
<1>12. /\ a \in LivePcs /\ b \in BOOLEAN /\ IsSup(d) /\ IsKnown(h) /\ IsPool(p) /\ p.accepting
       /\ Kept(d, p)
  BY <1>7, <1>11, LiveFields
<1>13. /\ IsLive(n) /\ IsRuntime(n) /\ n # Absent
       /\ n.pc = a /\ n.stop = b /\ n.sup = d /\ n.passive = e
  BY <1>10, <1>12, LiveMade
<1>14. Quiet(o, n)
  BY <1>5, <1>6, <1>11, <1>13 DEF Quiet, Moves, SameView
<1>15. Becomes(g, n)
  BY <1>4, <1>6, <1>8 DEF Becomes
<1> QED
  BY <1>1, <1>3, <1>5, <1>6, <1>14, <1>15 DEF QuietStep

(* A live runtime before its next step, by its fields.                     *)
LEMMA LiveParts ==
    ASSUME NEW o, IsLive(o)
    PROVE  \E a \in LivePcs, b \in BOOLEAN : \E c, d, e, f, p, h :
              /\ o = LiveRecord(a, b, c, d, e, f, p, h)
              /\ o.pc = a /\ o.stop = b /\ o.drained = c /\ o.sup = d /\ o.passive = e
              /\ o.observations = f /\ o.pool = p /\ o.reconciliation = h
              /\ IsSup(d) /\ IsPool(p) /\ p.accepting /\ IsKnown(h) /\ Kept(d, p)
BY LiveFields

(* What a supervisor knows can be stored.                                  *)
LEMMA SnapshotIsKnown ==
    ASSUME NEW s, IsSup(s)
    PROVE  IsKnown(ReconciliationSnapshot(s))
<1>1. PICK k : k = ReconciliationSnapshot(s)
  OBVIOUS
<1>2. k = [rev |-> s.rev, health |-> s.health]
  BY <1>1 DEF ReconciliationSnapshot
<1>3. k.rev = s.rev /\ k.health = s.health
  BY <1>2
<1>4. IsKnown(k)
  BY <1>2, <1>3 DEF IsKnown, IsSup
<1> QED
  BY <1>1, <1>4

(* A thread gets its answer.                                               *)
LEMMA AckIsAnswered ==
    ASSUME Runtimes, NEW g \in Generations, NEW pc \in AckPcs, ThreadAck(g, pc)
    PROVE  AnswerStep(g) /\ UNCHANGED <<ctl, loop, admin, process>>
<1>1. /\ IsRuntime(runtime[g]) /\ runtime[g] # Absent /\ runtime[g].pc = pc
      /\ ack[g] \in {"Accepted", "Rejected"} /\ ack' = [ack EXCEPT ![g] = "None"]
      /\ UNCHANGED channel /\ UNCHANGED <<ctl, loop, admin, process>>
  BY DEF Runtimes, ThreadAck, At, Exists, Mine
<1>2. PICK o : o = runtime[g]
  OBVIOUS
<1>3. pc \in LivePcs /\ pc \notin EndPcs /\ pc # "turn" /\ pc # "prepared" /\ o.pc = pc
  BY <1>1, <1>2 DEF AckPcs, LivePcs, TurnPcs, EndPcs
<1>4. IsLive(o)
  BY <1>1, <1>2, <1>3, RuntimeByPc
<1>5. CASE ack[g] = "Accepted"
  <2>1. PICK n : n = [o EXCEPT !.pc = "complete"]
    OBVIOUS
  <2>2. Becomes(g, n)
    BY <1>2, <1>5, <2>1 DEF ThreadAck, Goto, Becomes
  <2>3. PICK a \in LivePcs, b \in BOOLEAN : \E c, d, e, f, p, h :
              /\ o = LiveRecord(a, b, c, d, e, f, p, h)
              /\ o.pc = a /\ o.stop = b /\ o.drained = c /\ o.sup = d /\ o.passive = e
              /\ o.observations = f /\ o.pool = p /\ o.reconciliation = h
              /\ IsSup(d) /\ IsPool(p) /\ p.accepting /\ IsKnown(h) /\ Kept(d, p)
    BY <1>4, LiveParts
  <2>4. PICK c, d, e, f, p, h :
              /\ o = LiveRecord(a, b, c, d, e, f, p, h)
              /\ o.pc = a /\ o.stop = b /\ o.drained = c /\ o.sup = d /\ o.passive = e
              /\ o.observations = f /\ o.pool = p /\ o.reconciliation = h
              /\ IsSup(d) /\ IsPool(p) /\ p.accepting /\ IsKnown(h) /\ Kept(d, p)
    BY <2>3
  <2>5. n = LiveRecord("complete", b, c, d, e, f, p, h)
    BY <2>1, <2>4 DEF LiveRecord
  <2>6. "complete" \in LivePcs /\ "complete" \notin EndPcs
    BY DEF LivePcs, TurnPcs, EndPcs
  <2>7. /\ IsLive(n) /\ IsRuntime(n) /\ n # Absent
        /\ n.pc = "complete" /\ n.stop = b /\ n.sup = d /\ n.passive = e
    BY <2>4, <2>5, <2>6, LiveMade
  <2>8. Moves(o, n) /\ SameView(o, n)
    BY <1>3, <2>4, <2>6, <2>7 DEF Moves, SameView
  <2> QED
    BY <1>1, <1>2, <1>5, <2>2, <2>7, <2>8 DEF AnswerStep
<1>6. CASE ack[g] = "Rejected"
  <2>1. PICK n : n = Ending(o)
    OBVIOUS
  <2>2. Becomes(g, n)
    BY <1>2, <1>6, <2>1 DEF ThreadAck, StopThread, Becomes
  <2>3. IsRuntime(n) /\ n # Absent /\ n.pc = "joining" /\ n.pc \in EndPcs
    BY <1>4, <2>1, EndingMade
  <2>4. Moves(o, n) /\ SameView(o, n)
    BY <1>3, <2>3 DEF Moves, SameView
  <2> QED
    BY <1>1, <1>2, <1>6, <2>2, <2>3, <2>4 DEF AnswerStep
<1> QED
  BY <1>1, <1>5, <1>6

(* A thread takes a completion, or ends its turn.                          *)
LEMMA CompleteCases ==
    ASSUME Runtimes, NEW g \in Generations, ThreadComplete(g)
    PROVE  (QuietStep(g) \/ SendStep(g)) /\ UNCHANGED <<ctl, loop, admin, process>>
<1>1. /\ IsRuntime(runtime[g]) /\ runtime[g] # Absent /\ runtime[g].pc = "complete"
      /\ UNCHANGED <<ctl, loop, admin, process>>
  BY DEF Runtimes, ThreadComplete, At, Exists, Mine
<1>2. PICK o : o = runtime[g]
  OBVIOUS
<1>3. /\ "complete" \in LivePcs /\ "complete" \notin EndPcs /\ "complete" \in TurnPcs
      /\ "complete" \notin AckPcs /\ "turn" \in LivePcs /\ "turn" \notin EndPcs
      /\ "ackProbe" \in LivePcs /\ "ackProbe" \notin EndPcs /\ "ackProbe" \in AckPcs
  BY DEF AckPcs, LivePcs, TurnPcs, EndPcs
<1>4. IsLive(o)
  BY <1>1, <1>2, <1>3, RuntimeByPc
<1>5. PICK a \in LivePcs, b \in BOOLEAN : \E c, d, e, f, p, h :
            /\ o = LiveRecord(a, b, c, d, e, f, p, h)
            /\ o.pc = a /\ o.stop = b /\ o.drained = c /\ o.sup = d /\ o.passive = e
            /\ o.observations = f /\ o.pool = p /\ o.reconciliation = h
            /\ IsSup(d) /\ IsPool(p) /\ p.accepting /\ IsKnown(h) /\ Kept(d, p)
  BY <1>4, LiveParts
<1>6. PICK c, d, e, f, p, h :
            /\ o = LiveRecord(a, b, c, d, e, f, p, h)
            /\ o.pc = a /\ o.stop = b /\ o.drained = c /\ o.sup = d /\ o.passive = e
            /\ o.observations = f /\ o.pool = p /\ o.reconciliation = h
            /\ IsSup(d) /\ IsPool(p) /\ p.accepting /\ IsKnown(h) /\ Kept(d, p)
  BY <1>5
<1>7. CASE (p.done = <<>> \/ c = MaxDrain) /\ o.stop
  <2>1. PICK n : n = Ending(o)
    OBVIOUS
  <2>2. Becomes(g, n) /\ UNCHANGED <<channel, ack>>
    BY <1>2, <1>6, <1>7, <2>1 DEF ThreadComplete, StopThread, Becomes
  <2>3. IsRuntime(n) /\ n # Absent /\ n.pc = "joining" /\ n.pc \in EndPcs
    BY <1>4, <2>1, EndingMade
  <2>4. Quiet(o, n)
    BY <1>1, <1>2, <1>3, <1>7, <2>3 DEF Quiet, Moves, SameView
  <2> QED
    BY <1>1, <1>2, <2>2, <2>4 DEF QuietStep
<1>8. CASE (p.done = <<>> \/ c = MaxDrain) /\ ~o.stop
  <2>1. PICK n : n = [o EXCEPT !.pc = "turn", !.drained = 0]
    OBVIOUS
  <2>2. Becomes(g, n) /\ UNCHANGED <<channel, ack>>
    BY <1>2, <1>6, <1>8, <2>1 DEF ThreadComplete, Becomes
  <2>3. n = LiveRecord("turn", b, 0, d, e, f, p, h)
    BY <2>1, <1>6 DEF LiveRecord
  <2>4. /\ IsLive(n) /\ IsRuntime(n) /\ n # Absent
        /\ n.pc = "turn" /\ n.stop = b /\ n.sup = d /\ n.passive = e
    BY <1>3, <1>6, <2>3, LiveMade
  <2>5. Quiet(o, n)
    BY <1>1, <1>2, <1>3, <1>6, <1>8, <2>4 DEF Quiet, Moves, SameView
  <2> QED
    BY <1>1, <1>2, <2>2, <2>5 DEF QuietStep
<1>9. CASE ~(p.done = <<>> \/ c = MaxDrain)
  <2>1. PICK x : x = Head(p.done)
    OBVIOUS
  <2>2. PICK s : s = ProbeResult(d, x.request, x.ok)
    OBVIOUS
  <2>3. PICK r : r = TakeCompletion(p)
    OBVIOUS
  <2>4. PICK pc : pc = IF AvailabilitySnapshot(s) # AvailabilitySnapshot(d) THEN "ackProbe" ELSE "complete"
    OBVIOUS
  <2>5. PICK k : k = ReconciliationSnapshot(s)
    OBVIOUS
  <2>6. PICK n : n = [o EXCEPT !.sup = s, !.pool = r, !.drained = @ + 1, !.reconciliation = k, !.pc = pc]
    OBVIOUS
  <2>7. /\ Becomes(g, n)
        /\ IF AvailabilitySnapshot(s) # AvailabilitySnapshot(d)
           THEN Send(g, Publish(g, s, e)) ELSE UNCHANGED <<channel, ack>>
    <3>1. n = [o EXCEPT !.sup = s, !.pool = TakeCompletion(@), !.drained = @ + 1,
                        !.reconciliation = k, !.pc = pc]
      BY <1>6, <2>3, <2>6
    <3> QED
      BY <1>2, <1>6, <1>9, <2>1, <2>2, <2>4, <2>5, <3>1 DEF ThreadComplete, Becomes
  <2>8. n = LiveRecord(pc, b, c + 1, s, e, f, r, k)
    BY <2>6, <1>6 DEF LiveRecord
  <2>9. p.done # <<>> /\ Counted(p) /\ Placed(d, p) /\ p.done \in Seq(Completions)
    BY <1>6, <1>9, PoolFields DEF Kept
  <2>10. IsPool(r) /\ Drained(p, r) /\ Counted(r)
    BY <1>6, <2>3, <2>9, CompletionIsTaken
  <2>11. x \in Completions /\ x = p.done[1] /\ 1 \in 1 .. Len(p.done)
    BY <2>1, <2>9, HeadTailProperties, EmptySeq
  <2>12. x.request \in AnyRequest /\ x.ok \in BOOLEAN /\ InPlace(d, x.request)
    BY <2>9, <2>11 DEF Completions, Placed
  <2>13. IsSup(s) /\ Rescheduled(d, x.request.key, s)
    BY <1>6, <2>2, <2>12, ResultIsApplied
  <2>14. Kept(s, r)
    BY <1>6, <2>10, <2>11, <2>13, ResultIsKept
  <2>15. IsKnown(k)
    BY <2>5, <2>13, SnapshotIsKnown
  <2>16. r.accepting /\ s.rev = d.rev
    BY <1>6, <2>10, <2>13 DEF Drained, Rescheduled
  <2>17. pc \in LivePcs /\ pc \notin EndPcs /\ pc # "prepared" /\ pc # "turn"
    BY <1>3, <2>4
  <2>18. /\ IsLive(n) /\ IsRuntime(n) /\ n # Absent
         /\ n.pc = pc /\ n.stop = b /\ n.sup = s /\ n.passive = e
    BY <2>8, <2>10, <2>13, <2>14, <2>15, <2>16, <2>17, LiveMade
  <2>19. Moves(o, n)
    BY <1>1, <1>2, <1>3, <1>6, <2>16, <2>17, <2>18 DEF Moves
  <2>20. CASE AvailabilitySnapshot(s) # AvailabilitySnapshot(d)
    <3>1. n.pc \in AckPcs /\ Send(g, Publish(g, n.sup, n.passive))
      BY <1>3, <2>4, <2>7, <2>18, <2>20
    <3> QED
      BY <1>1, <1>2, <2>7, <2>19, <3>1 DEF SendStep
  <2>21. CASE AvailabilitySnapshot(s) = AvailabilitySnapshot(d)
    <3>1. SameView(o, n)
      BY <1>6, <2>18, <2>21 DEF SameView
    <3>2. Quiet(o, n)
      BY <1>1, <1>2, <1>3, <2>17, <2>18, <2>19, <3>1 DEF Quiet
    <3> QED
      BY <1>1, <1>2, <2>7, <2>21, <3>2 DEF QuietStep
  <2> QED
    BY <2>20, <2>21
<1> QED
  BY <1>7, <1>8, <1>9

(* What the passive part of a turn comes to.                               *)
LEMMA PassiveCases ==
    ASSUME NEW g, NEW rt, ThreadPassive(g, rt)
    PROVE  \E after, obs, pc :
              /\ runtime' = [runtime EXCEPT ![g] =
                    [rt EXCEPT !.passive = after, !.pc = pc, !.observations = obs]]
              /\ \/ pc = "ackPassive" /\ Send(g, Publish(g, rt.sup, after))
                 \/ pc = "complete" /\ after = rt.passive /\ UNCHANGED <<channel, ack>>
<1>1. PICK elapsed \in SUBSET {u \in DOMAIN rt.passive : rt.passive[u].st = "Ejected"} :
        LET n == IF Len(rt.observations) < MaxDrain THEN Len(rt.observations) ELSE MaxDrain
            taken == SubSeq(rt.observations, 1, n)
            changed == \/ elapsed # {}
                       \/ \E i \in 1..n : ObservationApplied(rt.passive, rt.sup.rev, g, taken[i])
            after == IF ~changed THEN rt.passive
                     ELSE HandleObservations(ExpireCooldowns(rt.passive, elapsed), rt.sup.rev, g, taken)
        IN /\ runtime' = [runtime EXCEPT ![g] =
                 [rt EXCEPT !.passive = after, !.pc = IF changed THEN "ackPassive" ELSE "complete",
                            !.observations = SubSeq(@, n + 1, Len(@))]]
           /\ IF changed THEN Send(g, Publish(g, rt.sup, after)) ELSE UNCHANGED <<channel, ack>>
  BY Zenon DEF ThreadPassive
<1>2. PICK n : n = IF Len(rt.observations) < MaxDrain THEN Len(rt.observations) ELSE MaxDrain
  OBVIOUS
<1>3. PICK taken : taken = SubSeq(rt.observations, 1, n)
  OBVIOUS
<1>4. PICK changed \in BOOLEAN : changed =
         (\/ elapsed # {}
          \/ \E i \in 1..n : ObservationApplied(rt.passive, rt.sup.rev, g, taken[i]))
  OBVIOUS
<1>5. PICK after : after = IF ~changed THEN rt.passive
                     ELSE HandleObservations(ExpireCooldowns(rt.passive, elapsed), rt.sup.rev, g, taken)
  OBVIOUS
<1>6. PICK obs : obs = SubSeq(rt.observations, n + 1, Len(rt.observations))
  OBVIOUS
<1>7. /\ runtime' = [runtime EXCEPT ![g] =
            [rt EXCEPT !.passive = after, !.pc = IF changed THEN "ackPassive" ELSE "complete",
                       !.observations = obs]]
      /\ IF changed THEN Send(g, Publish(g, rt.sup, after)) ELSE UNCHANGED <<channel, ack>>
  BY <1>1, <1>2, <1>3, <1>4, <1>5, <1>6
<1>8. CASE changed
  <2>1. runtime' = [runtime EXCEPT ![g] =
            [rt EXCEPT !.passive = after, !.pc = "ackPassive", !.observations = obs]]
    BY <1>7, <1>8
  <2>2. Send(g, Publish(g, rt.sup, after))
    BY <1>7, <1>8
  <2> QED
    BY <2>1, <2>2, Zenon
<1>9. CASE ~changed
  <2>1. runtime' = [runtime EXCEPT ![g] =
            [rt EXCEPT !.passive = after, !.pc = "complete", !.observations = obs]]
    BY <1>7, <1>9
  <2>2. after = rt.passive /\ UNCHANGED <<channel, ack>>
    BY <1>5, <1>7, <1>9
  <2> QED
    BY <2>1, <2>2, Zenon
<1> QED
  BY <1>8, <1>9, ZenonT(30)

(* A thread takes its turn.                                                *)
LEMMA TurnCases ==
    ASSUME Runtimes, NEW g \in Generations, ThreadTurn(g)
    PROVE  (QuietStep(g) \/ SendStep(g)) /\ UNCHANGED <<ctl, loop, admin, process>>
<1>1. /\ IsRuntime(runtime[g]) /\ runtime[g] # Absent /\ runtime[g].pc = "turn"
      /\ UNCHANGED <<ctl, loop, admin, process>>
  BY DEF Runtimes, ThreadTurn, At, Exists, Mine
<1>2. PICK o : o = runtime[g]
  OBVIOUS
<1>3. /\ "complete" \in LivePcs /\ "complete" \notin EndPcs /\ "turn" \notin AckPcs
      /\ "turn" \in LivePcs /\ "turn" \notin EndPcs
      /\ "ackPassive" \in LivePcs /\ "ackPassive" \notin EndPcs /\ "ackPassive" \in AckPcs
  BY DEF AckPcs, LivePcs, TurnPcs, EndPcs
<1>4. IsLive(o)
  BY <1>1, <1>2, <1>3, RuntimeByPc
<1>5. PICK a \in LivePcs, b \in BOOLEAN : \E c, d, e, f, p, h :
            /\ o = LiveRecord(a, b, c, d, e, f, p, h)
            /\ o.pc = a /\ o.stop = b /\ o.drained = c /\ o.sup = d /\ o.passive = e
            /\ o.observations = f /\ o.pool = p /\ o.reconciliation = h
            /\ IsSup(d) /\ IsPool(p) /\ p.accepting /\ IsKnown(h) /\ Kept(d, p)
  BY <1>4, LiveParts
<1>6. PICK c, d, e, f, p, h :
            /\ o = LiveRecord(a, b, c, d, e, f, p, h)
            /\ o.pc = a /\ o.stop = b /\ o.drained = c /\ o.sup = d /\ o.passive = e
            /\ o.observations = f /\ o.pool = p /\ o.reconciliation = h
            /\ IsSup(d) /\ IsPool(p) /\ p.accepting /\ IsKnown(h) /\ Kept(d, p)
  BY <1>5
<1>7. PICK due \in DueSets(d) :
          LET t == HandleTick(d, p, due)
              rt == [o EXCEPT !.sup = t.sup, !.pool = t.pool] IN
          IF t.sup.running THEN ThreadPassive(g, rt)
          ELSE StopThread(g, rt) /\ UNCHANGED <<channel, ack>>
  BY <1>2, <1>6, Zenon DEF ThreadTurn
<1>8. PICK t : t = HandleTick(d, p, due)
  OBVIOUS
<1>9. PICK s, r : s = t.sup /\ r = t.pool
  OBVIOUS
<1>10. /\ IsSup(s) /\ s.rev = d.rev /\ s.health = d.health
       /\ IsPool(r) /\ r.accepting /\ Kept(s, r)
  BY <1>6, <1>8, <1>9, TickIsKept
<1>11. PICK rt : rt = [o EXCEPT !.sup = s, !.pool = r]
  OBVIOUS
<1>12. rt = LiveRecord(a, b, c, s, e, f, r, h)
  BY <1>6, <1>11 DEF LiveRecord
<1>13. rt.sup = s /\ rt.passive = e
  BY <1>12 DEF LiveRecord
<1>14. s.running = TRUE
  BY <1>10 DEF IsSup
<1>15. ThreadPassive(g, rt)
  BY <1>7, <1>8, <1>9, <1>11, <1>14
<1>16. PICK after, obs, pc :
              /\ runtime' = [runtime EXCEPT ![g] =
                    [rt EXCEPT !.passive = after, !.pc = pc, !.observations = obs]]
              /\ \/ pc = "ackPassive" /\ Send(g, Publish(g, rt.sup, after))
                 \/ pc = "complete" /\ after = rt.passive /\ UNCHANGED <<channel, ack>>
  BY <1>15, PassiveCases, Zenon
<1>17. PICK n : n = [rt EXCEPT !.passive = after, !.pc = pc, !.observations = obs]
  OBVIOUS
<1>18. Becomes(g, n)
  BY <1>16, <1>17 DEF Becomes
<1>19. n = LiveRecord(pc, b, c, s, after, obs, r, h)
  BY <1>12, <1>17 DEF LiveRecord
<1>20. pc \in LivePcs /\ pc \notin EndPcs /\ pc # "prepared" /\ pc # "turn"
  BY <1>3, <1>16
<1>21. /\ IsLive(n) /\ IsRuntime(n) /\ n # Absent
       /\ n.pc = pc /\ n.stop = b /\ n.sup = s /\ n.passive = after
  BY <1>6, <1>10, <1>19, <1>20, LiveMade
<1>22. Moves(o, n)
  BY <1>1, <1>2, <1>3, <1>6, <1>10, <1>20, <1>21 DEF Moves
<1>23. CASE pc = "ackPassive" /\ Send(g, Publish(g, rt.sup, after))
  <2>1. n.pc \in AckPcs /\ Send(g, Publish(g, n.sup, n.passive))
    BY <1>3, <1>13, <1>21, <1>23
  <2> QED
    BY <1>1, <1>2, <1>18, <1>22, <2>1 DEF SendStep
<1>24. CASE pc = "complete" /\ after = rt.passive /\ UNCHANGED <<channel, ack>>
  <2>1. AvailabilitySnapshot(s) = AvailabilitySnapshot(d)
    BY <1>10 DEF AvailabilitySnapshot
  <2>2. SameView(o, n)
    BY <1>6, <1>13, <1>21, <1>24, <2>1 DEF SameView
  <2>3. Quiet(o, n)
    BY <1>1, <1>2, <1>3, <1>20, <1>21, <1>22, <2>2 DEF Quiet
  <2> QED
    BY <1>1, <1>2, <1>18, <1>24, <2>3 DEF QuietStep
<1> QED
  BY <1>16, <1>23, <1>24

-----------------------------------------------------------------------------
(* The invariant, when a thread or a worker takes a step.                  *)

(* One runtime changes.                                                    *)
LEMMA OneChanges ==
    ASSUME Runtimes, NEW g \in Generations, NEW n, Becomes(g, n), IsRuntime(n)
    PROVE  /\ Runtimes' /\ runtime'[g] = n
           /\ \A x \in Generations : x # g => runtime'[x] = runtime[x]
<1>1. runtime = [x \in Generations |-> runtime[x]] /\ \A x \in Generations : IsRuntime(runtime[x])
  BY DEF Runtimes
<1>2. /\ runtime' = [x \in Generations |-> runtime'[x]] /\ runtime'[g] = n
      /\ \A x \in Generations : x # g => runtime'[x] = runtime[x]
  BY <1>1 DEF Becomes
<1>3. \A x \in Generations : IsRuntime(runtime'[x])
  BY <1>1, <1>2
<1>4. Runtimes'
  BY <1>2, <1>3 DEF Runtimes
<1> QED
  BY <1>2, <1>4

(* The part that holds for ever.                                           *)
LEMMA MoveKeepsAlways ==
    ASSUME Always, NEW g \in Generations, runtime[g] # Absent, NEW n, Becomes(g, n),
           Moves(runtime[g], n), runtime[g].pc = "prepared" => SameView(runtime[g], n),
           UNCHANGED <<ctl, loop, admin, process>>
    PROVE  Always'
<1>1. Runtimes /\ Numbers /\ Phases
  BY DEF Always
<1>2. IsRuntime(n) /\ n # Absent
  BY DEF Moves
<1>3. /\ Runtimes' /\ runtime'[g] = n
      /\ \A x \in Generations : x # g => runtime'[x] = runtime[x]
  BY <1>1, <1>2, OneChanges
<1>4. ctl' = ctl /\ admin' = admin
  OBVIOUS
<1>5. Numbers'
  <2>1. /\ ctl \in [active : GenOrNone, nextGen : Nat] /\ ctl.active < ctl.nextGen
        /\ ctl.active # None => runtime[ctl.active] # Absent
        /\ \A x \in Generations : x >= ctl.nextGen => runtime[x] = Absent
    BY <1>1 DEF Numbers
  <2>2. ctl.active # None => runtime'[ctl.active] # Absent
    <3>1. ctl.active # None => ctl.active \in Generations
      BY <2>1 DEF GenOrNone
    <3> QED
      BY <2>1, <3>1, <1>2, <1>3
  <2>3. \A x \in Generations : x >= ctl.nextGen => runtime'[x] = Absent
    BY <2>1, <1>3
  <2> QED
    BY <2>1, <2>2, <2>3, <1>4 DEF Numbers
<1>6. \A x, r : IsPrepared(x, r) => IsPrepared(x, r)'
  <2> SUFFICES ASSUME NEW x, NEW r, IsPrepared(x, r)
               PROVE  IsPrepared(x, r)'
    OBVIOUS
  <2>1. /\ x \in Generations /\ x # ctl.active /\ x < ctl.nextGen
        /\ runtime[x].pc = "prepared" /\ ~runtime[x].stop
        /\ runtime[x].sup.rev = r /\ runtime[x].passive = RegisterPassive(r)
    BY DEF IsPrepared
  <2>2. /\ runtime'[x].pc = "prepared" /\ ~runtime'[x].stop
        /\ runtime'[x].sup.rev = r /\ runtime'[x].passive = RegisterPassive(r)
    <3>1. CASE x # g
      BY <2>1, <3>1, <1>3
    <3>2. CASE x = g
      <4>1. n.pc = "prepared" /\ n.pc \notin EndPcs
        BY <2>1, <3>2 DEF Moves, EndPcs
      <4> QED
        BY <2>1, <3>2, <4>1, <1>3 DEF Moves, SameView
    <3> QED
      BY <3>1, <3>2
  <2> QED
    BY <2>1, <2>2, <1>4 DEF IsPrepared
<1>7. \A x : IsOver(x) => IsOver(x)'
  BY <1>3, <1>4 DEF IsOver, Moves
<1>8. Phases'
  BY <1>1, <1>4, <1>6, <1>7 DEF Phases
<1> QED
  BY <1>3, <1>5, <1>8 DEF Always

(* What is published depends on the availability, the revision and what    *)
(* the traffic showed.                                                     *)
LEMMA SameAvailability ==
    ASSUME NEW s, NEW t, s.rev = t.rev, AvailabilitySnapshot(s) = AvailabilitySnapshot(t),
           NEW passive
    PROVE  EffectiveAvailability(s, passive) = EffectiveAvailability(t, passive)
<1>1. DOMAIN s.health = DOMAIN t.health
  <2>1. DOMAIN AvailabilitySnapshot(s) = DOMAIN s.health /\ DOMAIN AvailabilitySnapshot(t) = DOMAIN t.health
    BY DEF AvailabilitySnapshot
  <2> QED
    BY <2>1
<1>2. \A u \in DOMAIN s.health : s.health[u].a = t.health[u].a
  <2> TAKE u \in DOMAIN s.health
  <2>1. AvailabilitySnapshot(s)[u] = s.health[u].a /\ AvailabilitySnapshot(t)[u] = t.health[u].a
    BY <1>1 DEF AvailabilitySnapshot
  <2> QED
    BY <2>1
<1> QED
  BY <1>1, <1>2 DEF EffectiveAvailability

(* A change that the loop need not hear of, of a runtime whose answer is   *)
(* not touched.                                                            *)
LEMMA QuietKeepsRunning ==
    ASSUME Always, WhileRunning, NEW g \in Generations, QuietStep(g),
           UNCHANGED <<ctl, loop, admin, process>>
    PROVE  WhileRunning'
<1>1. PICK n : Becomes(g, n) /\ Quiet(runtime[g], n)
  BY DEF QuietStep
<1>2. PICK o : o = runtime[g]
  OBVIOUS
<1>3. Runtimes /\ IsRuntime(n) /\ n # Absent /\ o # Absent
  BY <1>1, <1>2 DEF Always, Quiet, Moves, QuietStep
<1>4. /\ runtime'[g] = n /\ \A x \in Generations : x # g => runtime'[x] = runtime[x]
  BY <1>1, <1>3, OneChanges
<1>5. /\ ctl' = ctl /\ loop' = loop /\ admin' = admin /\ process' = process
      /\ channel' = channel /\ ack' = ack
  BY DEF QuietStep
<1>6. ActiveWorks /\ Lineage /\ Waits /\ Queued /\ Said /\ LoopFollows
  BY DEF WhileRunning
<1>7. /\ o.pc = "prepared" <=> n.pc = "prepared"
      /\ o.pc \in EndPcs => n.pc \in EndPcs
      /\ n.pc \notin EndPcs => n.stop = o.stop /\ n.sup.rev = o.sup.rev
      /\ n.pc = "turn" /\ o.pc # "turn" => ~n.stop
      /\ n.pc \notin EndPcs =>
            AvailabilitySnapshot(n.sup) = AvailabilitySnapshot(o.sup) /\ n.passive = o.passive
      /\ o.pc \in AckPcs => n.pc = o.pc
      /\ n.pc \in EndPcs => o.pc \in EndPcs \/ (o.pc \in TurnPcs /\ o.stop)
  BY <1>1, <1>2 DEF Quiet, Moves, SameView
<1>8. n.pc \in LivePcs \/ n.pc \in EndPcs
  BY <1>3, RuntimeByPc
<1>9. \A x \in Generations : runtime'[x].pc \notin EndPcs =>
          /\ runtime[x].pc \notin EndPcs
          /\ runtime'[x].stop = runtime[x].stop /\ runtime'[x].sup.rev = runtime[x].sup.rev
          /\ AvailabilitySnapshot(runtime'[x].sup) = AvailabilitySnapshot(runtime[x].sup)
          /\ runtime'[x].passive = runtime[x].passive
  BY <1>2, <1>4, <1>7
<1>10. Switched' = Switched
  BY <1>5 DEF Switched
<1>11. ActiveWorks'
  <2>1. /\ process.pc = "serving" /\ ctl.active \in Generations
        /\ runtime[ctl.active].pc \in TurnPcs \cup (IF Switched THEN EndPcs ELSE {})
        /\ runtime[ctl.active].pc \in TurnPcs => ~runtime[ctl.active].stop
    BY <1>6 DEF ActiveWorks
  <2>2. CASE ctl.active # g
    <3>1. runtime'[ctl.active] = runtime[ctl.active]
      BY <2>1, <2>2, <1>4
    <3> QED
      BY <2>1, <3>1, <1>5, <1>10 DEF ActiveWorks
  <2>3. CASE ctl.active = g
    <3>1. n.pc # "prepared" /\ (n.pc \in TurnPcs \/ n.pc \in EndPcs)
      BY <2>1, <2>3, <1>2, <1>7, <1>8 DEF LivePcs, TurnPcs, EndPcs
    <3>2. n.pc \in TurnPcs => o.pc \in TurnPcs /\ n.stop = o.stop
      BY <2>1, <2>3, <1>2, <1>7 DEF TurnPcs, EndPcs
    <3>3. n.pc \in EndPcs => Switched
      BY <2>1, <2>3, <1>2, <1>7 DEF TurnPcs, EndPcs
    <3>4. /\ n.pc \in TurnPcs \cup (IF Switched THEN EndPcs ELSE {})
          /\ n.pc \in TurnPcs => ~n.stop
      BY <2>1, <2>3, <1>2, <3>1, <3>2, <3>3
    <3> QED
      BY <2>1, <2>3, <3>4, <1>4, <1>5, <1>10 DEF ActiveWorks
  <2> QED
    BY <2>2, <2>3
<1>12. Lineage'
  <2>1. \A x \in Generations :
           x \notin {ctl.active, admin.next, admin.back, admin.previous} => runtime'[x] = Absent
    <3>1. \A x \in Generations :
           x \notin {ctl.active, admin.next, admin.back, admin.previous} => runtime[x] = Absent
      BY <1>6 DEF Lineage
    <3> QED
      BY <3>1, <1>2, <1>3, <1>4
  <2>2. admin.pc \in {"prepareRollback", "send", "ack"} => ctl.active < admin.next
    BY <1>6 DEF Lineage
  <2>3. ASSUME admin.pc = "joinPrevious"
        PROVE  /\ runtime'[admin.previous].pc \in {"ackPassive", "complete", "ackProbe"} \cup EndPcs
               /\ runtime'[admin.previous].pc \notin EndPcs => runtime'[admin.previous].stop
    <3>1. /\ admin.next = ctl.active /\ admin.previous \in Generations
          /\ admin.previous < ctl.active
          /\ runtime[admin.previous].pc \in {"ackPassive", "complete", "ackProbe"} \cup EndPcs
          /\ runtime[admin.previous].pc \notin EndPcs => runtime[admin.previous].stop
      BY <2>3, <1>6 DEF Lineage
    <3>2. CASE admin.previous # g
      BY <3>1, <3>2, <1>4
    <3>3. CASE admin.previous = g
      <4>1. o.pc # "prepared" /\ o.pc # "turn" /\ (o.pc \notin EndPcs => o.stop)
        BY <3>1, <3>3, <1>2 DEF EndPcs
      <4>2. n.pc \notin EndPcs => n.stop /\ n.pc # "turn" /\ n.pc # "prepared"
        BY <4>1, <1>7
      <4>3. n.pc \in {"ackPassive", "complete", "ackProbe"} \cup EndPcs
        BY <4>2, <1>8 DEF LivePcs, TurnPcs
      <4> QED
        BY <3>3, <4>2, <4>3, <1>4
    <3> QED
      BY <3>2, <3>3
  <2> QED
    BY <2>1, <2>2, <2>3, <1>5, <1>6 DEF Lineage
<1>13. Waits'
  <2>1. \A x \in Generations : ack[x] # "None" => runtime'[x].pc \in {"ackPassive", "ackProbe"}
    <3>1. \A x \in Generations : ack[x] # "None" => runtime[x].pc \in {"ackPassive", "ackProbe"}
      BY <1>6 DEF Waits
    <3> QED
      BY <3>1, <1>2, <1>4, <1>7 DEF AckPcs
  <2> QED
    BY <2>1, <1>5, <1>6 DEF Waits
<1>14. Queued'
  BY <1>5, <1>6 DEF Queued
<1>15. \A x \in Generations : ack[x] # "None" =>
          runtime'[x].pc \notin EndPcs /\ runtime'[x].pc \in AckPcs
  BY <1>13, <1>5 DEF Waits, AckPcs, EndPcs
<1>16. \A x \in Generations : runtime'[x].pc \notin EndPcs =>
          EffectiveAvailability(runtime'[x].sup, runtime'[x].passive)
             = EffectiveAvailability(runtime[x].sup, runtime[x].passive)
  <2> SUFFICES ASSUME NEW x \in Generations, runtime'[x].pc \notin EndPcs
               PROVE  EffectiveAvailability(runtime'[x].sup, runtime'[x].passive)
                        = EffectiveAvailability(runtime[x].sup, runtime[x].passive)
    OBVIOUS
  <2>1. /\ runtime'[x].sup.rev = runtime[x].sup.rev /\ runtime'[x].passive = runtime[x].passive
        /\ AvailabilitySnapshot(runtime'[x].sup) = AvailabilitySnapshot(runtime[x].sup)
    BY <1>9
  <2>2. PICK s, t : s = runtime'[x].sup /\ t = runtime[x].sup
    OBVIOUS
  <2>3. EffectiveAvailability(s, runtime[x].passive) = EffectiveAvailability(t, runtime[x].passive)
    BY <2>1, <2>2, SameAvailability
  <2> QED
    BY <2>1, <2>2, <2>3
<1>17. \A x, r : IsPrepared(x, r) => /\ runtime'[x].pc \notin EndPcs /\ x \in Generations
                                     /\ runtime'[x].pc = "prepared"
  BY <1>2, <1>4, <1>7 DEF IsPrepared, EndPcs
<1>18. admin.pc = "ack" => IsPrepared(admin.next, admin.rev)
  BY DEF Always, Phases
<1>19. Said'
  <2> SUFFICES ASSUME NEW i \in 1 .. Len(channel) PROVE Says(channel[i])'
    BY <1>5 DEF Said
  <2>1. PICK m : m = channel[i]
    OBVIOUS
  <2>2. Says(m) /\ ack[m.from] = "Waiting"
    BY <2>1, <1>6 DEF Said, Queued
  <2>3. m.from = Operator => AvailabilitySnapshot(runtime'[admin.next].sup) = AvailabilitySnapshot(runtime[admin.next].sup)
    <3>1. m.from = Operator => admin.pc = "ack"
      BY <2>2, <1>6 DEF Waits
    <3> QED
      BY <3>1, <1>9, <1>17, <1>18
  <2>4. m.from = ctl.active =>
           Publish(ctl.active, runtime'[ctl.active].sup, runtime'[ctl.active].passive)
             = Publish(ctl.active, runtime[ctl.active].sup, runtime[ctl.active].passive)
    <3>1. ctl.active \in Generations
      BY <1>6 DEF ActiveWorks
    <3>2. m.from = ctl.active => runtime'[ctl.active].pc \notin EndPcs
      BY <3>1, <2>2, <1>15
    <3> QED
      BY <3>1, <3>2, <1>9, <1>16 DEF Publish
  <2>5. Says(m)'
    BY <2>2, <2>3, <2>4, <1>5 DEF Says
  <2> QED
    BY <2>1, <2>5, <1>5
<1>20. LoopFollows'
  <2>1. ASSUME Switched
        PROVE  AvailabilitySnapshot(runtime'[admin.next].sup) = AvailabilitySnapshot(runtime[admin.next].sup)
    BY <2>1, <1>9, <1>17, <1>18 DEF Switched
  <2>2. ASSUME ~Switched
        PROVE  /\ runtime'[ctl.active].sup.rev = runtime[ctl.active].sup.rev
               /\ EffectiveAvailability(runtime'[ctl.active].sup, runtime'[ctl.active].passive)
                    = EffectiveAvailability(runtime[ctl.active].sup, runtime[ctl.active].passive)
    <3>1. ctl.active \in Generations /\ runtime'[ctl.active].pc \notin EndPcs
      BY <2>2, <1>5, <1>10, <1>11 DEF ActiveWorks, TurnPcs, EndPcs
    <3> QED
      BY <3>1, <1>9, <1>16
  <2> QED
    BY <2>1, <2>2, <1>5, <1>6, <1>10 DEF LoopFollows, Agrees
<1> QED
  BY <1>11, <1>12, <1>13, <1>14, <1>19, <1>20 DEF WhileRunning

(* The operator is no generation.                                          *)
LEMMA OperatorIsNoGeneration ==
    Operator \notin Generations /\ None \notin Generations /\ Senders = {Operator} \cup Generations
BY RuntimeAssumption DEF Operator, None, Senders

(* A thread that gets its answer goes on or, refused, ends.  The active    *)
(* runtime is refused only when the loop has left it.                      *)
LEMMA AnswerKeepsRunning ==
    ASSUME Always, WhileRunning, NEW g \in Generations, AnswerStep(g),
           UNCHANGED <<ctl, loop, admin, process>>
    PROVE  WhileRunning'
<1>1. PICK n : /\ Becomes(g, n) /\ Moves(runtime[g], n) /\ SameView(runtime[g], n)
               /\ n.pc = IF ack[g] = "Accepted" THEN "complete" ELSE "joining"
  BY DEF AnswerStep
<1>2. PICK o : o = runtime[g]
  OBVIOUS
<1>3. Runtimes /\ IsRuntime(n) /\ n # Absent
  BY <1>1 DEF Always, Moves
<1>4. /\ runtime'[g] = n /\ \A x \in Generations : x # g => runtime'[x] = runtime[x]
  BY <1>1, <1>3, OneChanges
<1>5. /\ ctl' = ctl /\ loop' = loop /\ admin' = admin /\ process' = process
      /\ channel' = channel /\ ack' = [ack EXCEPT ![g] = "None"]
      /\ o.pc \in AckPcs /\ ack[g] \in {"Accepted", "Rejected"}
  BY <1>2 DEF AnswerStep
<1>6. ActiveWorks /\ Lineage /\ Waits /\ Queued /\ Said /\ LoopFollows
  BY DEF WhileRunning
<1>7. ack \in [Senders -> {"None", "Waiting", "Accepted", "Rejected"}] /\ g \in Senders /\ g # Operator
  BY <1>6, OperatorIsNoGeneration DEF Waits
<1>8. /\ ack' \in [Senders -> {"None", "Waiting", "Accepted", "Rejected"}]
      /\ ack'[g] = "None" /\ \A x \in Senders : x # g => ack'[x] = ack[x]
  BY <1>5, <1>7
<1>9. Operator \in Senders /\ ack'[Operator] = ack[Operator]
  BY <1>7, <1>8, OperatorIsNoGeneration
<1>10. Switched' = Switched
  BY <1>5, <1>9 DEF Switched
<1>11. /\ n.pc \in {"complete", "joining"} /\ o.pc \notin EndPcs /\ o.pc \in TurnPcs
       /\ o.pc # "prepared" /\ o # Absent
       /\ n.pc \notin EndPcs => /\ n.stop = o.stop /\ n.sup.rev = o.sup.rev
                                /\ AvailabilitySnapshot(n.sup) = AvailabilitySnapshot(o.sup)
                                /\ n.passive = o.passive
  BY <1>1, <1>2, <1>5 DEF Moves, SameView, AckPcs, EndPcs, TurnPcs, Absent
<1>12. ctl.active = g /\ ~Switched => n.pc = "complete"
  BY <1>1, <1>5, <1>6 DEF LoopFollows
<1>13. ActiveWorks'
  <2>1. /\ process.pc = "serving" /\ ctl.active \in Generations
        /\ runtime[ctl.active].pc \in TurnPcs \cup (IF Switched THEN EndPcs ELSE {})
        /\ runtime[ctl.active].pc \in TurnPcs => ~runtime[ctl.active].stop
    BY <1>6 DEF ActiveWorks
  <2>2. CASE ctl.active # g
    <3>1. runtime'[ctl.active] = runtime[ctl.active]
      BY <2>1, <2>2, <1>4
    <3> QED
      BY <2>1, <3>1, <1>5, <1>10 DEF ActiveWorks
  <2>3. CASE ctl.active = g
    <3>1. /\ n.pc \in TurnPcs \cup (IF Switched THEN EndPcs ELSE {})
          /\ n.pc \in TurnPcs => ~n.stop
      BY <2>1, <2>3, <1>2, <1>11, <1>12 DEF TurnPcs, EndPcs
    <3> QED
      BY <2>1, <2>3, <3>1, <1>4, <1>5, <1>10 DEF ActiveWorks
  <2> QED
    BY <2>2, <2>3
<1>14. Lineage'
  <2>1. \A x \in Generations :
           x \notin {ctl.active, admin.next, admin.back, admin.previous} => runtime'[x] = Absent
    <3>1. \A x \in Generations :
           x \notin {ctl.active, admin.next, admin.back, admin.previous} => runtime[x] = Absent
      BY <1>6 DEF Lineage
    <3> QED
      BY <3>1, <1>2, <1>4, <1>11
  <2>2. admin.pc \in {"prepareRollback", "send", "ack"} => ctl.active < admin.next
    BY <1>6 DEF Lineage
  <2>3. ASSUME admin.pc = "joinPrevious"
        PROVE  /\ runtime'[admin.previous].pc \in {"ackPassive", "complete", "ackProbe"} \cup EndPcs
               /\ runtime'[admin.previous].pc \notin EndPcs => runtime'[admin.previous].stop
    <3>1. /\ admin.previous \in Generations
          /\ runtime[admin.previous].pc \in {"ackPassive", "complete", "ackProbe"} \cup EndPcs
          /\ runtime[admin.previous].pc \notin EndPcs => runtime[admin.previous].stop
      BY <2>3, <1>6 DEF Lineage
    <3>2. CASE admin.previous # g
      BY <3>1, <3>2, <1>4
    <3>3. CASE admin.previous = g
      BY <3>1, <3>3, <1>2, <1>4, <1>11 DEF EndPcs
    <3> QED
      BY <3>2, <3>3
  <2> QED
    BY <2>1, <2>2, <2>3, <1>5, <1>6 DEF Lineage
<1>15. Waits'
  <2>1. \A x \in Generations : ack'[x] # "None" => runtime'[x].pc \in {"ackPassive", "ackProbe"}
    <3>1. \A x \in Generations : x \in Senders /\ (ack[x] # "None" => runtime[x].pc \in {"ackPassive", "ackProbe"})
      BY <1>6, OperatorIsNoGeneration DEF Waits
    <3> QED
      BY <3>1, <1>4, <1>8
  <2>2. ack'[Operator] # "None" => admin'.pc = "ack"
    BY <1>5, <1>6, <1>9 DEF Waits
  <2> QED
    BY <2>1, <2>2, <1>8 DEF Waits
<1>16. \A i \in 1 .. Len(channel) : /\ channel[i].from \in Senders /\ channel[i].from # g
                                    /\ ack'[channel[i].from] = "Waiting"
  <2> TAKE i \in 1 .. Len(channel)
  <2>1. channel[i] \in Messages /\ ack[channel[i].from] = "Waiting"
    BY <1>6, ElementOfSeq DEF Queued
  <2>2. channel[i].from \in Senders
    BY <2>1 DEF Messages
  <2> QED
    BY <2>1, <2>2, <1>5, <1>8
<1>17. Queued'
  <2>1. \A x \in Senders : ack'[x] = "Waiting" => \E i \in 1 .. Len(channel) : channel[i].from = x
    BY <1>6, <1>8 DEF Queued
  <2> QED
    BY <2>1, <1>5, <1>6, <1>16 DEF Queued
<1>18. \A x, r : IsPrepared(x, r) => runtime'[x] = runtime[x]
  BY <1>2, <1>4, <1>11 DEF IsPrepared
<1>19. admin.pc = "ack" => IsPrepared(admin.next, admin.rev)
  BY DEF Always, Phases
<1>20. Said'
  <2> SUFFICES ASSUME NEW i \in 1 .. Len(channel) PROVE Says(channel[i])'
    BY <1>5 DEF Said
  <2>1. PICK m : m = channel[i]
    OBVIOUS
  <2>2. Says(m) /\ ack[m.from] = "Waiting" /\ m.from # g
    BY <2>1, <1>6, <1>16 DEF Said, Queued
  <2>3. m.from = Operator => runtime'[admin.next] = runtime[admin.next]
    <3>1. m.from = Operator => admin.pc = "ack"
      BY <2>2, <1>6 DEF Waits
    <3> QED
      BY <3>1, <1>18, <1>19
  <2>4. m.from = ctl.active => runtime'[ctl.active] = runtime[ctl.active]
    BY <2>2, <1>4, <1>6 DEF ActiveWorks
  <2>5. Says(m)'
    BY <2>2, <2>3, <2>4, <1>5 DEF Says
  <2> QED
    BY <2>1, <2>5, <1>5
<1>21. LoopFollows'
  <2>1. Switched => runtime'[admin.next] = runtime[admin.next]
    BY <1>18, <1>19 DEF Switched
  <2>2. ctl.active \in Generations /\ ctl.active \in Senders
    BY <1>6, OperatorIsNoGeneration DEF ActiveWorks
  <2>3. ASSUME ~Switched
        PROVE  /\ runtime'[ctl.active].sup.rev = runtime[ctl.active].sup.rev
               /\ ack'[ctl.active] # "Rejected"
               /\ ack'[ctl.active] # "Waiting" => ack[ctl.active] # "Waiting"
               /\ EffectiveAvailability(runtime'[ctl.active].sup, runtime'[ctl.active].passive)
                    = EffectiveAvailability(runtime[ctl.active].sup, runtime[ctl.active].passive)
    <3>1. ack[ctl.active] # "Rejected"
      BY <2>3, <1>6 DEF LoopFollows
    <3>2. CASE ctl.active # g
      BY <2>2, <3>1, <3>2, <1>4, <1>8
    <3>3. CASE ctl.active = g
      <4>1. n.pc \notin EndPcs
        BY <2>3, <3>3, <1>12 DEF EndPcs
      <4>2. /\ n.sup.rev = o.sup.rev /\ n.passive = o.passive
            /\ AvailabilitySnapshot(n.sup) = AvailabilitySnapshot(o.sup)
        BY <4>1, <1>11
      <4>3. PICK s, t : s = n.sup /\ t = o.sup
        OBVIOUS
      <4>4. EffectiveAvailability(s, o.passive) = EffectiveAvailability(t, o.passive)
        BY <4>2, <4>3, SameAvailability
      <4> QED
        BY <3>3, <4>2, <4>3, <4>4, <1>2, <1>4, <1>5, <1>8
    <3> QED
      BY <3>2, <3>3
  <2> QED
    BY <2>1, <2>3, <1>5, <1>6, <1>10 DEF LoopFollows, Agrees
<1> QED
  BY <1>13, <1>14, <1>15, <1>17, <1>20, <1>21 DEF WhileRunning

(* Who may send: the active runtime, the one it replaced, and the operator *)
(* while there is none that was replaced.                                  *)
LEMMA WhoWorks ==
    ASSUME Always, WhileRunning, NEW x \in Generations, runtime[x].pc \in TurnPcs
    PROVE  x = ctl.active \/ (x = admin.previous /\ admin.pc = "joinPrevious")
<1>1. Phases /\ Lineage /\ Runtimes
  BY DEF Always, WhileRunning
<1>2. runtime[x] # Absent /\ runtime[x].pc \notin EndPcs /\ runtime[x].pc # "prepared" /\ x # None
  BY OperatorIsNoGeneration DEF Absent, TurnPcs, EndPcs
<1>3. x \in {ctl.active, admin.next, admin.back, admin.previous}
  BY <1>1, <1>2 DEF Lineage
<1>4. ~IsOver(x) /\ \A r : ~IsPrepared(x, r)
  BY <1>2 DEF IsOver, IsPrepared
<1>5. admin.pc \in {"idle", "prepareRollback", "send", "ack", "joinPrevious", "drop"}
  BY <1>1 DEF Phases
<1>6. x = admin.next => x = ctl.active
  BY <1>1, <1>2, <1>4, <1>5 DEF Phases, Lineage
<1>7. x # admin.back
  BY <1>1, <1>2, <1>4, <1>5 DEF Phases
<1>8. x = admin.previous => admin.pc = "joinPrevious"
  BY <1>1, <1>2 DEF Phases
<1> QED
  BY <1>3, <1>6, <1>7, <1>8

(* The channel has room when all that wait are one sender.                 *)
LEMMA OneWaits ==
    ASSUME Queued, NEW y, \A z \in Senders : ack[z] = "Waiting" => z = y
    PROVE  channel \in Seq(Messages) /\ Len(channel) \in Nat /\ Len(channel) < ChannelCapacity
<1>1. /\ channel \in Seq(Messages) /\ Len(channel) \in Nat
      /\ \A i \in 1 .. Len(channel) : ack[channel[i].from] = "Waiting"
      /\ \A i, j \in 1 .. Len(channel) : channel[i].from = channel[j].from => i = j
  BY DEF Queued
<1>2. \A i \in 1 .. Len(channel) : channel[i].from = y
  <2> TAKE i \in 1 .. Len(channel)
  <2>1. channel[i] \in Messages
    BY <1>1, ElementOfSeq
  <2>2. channel[i].from \in Senders
    BY <2>1 DEF Messages
  <2> QED
    BY <2>2, <1>1
<1>3. ~(Len(channel) >= 2)
  <2> SUFFICES ASSUME Len(channel) >= 2 PROVE FALSE
    OBVIOUS
  <2>1. 1 \in 1 .. Len(channel) /\ 2 \in 1 .. Len(channel)
    BY <1>1
  <2> QED
    BY <2>1, <1>1, <1>2
<1> QED
  BY <1>1, <1>3, RuntimeAssumption

(* What a supervisor says of its upstreams.                                *)
LEMMA AvailsAreTyped ==
    ASSUME NEW s, IsSup(s), NEW passive
    PROVE  /\ EffectiveAvailability(s, passive) \in Avails
           /\ DOMAIN EffectiveAvailability(s, passive) = KeysOf(s.rev)
           /\ AvailabilitySnapshot(s) \in Avails
           /\ DOMAIN AvailabilitySnapshot(s) = KeysOf(s.rev)
<1> DEFINE Values == {"Disabled", "Unknown", "Healthy", "Unhealthy"}
<1>1. s.rev \in Revisions /\ s.health \in [KeysOf(s.rev) -> HealthStates]
  BY DEF IsSup
<1>2. DOMAIN s.health = KeysOf(s.rev) /\ \A u \in KeysOf(s.rev) : s.health[u].a \in Values
  BY <1>1 DEF HealthStates
<1>3. KeysOf(s.rev) \in SUBSET Upstreams
  BY <1>1, TargetAssumption DEF KeysOf
<1>4. EffectiveAvailability(s, passive) \in [KeysOf(s.rev) -> Values]
  BY <1>2 DEF EffectiveAvailability
<1>5. AvailabilitySnapshot(s) \in [KeysOf(s.rev) -> Values]
  BY <1>2 DEF AvailabilitySnapshot
<1>6. [KeysOf(s.rev) -> Values] \subseteq Avails
  BY <1>3 DEF Avails
<1> QED
  BY <1>4, <1>5, <1>6

(* What a publication is made of.                                          *)
LEMMA PublishMade ==
    ASSUME NEW g \in Generations, NEW s, IsSup(s), NEW passive, NEW c, c = Publish(g, s, passive)
    PROVE  /\ c \in Commands /\ c.kind = "Publish" /\ c.gen = g /\ c.rev = s.rev
           /\ c.avail = EffectiveAvailability(s, passive)
<1>1. s.rev \in Revisions /\ EffectiveAvailability(s, passive) \in Avails
  BY AvailsAreTyped DEF IsSup
<1> QED
  BY <1>1 DEF Publish, Commands

(* A command is queued.                                                    *)
LEMMA CommandIsQueued ==
    ASSUME Waits, Queued, NEW x \in Senders, ack[x] = "None", NEW c \in Commands,
           ~Refused, Send(x, c)
    PROVE  /\ Queued'
           /\ ack' \in [Senders -> {"None", "Waiting", "Accepted", "Rejected"}]
           /\ ack'[x] = "Waiting" /\ \A z \in Senders : z # x => ack'[z] = ack[z]
           /\ \A i \in 1 .. Len(channel') :
                 \/ i \in 1 .. Len(channel) /\ channel'[i] = channel[i] /\ channel[i].from # x
                 \/ channel'[i] = [from |-> x, command |-> c]
<1>1. PICK m : m = [from |-> x, command |-> c]
  OBVIOUS
<1>2. channel' = Append(channel, m) /\ ack' = [ack EXCEPT ![x] = "Waiting"]
  BY <1>1 DEF Send
<1>3. m \in Messages /\ m.from = x
  BY <1>1 DEF Messages
<1>4. ack \in [Senders -> {"None", "Waiting", "Accepted", "Rejected"}]
  BY DEF Waits
<1>5. /\ ack' \in [Senders -> {"None", "Waiting", "Accepted", "Rejected"}]
      /\ ack'[x] = "Waiting" /\ \A z \in Senders : z # x => ack'[z] = ack[z]
  BY <1>2, <1>4
<1>6. /\ channel \in Seq(Messages) /\ Len(channel) \in Nat
      /\ \A i \in 1 .. Len(channel) : ack[channel[i].from] = "Waiting"
      /\ \A i, j \in 1 .. Len(channel) : channel[i].from = channel[j].from => i = j
      /\ \A z \in Senders : ack[z] = "Waiting" => \E i \in 1 .. Len(channel) : channel[i].from = z
  BY DEF Queued
<1>7. \A i \in 1 .. Len(channel) : channel[i].from \in Senders /\ channel[i].from # x
  <2> TAKE i \in 1 .. Len(channel)
  <2>1. channel[i] \in Messages
    BY <1>6, ElementOfSeq
  <2> QED
    BY <2>1, <1>6 DEF Messages
<1>8. PICK k : k = Len(channel)
  OBVIOUS
<1>9. /\ channel' \in Seq(Messages) /\ Len(channel') = k + 1 /\ k \in Nat
      /\ channel'[k + 1] = m /\ \A i \in 1 .. k : channel'[i] = channel[i]
  BY <1>2, <1>3, <1>6, <1>8, AppendProperties
<1>10. \A i \in 1 .. k + 1 : i \in 1 .. k \/ i = k + 1
  BY <1>9
<1>11. /\ \A i \in 1 .. k : channel'[i] = channel[i] /\ channel'[i].from \in Senders /\ channel'[i].from # x
       /\ channel'[k + 1].from = x
  BY <1>3, <1>7, <1>8, <1>9
<1>12. \A i \in 1 .. k + 1 : ack'[channel'[i].from] = "Waiting"
  BY <1>5, <1>6, <1>8, <1>10, <1>11
<1>13. \A i, j \in 1 .. k + 1 : channel'[i].from = channel'[j].from => i = j
  BY <1>6, <1>8, <1>10, <1>11
<1>14. \A z \in Senders : ack'[z] = "Waiting" => \E i \in 1 .. k + 1 : channel'[i].from = z
  <2> SUFFICES ASSUME NEW z \in Senders, ack'[z] = "Waiting"
               PROVE  \E i \in 1 .. k + 1 : channel'[i].from = z
    OBVIOUS
  <2>1. k + 1 \in 1 .. k + 1 /\ 1 .. k \subseteq 1 .. k + 1
    BY <1>9
  <2>2. CASE z = x
    BY <2>1, <2>2, <1>11
  <2>3. CASE z # x
    <3>1. PICK i \in 1 .. k : channel[i].from = z
      BY <2>3, <1>5, <1>6, <1>8
    <3> QED
      BY <2>1, <3>1, <1>11
  <2> QED
    BY <2>2, <2>3
<1>15. Queued'
  BY <1>9, <1>12, <1>13, <1>14 DEF Queued
<1> QED
  BY <1>1, <1>5, <1>7, <1>8, <1>9, <1>10, <1>15

(* A thread publishes: the channel has room for it.                        *)
LEMMA SendKeepsRunning ==
    ASSUME Always, WhileRunning, loop.running, NEW g \in Generations, SendStep(g),
           UNCHANGED <<ctl, loop, admin, process>>
    PROVE  WhileRunning'
<1>1. PICK n : /\ Becomes(g, n) /\ Moves(runtime[g], n) /\ n.pc \in AckPcs
               /\ Send(g, Publish(g, n.sup, n.passive))
  BY DEF SendStep
<1>2. PICK o : o = runtime[g]
  OBVIOUS
<1>3. Runtimes /\ IsRuntime(n) /\ n # Absent
  BY <1>1 DEF Always, Moves
<1>4. /\ runtime'[g] = n /\ \A x \in Generations : x # g => runtime'[x] = runtime[x]
  BY <1>1, <1>3, OneChanges
<1>5. /\ ctl' = ctl /\ loop' = loop /\ admin' = admin /\ process' = process
      /\ o.pc \in {"turn", "complete"}
  BY <1>2 DEF SendStep
<1>6. ActiveWorks /\ Lineage /\ Waits /\ Queued /\ Said /\ LoopFollows
  BY DEF WhileRunning
<1>7. /\ n.pc \in TurnPcs /\ n.pc \notin EndPcs /\ n.pc \in LivePcs
      /\ o.pc \in TurnPcs /\ o.pc \notin AckPcs /\ o.pc # "prepared" /\ o.pc \notin EndPcs
      /\ o # Absent
  BY <1>1, <1>5 DEF AckPcs, TurnPcs, EndPcs, LivePcs, Absent
<1>8. n.stop = o.stop /\ n.sup.rev = o.sup.rev
  BY <1>1, <1>2, <1>7 DEF Moves
<1>9. IsSup(n.sup)
  BY <1>3, <1>7, RuntimeByPc, LiveFields
<1>10. g = ctl.active \/ (g = admin.previous /\ admin.pc = "joinPrevious")
  BY <1>2, <1>7, WhoWorks
<1>11. /\ g \in Senders /\ g # Operator /\ Operator \in Senders /\ ctl.active \in Generations
       /\ ctl.active \in Senders
  BY <1>6, OperatorIsNoGeneration DEF ActiveWorks
<1>12. ack[g] = "None"
  BY <1>2, <1>6, <1>7 DEF Waits, AckPcs
<1>13. PICK y : y = IF admin.pc = "ack" THEN Operator
                    ELSE IF g = ctl.active THEN admin.previous ELSE ctl.active
  OBVIOUS
<1>14. \A z \in Senders : ack[z] = "Waiting" => z = y
  <2> SUFFICES ASSUME NEW z \in Senders, ack[z] = "Waiting" PROVE z = y
    OBVIOUS
  <2>1. z # g
    BY <1>12
  <2>2. CASE z = Operator
    <3>1. admin.pc = "ack"
      BY <2>2, <1>6 DEF Waits
    <3> QED
      BY <2>2, <3>1, <1>13
  <2>3. CASE z \in Generations
    <3>1. runtime[z].pc \in TurnPcs
      BY <2>3, <1>6 DEF Waits, TurnPcs
    <3>2. z = ctl.active \/ (z = admin.previous /\ admin.pc = "joinPrevious")
      BY <2>3, <3>1, WhoWorks
    <3> QED
      BY <2>1, <3>2, <1>10, <1>13
  <2> QED
    BY <2>2, <2>3, OperatorIsNoGeneration
<1>15. channel \in Seq(Messages) /\ Len(channel) \in Nat /\ Len(channel) < ChannelCapacity
  BY <1>6, <1>14, OneWaits
<1>16. ~Refused
  BY <1>15, RuntimeAssumption DEF Refused
<1>17. PICK c : c = Publish(g, n.sup, n.passive)
  OBVIOUS
<1>18. /\ c \in Commands /\ c.kind = "Publish" /\ c.gen = g /\ c.rev = n.sup.rev
       /\ c.avail = EffectiveAvailability(n.sup, n.passive)
  BY <1>9, <1>17, PublishMade
<1>19. Send(g, c)
  BY <1>1, <1>17
<1>20. /\ Queued'
       /\ ack' \in [Senders -> {"None", "Waiting", "Accepted", "Rejected"}]
       /\ ack'[g] = "Waiting" /\ \A z \in Senders : z # g => ack'[z] = ack[z]
       /\ \A i \in 1 .. Len(channel') :
             \/ i \in 1 .. Len(channel) /\ channel'[i] = channel[i] /\ channel[i].from # g
             \/ channel'[i] = [from |-> g, command |-> c]
  BY <1>6, <1>11, <1>12, <1>16, <1>18, <1>19, CommandIsQueued
<1>21. ack'[Operator] = ack[Operator] /\ Switched' = Switched
  BY <1>5, <1>11, <1>20 DEF Switched
<1>22. ActiveWorks'
  <2>1. /\ process.pc = "serving" /\ ctl.active \in Generations
        /\ runtime[ctl.active].pc \in TurnPcs \cup (IF Switched THEN EndPcs ELSE {})
        /\ runtime[ctl.active].pc \in TurnPcs => ~runtime[ctl.active].stop
    BY <1>6 DEF ActiveWorks
  <2>2. CASE ctl.active # g
    <3>1. runtime'[ctl.active] = runtime[ctl.active]
      BY <2>1, <2>2, <1>4
    <3> QED
      BY <2>1, <3>1, <1>5, <1>21 DEF ActiveWorks
  <2>3. CASE ctl.active = g
    <3>1. n.pc \in TurnPcs \cup (IF Switched THEN EndPcs ELSE {}) /\ ~n.stop
      BY <2>1, <2>3, <1>2, <1>7, <1>8
    <3> QED
      BY <2>1, <2>3, <3>1, <1>4, <1>5, <1>21 DEF ActiveWorks
  <2> QED
    BY <2>2, <2>3
<1>23. Lineage'
  <2>1. \A x \in Generations :
           x \notin {ctl.active, admin.next, admin.back, admin.previous} => runtime'[x] = Absent
    <3>1. \A x \in Generations :
           x \notin {ctl.active, admin.next, admin.back, admin.previous} => runtime[x] = Absent
      BY <1>6 DEF Lineage
    <3> QED
      BY <3>1, <1>2, <1>4, <1>7
  <2>2. admin.pc \in {"prepareRollback", "send", "ack"} => ctl.active < admin.next
    BY <1>6 DEF Lineage
  <2>3. ASSUME admin.pc = "joinPrevious"
        PROVE  /\ runtime'[admin.previous].pc \in {"ackPassive", "complete", "ackProbe"} \cup EndPcs
               /\ runtime'[admin.previous].pc \notin EndPcs => runtime'[admin.previous].stop
    <3>1. /\ admin.previous \in Generations
          /\ runtime[admin.previous].pc \in {"ackPassive", "complete", "ackProbe"} \cup EndPcs
          /\ runtime[admin.previous].pc \notin EndPcs => runtime[admin.previous].stop
      BY <2>3, <1>6 DEF Lineage
    <3>2. CASE admin.previous # g
      BY <3>1, <3>2, <1>4
    <3>3. CASE admin.previous = g
      BY <3>1, <3>3, <1>1, <1>2, <1>4, <1>7, <1>8 DEF AckPcs
    <3> QED
      BY <3>2, <3>3
  <2> QED
    BY <2>1, <2>2, <2>3, <1>5, <1>6 DEF Lineage
<1>24. Waits'
  <2>1. \A x \in Generations : ack'[x] # "None" => runtime'[x].pc \in {"ackPassive", "ackProbe"}
    <3>1. \A x \in Generations : x \in Senders /\ (ack[x] # "None" => runtime[x].pc \in {"ackPassive", "ackProbe"})
      BY <1>6, OperatorIsNoGeneration DEF Waits
    <3> QED
      BY <3>1, <1>1, <1>4, <1>20 DEF AckPcs
  <2>2. ack'[Operator] # "None" => admin'.pc = "ack"
    BY <1>5, <1>6, <1>21 DEF Waits
  <2> QED
    BY <2>1, <2>2, <1>20 DEF Waits
<1>25. \A x, r : IsPrepared(x, r) => runtime'[x] = runtime[x]
  BY <1>2, <1>4, <1>7 DEF IsPrepared
<1>26. admin.pc = "ack" => IsPrepared(admin.next, admin.rev)
  BY DEF Always, Phases
<1>27. Said'
  <2> SUFFICES ASSUME NEW i \in 1 .. Len(channel') PROVE Says(channel[i])'
    BY DEF Said
  <2>1. PICK m : m = channel'[i]
    OBVIOUS
  <2>2. CASE i \in 1 .. Len(channel) /\ channel'[i] = channel[i] /\ channel[i].from # g
    <3>1. Says(m) /\ ack[m.from] = "Waiting" /\ m.from # g
      BY <2>1, <2>2, <1>6 DEF Said, Queued
    <3>2. m.from = Operator => runtime'[admin.next] = runtime[admin.next]
      <4>1. m.from = Operator => admin.pc = "ack"
        BY <3>1, <1>6 DEF Waits
      <4> QED
        BY <4>1, <1>25, <1>26
    <3>3. m.from = ctl.active => runtime'[ctl.active] = runtime[ctl.active]
      BY <3>1, <1>4, <1>11
    <3>4. Says(m)'
      BY <3>1, <3>2, <3>3, <1>5 DEF Says
    <3> QED
      BY <2>1, <3>4
  <2>3. CASE channel'[i] = [from |-> g, command |-> c]
    <3>1. m.from = g /\ m.command = c
      BY <2>1, <2>3
    <3>2. g = ctl.active => c = Publish(ctl.active, runtime'[ctl.active].sup, runtime'[ctl.active].passive)
      BY <1>4, <1>17
    <3>3. Says(m)'
      BY <3>1, <3>2, <1>5, <1>11, <1>18 DEF Says
    <3> QED
      BY <2>1, <3>3
  <2> QED
    BY <2>2, <2>3, <1>20
<1>28. LoopFollows'
  <2>1. Switched => runtime'[admin.next] = runtime[admin.next]
    BY <1>25, <1>26 DEF Switched
  <2>2. ASSUME ~Switched
        PROVE  /\ runtime'[ctl.active].sup.rev = runtime[ctl.active].sup.rev
               /\ ack'[ctl.active] # "Rejected"
               /\ ack'[ctl.active] # "Waiting" =>
                     ack[ctl.active] # "Waiting" /\ runtime'[ctl.active] = runtime[ctl.active]
    <3>1. ack[ctl.active] # "Rejected"
      BY <2>2, <1>6 DEF LoopFollows
    <3>2. CASE ctl.active # g
      BY <1>11, <3>1, <3>2, <1>4, <1>20
    <3>3. CASE ctl.active = g
      BY <3>3, <1>2, <1>4, <1>8, <1>20
    <3> QED
      BY <3>2, <3>3
  <2> QED
    BY <2>1, <2>2, <1>5, <1>6, <1>21 DEF LoopFollows, Agrees
<1> QED
  BY <1>20, <1>22, <1>23, <1>24, <1>27, <1>28 DEF WhileRunning

-----------------------------------------------------------------------------
(* The event loop.                                                         *)

(* The first command has its answer v.                                     *)
Answered(x, v) ==
    /\ Queued' /\ x \in Senders /\ ack[x] = "Waiting" /\ Head(channel) \in Messages
    /\ Len(channel) \in Nat /\ 1 \in 1 .. Len(channel) /\ Head(channel) = channel[1]
    /\ ack' \in [Senders -> {"None", "Waiting", "Accepted", "Rejected"}]
    /\ ack'[x] = v /\ \A z \in Senders : z # x => ack'[z] = ack[z]
    /\ \A i \in 1 .. Len(channel') :
          \E j \in 1 .. Len(channel) : channel'[i] = channel[j] /\ channel[j].from # x

(* The first command is answered.                                          *)
LEMMA CommandIsAnswered ==
    ASSUME Waits, Queued, channel # <<>>, channel' = Tail(channel),
           NEW v \in {"Accepted", "Rejected"}, NEW x, x = Head(channel).from,
           ack' = [ack EXCEPT ![x] = v]
    PROVE  Answered(x, v)
<1>1. /\ channel \in Seq(Messages) /\ Len(channel) \in Nat
      /\ \A i \in 1 .. Len(channel) : ack[channel[i].from] = "Waiting"
      /\ \A i, j \in 1 .. Len(channel) : channel[i].from = channel[j].from => i = j
      /\ \A z \in Senders : ack[z] = "Waiting" => \E i \in 1 .. Len(channel) : channel[i].from = z
  BY DEF Queued
<1>2. PICK k : k = Len(channel)
  OBVIOUS
<1>3. /\ k \in Nat /\ k # 0 /\ channel' \in Seq(Messages) /\ Len(channel') = k - 1
      /\ \A i \in 1 .. k - 1 : channel'[i] = channel[i + 1]
      /\ Head(channel) = channel[1]
  <2>1. k # 0
    BY <1>1, <1>2, EmptySeq
  <2> QED
    BY <1>1, <1>2, <2>1, HeadTailProperties
<1>4. 1 \in 1 .. k
  BY <1>3
<1>5. \A i \in 1 .. k : channel[i] \in Messages /\ channel[i].from \in Senders
  <2> TAKE i \in 1 .. k
  <2>1. channel[i] \in Messages
    BY <1>1, <1>2, ElementOfSeq
  <2> QED
    BY <2>1 DEF Messages
<1>6. x = channel[1].from /\ x \in Senders /\ ack[x] = "Waiting" /\ Head(channel) \in Messages
  BY <1>1, <1>2, <1>3, <1>4, <1>5
<1>7. ack \in [Senders -> {"None", "Waiting", "Accepted", "Rejected"}]
  BY DEF Waits
<1>8. /\ ack' \in [Senders -> {"None", "Waiting", "Accepted", "Rejected"}]
      /\ ack'[x] = v /\ \A z \in Senders : z # x => ack'[z] = ack[z]
  BY <1>6, <1>7
<1>9. /\ \A i \in 1 .. k - 1 : i + 1 \in 1 .. k /\ i + 1 # 1
      /\ \A i \in 1 .. k : i # 1 => i - 1 \in 1 .. k - 1 /\ (i - 1) + 1 = i
  BY <1>3
<1>10. \A i \in 1 .. k - 1 : /\ channel'[i] = channel[i + 1] /\ channel'[i].from \in Senders
                             /\ channel'[i].from # x
  <2> TAKE i \in 1 .. k - 1
  <2>1. channel'[i] = channel[i + 1] /\ i + 1 \in 1 .. k /\ i + 1 # 1
    BY <1>3, <1>9
  <2> QED
    BY <2>1, <1>1, <1>2, <1>4, <1>5, <1>6
<1>11. \A i \in 1 .. k - 1 : ack'[channel'[i].from] = "Waiting"
  BY <1>1, <1>2, <1>8, <1>9, <1>10
<1>12. \A i, j \in 1 .. k - 1 : channel'[i].from = channel'[j].from => i = j
  <2> SUFFICES ASSUME NEW i \in 1 .. k - 1, NEW j \in 1 .. k - 1, channel'[i].from = channel'[j].from
               PROVE  i = j
    OBVIOUS
  <2>1. i + 1 = j + 1
    BY <1>1, <1>2, <1>9, <1>10
  <2> QED
    BY <2>1
<1>13. \A z \in Senders : ack'[z] = "Waiting" => \E i \in 1 .. k - 1 : channel'[i].from = z
  <2> SUFFICES ASSUME NEW z \in Senders, ack'[z] = "Waiting"
               PROVE  \E i \in 1 .. k - 1 : channel'[i].from = z
    OBVIOUS
  <2>1. z # x /\ ack[z] = "Waiting"
    BY <1>8
  <2>2. PICK i \in 1 .. k : channel[i].from = z
    BY <2>1, <1>1, <1>2
  <2>3. i # 1
    BY <2>1, <2>2, <1>6
  <2>4. PICK j \in 1 .. k - 1 : j + 1 = i
    BY <2>3, <1>9
  <2> QED
    BY <2>2, <2>4, <1>10
<1>14. Queued'
  BY <1>3, <1>11, <1>12, <1>13 DEF Queued
<1>15. \A i \in 1 .. Len(channel') :
          \E j \in 1 .. Len(channel) : channel'[i] = channel[j] /\ channel[j].from # x
  <2> SUFFICES ASSUME NEW i \in 1 .. k - 1
               PROVE  \E j \in 1 .. k : channel'[i] = channel[j] /\ channel[j].from # x
    BY <1>2, <1>3
  <2>1. i + 1 \in 1 .. k /\ channel'[i] = channel[i + 1] /\ channel[i + 1].from # x
    BY <1>9, <1>10
  <2> QED
    BY <2>1
<1> QED
  BY <1>2, <1>3, <1>4, <1>6, <1>8, <1>14, <1>15 DEF Answered

(* What one command does to the loop.                                      *)
LEMMA CommandIsHandled ==
    ASSUME LoopCommand, NEW c, c = Head(channel).command
    PROVE  \E accepted \in BOOLEAN :
              /\ ack' = [ack EXCEPT ![Head(channel).from] =
                            IF accepted THEN "Accepted" ELSE "Rejected"]
              /\ c.kind = "Publish" =>
                    /\ accepted <=> AvailabilityFits(loop.rev, loop.gen, c)
                    /\ accepted => loop' = [loop EXCEPT !.gen = c.gen, !.avail = c.avail]
              /\ c.kind # "Publish" /\ accepted =>
                    loop' = [loop EXCEPT !.rev = c.rev, !.gen = c.gen, !.avail = c.avail]
              /\ ~accepted => loop' = loop
<1>1. PICK fit \in BOOLEAN :
         /\ loop' = IF c.kind = "Publish" THEN HandlePublish(c) ELSE ActivateRuntimeGeneration(c, fit)
         /\ ack' = [ack EXCEPT ![Head(channel).from] =
               IF (IF c.kind = "Publish" THEN AvailabilityFits(loop.rev, loop.gen, c)
                   ELSE /\ fit
                        /\ AvailabilityFits(c.rev, IF c.rev = loop.rev THEN loop.gen ELSE 0, c))
               THEN "Accepted" ELSE "Rejected"]
  BY DEF LoopCommand
<1>2. PICK fits \in BOOLEAN : fits <=> AvailabilityFits(loop.rev, loop.gen, c)
  OBVIOUS
<1>3. PICK fits2 \in BOOLEAN :
         fits2 <=> AvailabilityFits(c.rev, IF c.rev = loop.rev THEN loop.gen ELSE 0, c) /\ fit
  OBVIOUS
<1>4. CASE c.kind = "Publish"
  BY <1>1, <1>2, <1>4 DEF HandlePublish
<1>5. CASE c.kind # "Publish"
  BY <1>1, <1>3, <1>5 DEF ActivateRuntimeGeneration
<1> QED
  BY <1>4, <1>5

(* The loop's record, with new contents.                                   *)
LEMMA LoopMade ==
    ASSUME loop = [running |-> loop.running, rev |-> loop.rev, gen |-> loop.gen, avail |-> loop.avail],
           NEW r, NEW g, NEW a, NEW t,
           \/ t = [loop EXCEPT !.rev = r, !.gen = g, !.avail = a]
           \/ t = [loop EXCEPT !.gen = g, !.avail = a] /\ r = loop.rev
    PROVE  /\ t = [running |-> t.running, rev |-> t.rev, gen |-> t.gen, avail |-> t.avail]
           /\ t.rev = r /\ t.gen = g /\ t.avail = a
<1>1. PICK b, d, e, f : loop = [running |-> b, rev |-> d, gen |-> e, avail |-> f]
  OBVIOUS
<1>2. loop.rev = d
  BY <1>1
<1>3. t = [running |-> b, rev |-> r, gen |-> g, avail |-> a]
  BY <1>1, <1>2
<1> QED
  BY <1>3

(* The loop handles a command: what the active runtime publishes it takes, *)
(* unless it has left that runtime behind; what the replaced one publishes *)
(* it refuses; and the operator's generation it takes or not.              *)
LEMMA LoopKeepsRunning ==
    ASSUME Always, WhileRunning, LoopCommand
    PROVE  Always' /\ WhileRunning'
<1>1. /\ UNCHANGED <<runtime, ctl, admin, process>> /\ channel # <<>> /\ channel' = Tail(channel)
  BY DEF LoopCommand
<1>2. ActiveWorks /\ Lineage /\ Waits /\ Queued /\ Said /\ LoopFollows
  BY DEF WhileRunning
<1>3. PICK m : m = Head(channel)
  OBVIOUS
<1>4. PICK x, c : x = m.from /\ c = m.command
  BY SMTT(30)
<1>5. PICK accepted \in BOOLEAN :
         /\ ack' = [ack EXCEPT ![x] = IF accepted THEN "Accepted" ELSE "Rejected"]
         /\ c.kind = "Publish" =>
               /\ accepted <=> AvailabilityFits(loop.rev, loop.gen, c)
               /\ accepted => loop' = [loop EXCEPT !.gen = c.gen, !.avail = c.avail]
         /\ c.kind # "Publish" /\ accepted =>
               loop' = [loop EXCEPT !.rev = c.rev, !.gen = c.gen, !.avail = c.avail]
         /\ ~accepted => loop' = loop
  BY <1>3, <1>4, CommandIsHandled, Zenon
<1>6. PICK v \in {"Accepted", "Rejected"} : v = IF accepted THEN "Accepted" ELSE "Rejected"
  OBVIOUS
<1>7. /\ Queued' /\ x \in Senders /\ ack[x] = "Waiting" /\ m \in Messages
      /\ Len(channel) \in Nat /\ 1 \in 1 .. Len(channel) /\ m = channel[1]
      /\ ack' \in [Senders -> {"None", "Waiting", "Accepted", "Rejected"}]
      /\ ack'[x] = v /\ \A z \in Senders : z # x => ack'[z] = ack[z]
      /\ \A i \in 1 .. Len(channel') :
            \E j \in 1 .. Len(channel) : channel'[i] = channel[j] /\ channel[j].from # x
  <2>1. ack' = [ack EXCEPT ![x] = v] /\ x = Head(channel).from
    BY <1>3, <1>4, <1>5, <1>6
  <2>2. Answered(x, v)
    BY <2>1, <1>1, <1>2, CommandIsAnswered
  <2> QED
    BY <2>2, <1>3 DEF Answered
<1>8. Always'
  BY <1>1 DEF Always, Runtimes, Numbers, Phases, IsPrepared, IsOver
<1>9. Lineage'
  BY <1>1, <1>2 DEF Lineage
<1>10. /\ Operator \in Senders /\ Operator \notin Generations /\ Generations \subseteq Senders
       /\ ctl.active \in Generations /\ ctl.active # Operator /\ Generations \subseteq Nat
       /\ x = Operator \/ x \in Generations
  BY <1>2, <1>7, OperatorIsNoGeneration, RuntimeAssumption DEF ActiveWorks
<1>11. Waits'
  <2>1. \A g \in Generations : ack'[g] # "None" => runtime[g].pc \in {"ackPassive", "ackProbe"}
    BY <1>2, <1>7, <1>10 DEF Waits
  <2>2. ack'[Operator] # "None" => admin.pc = "ack"
    BY <1>2, <1>7, <1>10 DEF Waits
  <2> QED
    BY <2>1, <2>2, <1>1, <1>7 DEF Waits
<1>12. Said'
  <2>1. \A i \in 1 .. Len(channel) : Says(channel[i])
    BY <1>2 DEF Said
  <2>2. \A y : Says(y) => Says(y)'
    BY <1>1 DEF Says
  <2> SUFFICES ASSUME NEW i \in 1 .. Len(channel') PROVE Says(channel[i])'
    BY DEF Said
  <2>3. PICK j \in 1 .. Len(channel) : channel'[i] = channel[j]
    BY <1>7
  <2>4. PICK y : y = channel[j]
    OBVIOUS
  <2>5. Says(y)'
    BY <2>1, <2>2, <2>4
  <2> QED
    BY <2>3, <2>4, <2>5
<1>13. Says(m)
  BY <1>2, <1>7 DEF Said
<1>14. Switched => x # Operator /\ admin.pc = "ack"
  BY <1>7 DEF Switched
<1>15. Switched /\ x # Operator => Switched'
  BY <1>1, <1>7, <1>10 DEF Switched
<1>16. x # Operator => Switched' = Switched
  BY <1>1, <1>7, <1>10 DEF Switched
<1>17. ActiveWorks'
  <2>1. Switched => Switched'
    BY <1>14, <1>15
  <2> QED
    BY <2>1, <1>1, <1>2 DEF ActiveWorks
<1>18. loop = [running |-> loop.running, rev |-> loop.rev, gen |-> loop.gen, avail |-> loop.avail]
  BY <1>2 DEF LoopFollows
<1>19. LoopFollows'
  <2>1. CASE x = ctl.active
    <3>1. PICK s : s = runtime[ctl.active].sup
      OBVIOUS
    <3>2. PICK pv : pv = runtime[ctl.active].passive
      OBVIOUS
    <3>3. c = Publish(ctl.active, s, pv)
      BY <2>1, <3>1, <3>2, <1>4, <1>13 DEF Says
    <3>4. runtime[ctl.active].pc \in LivePcs /\ IsRuntime(runtime[ctl.active])
      BY <2>1, <1>2, <1>7, <1>10 DEF Waits, LivePcs, TurnPcs, Always, Runtimes
    <3>5. IsSup(s)
      BY <3>1, <3>4, RuntimeByPc, LiveFields
    <3>6. /\ c.kind = "Publish" /\ c.gen = ctl.active /\ c.rev = s.rev
          /\ c.avail = EffectiveAvailability(s, pv)
      <4>1. PICK a \in Generations : a = ctl.active
        BY <1>10
      <4> QED
        BY <3>3, <3>5, <4>1, PublishMade
    <3>7. DOMAIN c.avail = KeysOf(s.rev)
      BY <3>5, <3>6, AvailsAreTyped
    <3>8. CASE ~Switched
      <4>1. loop.rev = s.rev /\ loop.gen \in {0, ctl.active}
        BY <3>1, <3>8, <1>2 DEF LoopFollows
      <4>2. AvailabilityFits(loop.rev, loop.gen, c)
        <5>1. ctl.active \in Nat
          BY <1>10
        <5>2. ctl.active >= loop.gen
          BY <4>1, <5>1
        <5> QED
          BY <3>6, <3>7, <4>1, <5>2 DEF AvailabilityFits
      <4>3. accepted
        BY <3>6, <4>2, <1>5
      <4>4. PICK t : t = loop'
        OBVIOUS
      <4>5. t = [loop EXCEPT !.gen = c.gen, !.avail = c.avail]
        BY <3>6, <4>3, <4>4, <1>5
      <4>6. /\ t = [running |-> t.running, rev |-> t.rev, gen |-> t.gen, avail |-> t.avail]
            /\ t.rev = loop.rev /\ t.gen = c.gen /\ t.avail = c.avail
        BY <4>5, <1>18, LoopMade, Zenon
      <4>7. ack'[ctl.active] = "Accepted"
        BY <2>1, <4>3, <1>6, <1>7
      <4>8. Agrees(t.avail, s, pv)
        BY <3>6, <4>6 DEF Agrees
      <4>9. ~Switched'
        BY <2>1, <3>8, <1>10, <1>16
      <4> QED
        BY <3>1, <3>2, <3>6, <4>1, <4>4, <4>6, <4>7, <4>8, <4>9, <1>1 DEF LoopFollows
    <3>9. CASE Switched
      <4>1. loop.gen = admin.next /\ ctl.active < admin.next
        BY <3>9, <1>2 DEF LoopFollows, Lineage, Switched
      <4>2. admin.next \in Generations
        BY <3>9 DEF Always, Phases, IsPrepared, Switched
      <4>3. ~AvailabilityFits(loop.rev, loop.gen, c)
        <5>1. ctl.active \in Nat /\ admin.next \in Nat
          BY <4>2, <1>10
        <5>2. ~(ctl.active >= loop.gen)
          BY <4>1, <5>1
        <5> QED
          BY <3>6, <5>2 DEF AvailabilityFits
      <4>4. loop' = loop
        BY <3>6, <4>3, <1>5
      <4>5. Switched'
        BY <2>1, <3>9, <1>10, <1>16
      <4> QED
        BY <3>9, <4>4, <4>5, <1>1, <1>2 DEF LoopFollows
    <3> QED
      BY <3>8, <3>9
  <2>2. CASE x \in Generations /\ x # ctl.active
    <3>1. runtime[x].pc \in TurnPcs
      BY <2>2, <1>2, <1>7 DEF Waits, TurnPcs
    <3>2. x = admin.previous /\ admin.pc = "joinPrevious"
      BY <2>2, <3>1, WhoWorks
    <3>3. ~Switched /\ ~Switched' /\ x < ctl.active
      BY <2>2, <3>2, <1>1, <1>2 DEF Switched, Lineage
    <3>4. loop.gen = ctl.active
      BY <3>2, <3>3, <1>2 DEF LoopFollows
    <3>5. c.kind = "Publish" /\ c.gen = x
      BY <2>2, <1>4, <1>13 DEF Says
    <3>6. ~AvailabilityFits(loop.rev, loop.gen, c)
      <4>1. ctl.active \in Nat /\ x \in Nat
        BY <2>2, <1>10
      <4>2. ~(x >= loop.gen)
        BY <3>3, <3>4, <4>1
      <4> QED
        BY <3>5, <4>2 DEF AvailabilityFits
    <3>7. loop' = loop
      BY <3>5, <3>6, <1>5
    <3>8. ack'[ctl.active] = ack[ctl.active]
      BY <2>2, <1>7, <1>10
    <3> QED
      BY <3>3, <3>7, <3>8, <1>1, <1>2 DEF LoopFollows
  <2>3. CASE x = Operator
    <3>1. admin.pc = "ack" /\ ~Switched
      BY <2>3, <1>2, <1>7 DEF Waits, Switched
    <3>2. /\ c.kind = "Activate" /\ c.rev = admin.rev /\ c.gen = admin.next
          /\ c.avail = AvailabilitySnapshot(runtime[admin.next].sup)
      BY <2>3, <1>4, <1>13 DEF Says
    <3>3. ack'[ctl.active] = ack[ctl.active]
      BY <2>3, <1>7, <1>10
    <3>4. CASE accepted
      <4>1. PICK t : t = loop'
        OBVIOUS
      <4>2. t = [loop EXCEPT !.rev = c.rev, !.gen = c.gen, !.avail = c.avail]
        BY <3>2, <3>4, <4>1, <1>5
      <4>3. /\ t = [running |-> t.running, rev |-> t.rev, gen |-> t.gen, avail |-> t.avail]
            /\ t.rev = c.rev /\ t.gen = c.gen /\ t.avail = c.avail
        BY <4>2, <1>18, LoopMade, Zenon
      <4>4. Switched'
        BY <2>3, <3>1, <3>4, <1>1, <1>6, <1>7 DEF Switched
      <4> QED
        BY <3>2, <4>1, <4>3, <4>4, <1>1 DEF LoopFollows
    <3>5. CASE ~accepted
      <4>1. ~Switched'
        BY <2>3, <3>5, <1>6, <1>7 DEF Switched
      <4>2. loop' = loop
        BY <3>5, <1>5
      <4> QED
        BY <3>1, <3>3, <4>1, <4>2, <1>1, <1>2 DEF LoopFollows
    <3> QED
      BY <3>4, <3>5
  <2> QED
    BY <2>1, <2>2, <2>3, <1>10
<1> QED
  BY <1>7, <1>8, <1>9, <1>11, <1>12, <1>17, <1>19 DEF WhileRunning

-----------------------------------------------------------------------------
(* The operator.                                                           *)

(* A runtime that has seen no traffic publishes what its probes say.       *)
LEMMA NewcomerAgrees ==
    ASSUME NEW s, IsSup(s), NEW avail, avail = [u \in DOMAIN s.health |-> s.health[u].a]
    PROVE  Agrees(avail, s, RegisterPassive(s.rev))
<1>1. PICK pv : pv = RegisterPassive(s.rev)
  OBVIOUS
<1>2. DOMAIN s.health = KeysOf(s.rev) /\ s.rev \in Revisions
  BY DEF IsSup
<1>3. \A u \in KeysOf(s.rev) : pv[u].st # "Ejected"
  BY <1>1 DEF RegisterPassive, Observing, Passive
<1>4. \A u \in KeysOf(s.rev) : Target[s.rev][u].draining \in BOOLEAN
  BY <1>2, TargetAssumption DEF KeysOf, Targets
<1>5. ASSUME NEW u \in KeysOf(s.rev), ~Target[s.rev][u].draining
      PROVE  EffectiveAvailability(s, pv)[u] = s.health[u].a
  <2>1. EffectiveAvailability(s, pv)[u] =
          IF EffectiveEligibility(TRUE, Target[s.rev][u].draining, s.health[u].a, pv[u]) = "Eligible"
          THEN s.health[u].a ELSE "Unhealthy"
    BY <1>2 DEF EffectiveAvailability
  <2>2. CASE s.health[u].a = "Unhealthy"
    BY <2>1, <2>2
  <2>3. CASE s.health[u].a # "Unhealthy"
    <3>1. EffectiveEligibility(TRUE, Target[s.rev][u].draining, s.health[u].a, pv[u]) = "Eligible"
      BY <1>3, <1>5, <2>3 DEF EffectiveEligibility
    <3> QED
      BY <2>1, <3>1
  <2> QED
    BY <2>2, <2>3
<1>6. \A u \in KeysOf(s.rev) : avail[u] = s.health[u].a
  BY <1>2
<1> QED
  BY <1>1, <1>5, <1>6 DEF Agrees

(* What a runtime that is told to stop becomes.                            *)
Halted(o, n) ==
    /\ IsRuntime(n) /\ n # Absent
    /\ o.pc \in EndPcs \cup {"prepared", "turn"} => n.pc \in EndPcs
    /\ o.pc \in {"ackPassive", "complete", "ackProbe"} => n.pc = o.pc /\ n.stop = TRUE

(* Stop tells those of gs to stop and leaves the others alone.             *)
LEMMA StopHalts ==
    ASSUME NEW R, NEW gs, NEW S, S = Stop(R, gs),
           \A g \in Generations : IsRuntime(R[g]) /\ (g \in gs => R[g] # Absent)
    PROVE  /\ S = [g \in Generations |-> S[g]]
           /\ \A g \in Generations : g \in gs => Halted(R[g], S[g])
           /\ \A g \in Generations : g \notin gs => S[g] = R[g]
           /\ \A g \in Generations : IsRuntime(S[g])
<1>1. S = [g \in Generations |->
             IF g \notin gs \/ R[g].pc \in {"joining", "stopped"} THEN R[g]
             ELSE IF R[g].pc \in {"prepared", "turn"} THEN Ending(R[g])
             ELSE [R[g] EXCEPT !.stop = TRUE, !.observations = <<>>]]
  BY Zenon DEF Stop
<1>2. S = [g \in Generations |-> S[g]] /\ \A g \in Generations : g \notin gs => S[g] = R[g]
  BY <1>1, Zenon
<1>3. ASSUME NEW g \in Generations, g \in gs PROVE Halted(R[g], S[g])
  <2>1. PICK o, n : o = R[g] /\ n = S[g]
    OBVIOUS
  <2>2. IsRuntime(o) /\ o # Absent
    BY <1>3, <2>1
  <2>3. n = IF o.pc \in {"joining", "stopped"} THEN o
            ELSE IF o.pc \in {"prepared", "turn"} THEN Ending(o)
            ELSE [o EXCEPT !.stop = TRUE, !.observations = <<>>]
    BY <1>1, <1>3, <2>1, Zenon
  <2>4. o.pc \in LivePcs \/ o.pc \in EndPcs
    BY <2>2, RuntimeByPc
  <2>5. o.pc \in LivePcs => IsLive(o)
    BY <2>2, RuntimeByPc
  <2>6. CASE o.pc \in EndPcs
    <3>1. n = o /\ o.pc \notin {"ackPassive", "complete", "ackProbe"}
      BY <2>3, <2>6 DEF EndPcs
    <3> QED
      BY <2>1, <2>2, <2>6, <3>1 DEF Halted
  <2>7. CASE o.pc \in {"prepared", "turn"}
    <3>1. IsLive(o) /\ n = Ending(o)
      BY <2>3, <2>5, <2>7 DEF LivePcs, TurnPcs
    <3>2. IsRuntime(n) /\ n # Absent /\ n.pc \in EndPcs
      BY <3>1, EndingMade
    <3>3. o.pc \notin {"ackPassive", "complete", "ackProbe"}
      BY <2>7
    <3> QED
      BY <2>1, <3>2, <3>3 DEF Halted
  <2>8. CASE o.pc \in {"ackPassive", "complete", "ackProbe"}
    <3>1. IsLive(o) /\ n = [o EXCEPT !.stop = TRUE, !.observations = <<>>]
      BY <2>3, <2>5, <2>8 DEF LivePcs, TurnPcs
    <3>2. PICK a \in LivePcs, b \in BOOLEAN : \E c, d, e, f, p, h :
              /\ o = LiveRecord(a, b, c, d, e, f, p, h)
              /\ o.pc = a /\ o.stop = b /\ o.drained = c /\ o.sup = d /\ o.passive = e
              /\ o.observations = f /\ o.pool = p /\ o.reconciliation = h
              /\ IsSup(d) /\ IsPool(p) /\ p.accepting /\ IsKnown(h) /\ Kept(d, p)
      BY <3>1, LiveParts
    <3>3. PICK c, d, e, f, p, h :
              /\ o = LiveRecord(a, b, c, d, e, f, p, h)
              /\ o.pc = a /\ o.stop = b /\ o.drained = c /\ o.sup = d /\ o.passive = e
              /\ o.observations = f /\ o.pool = p /\ o.reconciliation = h
              /\ IsSup(d) /\ IsPool(p) /\ p.accepting /\ IsKnown(h) /\ Kept(d, p)
      BY <3>2
    <3>4. PICK st \in BOOLEAN : st = TRUE
      OBVIOUS
    <3>5. PICK ob : ob = <<>>
      OBVIOUS
    <3>6. n = LiveRecord(a, st, c, d, e, ob, p, h)
      BY <3>1, <3>3, <3>4, <3>5 DEF LiveRecord
    <3>7. IsRuntime(n) /\ n # Absent /\ n.pc = a /\ n.stop = st
      BY <3>3, <3>6, LiveMade
    <3>8. a \notin EndPcs \cup {"prepared", "turn"}
      BY <2>8, <3>3 DEF EndPcs
    <3> QED
      BY <2>1, <3>3, <3>4, <3>7, <3>8 DEF Halted
  <2> QED
    BY <2>4, <2>6, <2>7, <2>8 DEF LivePcs, TurnPcs
<1>4. \A g \in Generations : IsRuntime(S[g])
  BY <1>2, <1>3 DEF Halted
<1> QED
  BY <1>2, <1>3, <1>4

(* A runtime is allocated.                                                 *)
Allocated(r, k) ==
    /\ Runtimes' /\ Numbers' /\ ctl'.active = ctl.active
    /\ k \in Generations /\ runtime[k] = Absent /\ ctl.active # k
    /\ IsPrepared(k, r)' /\ ctl.active < k
    /\ \A x \in Generations : x # k => runtime'[x] = runtime[x]
    /\ \A x, q : IsPrepared(x, q) => IsPrepared(x, q)' /\ x # k

(* Allocate does, whatever the runtime before it knew.                     *)
LEMMA AllocateMakes ==
    ASSUME Always, NEW r \in Revisions, Allocate(r), NEW k, k = ctl.nextGen
    PROVE  Allocated(r, k)
<1>1. Runtimes /\ Numbers
  BY DEF Always
<1>2. k = ctl.nextGen
  OBVIOUS
<1>3. PICK prior : prior = IF ctl.active = None THEN NoPrior ELSE runtime[ctl.active].reconciliation
  OBVIOUS
<1>4. PICK n : n = Prepared(r, k, prior)
  OBVIOUS
<1>5. k \in Generations /\ ctl' = [ctl EXCEPT !.nextGen = @ + 1] /\ Becomes(k, n)
  BY <1>2, <1>3, <1>4 DEF Allocate, Becomes
<1>6. /\ ctl \in [active : GenOrNone, nextGen : Nat] /\ ctl.active < k /\ k \in Nat
      /\ ctl.active # None => ctl.active \in Generations /\ runtime[ctl.active] # Absent
      /\ \A x \in Generations : x >= k => runtime[x] = Absent
  BY <1>1, <1>2 DEF Numbers, GenOrNone
<1>7. Generations \subseteq Nat /\ ctl.active \in Nat
  <2>1. Generations \subseteq Nat /\ GenOrNone \subseteq Nat
    BY RuntimeAssumption DEF GenOrNone, None
  <2> QED
    BY <2>1, <1>6
<1>8. runtime[k] = Absent /\ ctl.active # k
  BY <1>5, <1>6, <1>7
<1>9. prior = NoPrior \/ IsKnown(prior)
  <2>1. ctl.active # None => IsKnown(runtime[ctl.active].reconciliation)
    <3>1. ctl.active # None => IsRuntime(runtime[ctl.active]) /\ runtime[ctl.active] # Absent
      BY <1>1, <1>6 DEF Runtimes
    <3> QED
      BY <3>1, RuntimeByPc
  <2> QED
    BY <2>1, <1>3
<1>10. PICK s : s = ActivateReconciled(r, prior)
  OBVIOUS
<1>11. /\ IsSup(s) /\ s.rev = r /\ \A u \in KeysOf(s.rev) : s.schedule[u].st # "InFlight"
  BY <1>9, <1>10, NewSupervisor
<1>12. IsPool(NewPool) /\ NewPool.accepting /\ Kept(s, NewPool)
  BY <1>11, NewPoolIsKept
<1>13. IsKnown(ReconciliationSnapshot(s))
  BY <1>11, SnapshotIsKnown
<1>14. PICK pc \in LivePcs, st \in BOOLEAN : pc = "prepared" /\ st = FALSE
  BY DEF LivePcs
<1>15. PICK dr, pv, ob, pool, kn :
           /\ dr = 0 /\ pv = RegisterPassive(r) /\ ob = <<>>
           /\ pool = NewPool /\ kn = ReconciliationSnapshot(s)
  OBVIOUS
<1>16. n = LiveRecord(pc, st, dr, s, pv, ob, pool, kn)
  BY <1>4, <1>10, <1>14, <1>15 DEF Prepared, LiveRecord
<1>17. /\ IsRuntime(n) /\ n # Absent /\ n.pc = "prepared" /\ n.stop = FALSE /\ n.sup = s
       /\ n.passive = RegisterPassive(r)
  BY <1>11, <1>12, <1>13, <1>14, <1>16, <1>15, LiveMade
<1>18. /\ Runtimes' /\ runtime'[k] = n /\ \A x \in Generations : x # k => runtime'[x] = runtime[x]
  BY <1>1, <1>5, <1>17, OneChanges
<1>19. ctl' \in [active : GenOrNone, nextGen : Nat] /\ ctl'.active = ctl.active /\ ctl'.nextGen = k + 1
  BY <1>2, <1>5, <1>6
<1>20. Numbers'
  <2>1. ctl.active < k + 1
    BY <1>6, <1>7
  <2>2. ctl.active # None => runtime'[ctl.active] # Absent
    BY <1>6, <1>8, <1>18
  <2>3. \A x \in Generations : x >= k + 1 => runtime'[x] = Absent
    <3> SUFFICES ASSUME NEW x \in Generations, x >= k + 1 PROVE runtime'[x] = Absent
      OBVIOUS
    <3>1. x \in Nat /\ x >= k /\ x # k
      BY <1>6, <1>7
    <3> QED
      BY <3>1, <1>6, <1>18
  <2> QED
    BY <2>1, <2>2, <2>3, <1>19 DEF Numbers
<1>21. IsPrepared(k, r)'
  <2>1. k < k + 1
    BY <1>6
  <2> QED
    BY <2>1, <1>5, <1>8, <1>11, <1>17, <1>18, <1>19 DEF IsPrepared
<1>22. \A x, q : IsPrepared(x, q) => IsPrepared(x, q)' /\ x # k
  <2> SUFFICES ASSUME NEW x, NEW q, IsPrepared(x, q) PROVE IsPrepared(x, q)' /\ x # k
    OBVIOUS
  <2>1. x \in Generations /\ x \in Nat /\ x < k /\ x # ctl.active
    BY <1>2, <1>7 DEF IsPrepared
  <2>2. x # k /\ x < k + 1
    BY <2>1, <1>6
  <2> QED
    BY <2>1, <2>2, <1>18, <1>19 DEF IsPrepared
<1> QED
  BY <1>5, <1>6, <1>8, <1>18, <1>19, <1>20, <1>21, <1>22 DEF Allocated

(* A step of the operator that leaves the active runtime and the answers   *)
(* of the threads alone.                                                   *)
LEMMA AsideKeepsRunning ==
    ASSUME WhileRunning, UNCHANGED <<loop, channel, process>>, ctl'.active = ctl.active,
           admin.pc = "ack" => ack[Operator] = "Rejected",
           admin'.pc \notin {"ack", "joinPrevious"},
           ack' = [ack EXCEPT ![Operator] = "None"],
           runtime'[ctl.active] = runtime[ctl.active],
           \A g \in Generations : runtime[g].pc \in AckPcs => runtime'[g].pc = runtime[g].pc,
           Lineage'
    PROVE  WhileRunning'
<1>1. ActiveWorks /\ Lineage /\ Waits /\ Queued /\ Said /\ LoopFollows
  BY DEF WhileRunning
<1>2. ~Switched /\ ~Switched'
  BY DEF Switched
<1>3. /\ ack \in [Senders -> {"None", "Waiting", "Accepted", "Rejected"}]
      /\ Operator \in Senders /\ Operator \notin Generations /\ Generations \subseteq Senders
      /\ ctl.active \in Generations
  BY <1>1, OperatorIsNoGeneration DEF Waits, ActiveWorks
<1>4. /\ ack' \in [Senders -> {"None", "Waiting", "Accepted", "Rejected"}]
      /\ ack'[Operator] = "None" /\ \A x \in Senders : x # Operator => ack'[x] = ack[x]
  BY <1>3
<1>5. ack[Operator] # "Waiting"
  BY <1>1 DEF Waits
<1>6. \A i \in 1 .. Len(channel) : channel[i].from \in Senders /\ channel[i].from # Operator
  <2> TAKE i \in 1 .. Len(channel)
  <2>1. channel[i] \in Messages /\ ack[channel[i].from] = "Waiting"
    BY <1>1, ElementOfSeq DEF Queued
  <2> QED
    BY <2>1, <1>5 DEF Messages
<1>7. ActiveWorks'
  BY <1>1, <1>2 DEF ActiveWorks
<1>8. Waits'
  <2>1. \A g \in Generations : ack'[g] # "None" => runtime'[g].pc \in {"ackPassive", "ackProbe"}
    <3>1. \A g \in Generations : ack'[g] = ack[g]
      BY <1>3, <1>4
    <3> QED
      BY <3>1, <1>1 DEF Waits, AckPcs
  <2> QED
    BY <2>1, <1>4 DEF Waits
<1>9. Queued'
  <2>1. \A i \in 1 .. Len(channel) : ack'[channel[i].from] = "Waiting"
    BY <1>1, <1>4, <1>6 DEF Queued
  <2>2. \A x \in Senders : ack'[x] = "Waiting" => \E i \in 1 .. Len(channel) : channel[i].from = x
    BY <1>1, <1>4 DEF Queued
  <2> QED
    BY <2>1, <2>2, <1>1 DEF Queued
<1>10. Said'
  <2> SUFFICES ASSUME NEW i \in 1 .. Len(channel) PROVE Says(channel[i])'
    BY DEF Said
  <2>1. PICK m : m = channel[i]
    OBVIOUS
  <2>2. Says(m) /\ m.from # Operator
    BY <2>1, <1>1, <1>6 DEF Said
  <2>3. Says(m)'
    BY <2>2 DEF Says
  <2> QED
    BY <2>1, <2>3
<1>11. LoopFollows'
  <2>1. ack'[ctl.active] = ack[ctl.active]
    BY <1>3, <1>4
  <2> QED
    BY <2>1, <1>1, <1>2 DEF LoopFollows
<1> QED
  BY <1>7, <1>8, <1>9, <1>10, <1>11 DEF WhileRunning

(* While the operator waits for nothing it has no answer.                  *)
LEMMA NoAnswer ==
    ASSUME WhileRunning, admin.pc # "ack", ack' = ack
    PROVE  ack' = [ack EXCEPT ![Operator] = "None"]
<1>1. ack \in [Senders -> {"None", "Waiting", "Accepted", "Rejected"}] /\ ack[Operator] = "None"
  BY DEF WhileRunning, Waits
<1>2. Operator \in Senders
  BY OperatorIsNoGeneration
<1> QED
  BY <1>1, <1>2

(* The fields of the operator's command.                                   *)
AdminRecord(pc, mirror, rev, next, back, previous) ==
    [pc |-> pc, mirror |-> mirror, rev |-> rev, next |-> next, back |-> back, previous |-> previous]

(* ... by their names.                                                     *)
LEMMA AdminParts ==
    ASSUME Phases
    PROVE  /\ admin = AdminRecord(admin.pc, admin.mirror, admin.rev, admin.next, admin.back, admin.previous)
           /\ admin.mirror \in Revisions /\ admin.rev \in Revisions
           /\ admin.next \in GenOrNone /\ admin.back \in GenOrNone /\ admin.previous \in GenOrNone
BY DEF Phases, AdminRecord

AdminPcs == {"idle", "prepareRollback", "send", "ack", "joinPrevious", "drop"}

(* ... and their types.                                                    *)
LEMMA AdminTyped ==
    ASSUME NEW pc \in AdminPcs, NEW m \in Revisions, NEW v \in Revisions, NEW x \in GenOrNone,
           NEW b \in GenOrNone, NEW p \in GenOrNone, NEW t, t = AdminRecord(pc, m, v, x, b, p)
    PROVE  t \in [pc : AdminPcs, mirror : Revisions, rev : Revisions,
                  next : GenOrNone, back : GenOrNone, previous : GenOrNone]
BY DEF AdminRecord

(* The operator prepares a runtime for a new configuration.                *)
LEMMA PrepareKeeps ==
    ASSUME Always, NEW r \in Revisions, ApplyPrepare(r)
    PROVE  Always' /\ (WhileRunning => WhileRunning')
<1>1. /\ admin.pc = "idle" /\ Allocate(r) /\ UNCHANGED <<channel, ack, loop, process>>
  BY DEF ApplyPrepare, Elsewhere
<1>2. PICK k : k = ctl.nextGen
  OBVIOUS
<1>3. Allocated(r, k)
  BY <1>1, <1>2, AllocateMakes
<1>4. Phases
  BY DEF Always
<1>5. admin.next = None /\ admin.back = None /\ admin.previous = None
  BY <1>1, <1>4 DEF Phases
<1>6. PICK pc, m, v, x, b, p : admin = AdminRecord(pc, m, v, x, b, p)
  BY <1>4, AdminParts
<1>7. admin.mirror = m /\ admin.back = b /\ admin.previous = p
  BY <1>6 DEF AdminRecord
<1>8. admin' = AdminRecord("prepareRollback", m, r, k, b, p)
  BY <1>2, <1>6 DEF ApplyPrepare, AdminRecord
<1>9. /\ admin'.pc = "prepareRollback" /\ admin'.mirror = m /\ admin'.rev = r /\ admin'.next = k
      /\ admin'.back = None /\ admin'.previous = None
  BY <1>5, <1>7, <1>8 DEF AdminRecord
<1>10. m \in Revisions /\ k \in GenOrNone /\ None \in GenOrNone
  BY <1>3, <1>4, <1>7, AdminParts DEF Allocated, GenOrNone
<1>11. Phases'
  <2>1. admin' \in [pc : {"idle", "prepareRollback", "send", "ack", "joinPrevious", "drop"},
                    mirror : Revisions, rev : Revisions,
                    next : GenOrNone, back : GenOrNone, previous : GenOrNone]
    BY <1>5, <1>7, <1>8, <1>10 DEF AdminRecord
  <2>2. IsPrepared(k, r)'
    BY <1>3 DEF Allocated
  <2>3. IsPrepared(admin.next, admin.rev)'
    BY <2>2, <1>9 DEF IsPrepared
  <2> QED
    BY <2>1, <2>3, <1>9 DEF Phases
<1>12. Always'
  BY <1>3, <1>11 DEF Always, Allocated
<1>13. ASSUME WhileRunning PROVE WhileRunning'
  <2>1. /\ ctl.active \in Generations
        /\ \A g \in Generations : g # ctl.active => runtime[g] = Absent
    BY <1>5, <1>13, OperatorIsNoGeneration DEF WhileRunning, ActiveWorks, Lineage
  <2>2. /\ ctl'.active = ctl.active /\ runtime'[ctl.active] = runtime[ctl.active]
        /\ \A g \in Generations : runtime[g].pc \in AckPcs => runtime'[g].pc = runtime[g].pc
    BY <2>1, <1>3 DEF Allocated, Absent, AckPcs
  <2>3. Lineage'
    BY <2>1, <1>3, <1>9 DEF Allocated, Lineage
  <2>4. ack' = [ack EXCEPT ![Operator] = "None"]
    BY <1>1, <1>13, NoAnswer
  <2> QED
    BY <2>2, <2>3, <2>4, <1>1, <1>9, <1>13, AsideKeepsRunning
<1> QED
  BY <1>12, <1>13

(* ... and one to go back to.                                              *)
LEMMA PrepareRollbackKeeps ==
    ASSUME Always, ApplyPrepareRollback
    PROVE  Always' /\ (WhileRunning => WhileRunning')
<1>1. /\ admin.pc = "prepareRollback" /\ Allocate(admin.mirror)
      /\ UNCHANGED <<channel, ack, loop, process>>
  BY DEF ApplyPrepareRollback, Elsewhere
<1>2. PICK k, m, v, x : k = ctl.nextGen /\ m = admin.mirror /\ v = admin.rev /\ x = admin.next
  OBVIOUS
<1>3. Phases
  BY DEF Always
<1>4. m \in Revisions /\ v \in Revisions /\ x \in GenOrNone
  BY <1>2, <1>3, AdminParts
<1>5. Allocate(m)
  BY <1>1, <1>2
<1>6. Allocated(m, k)
  BY <1>2, <1>4, <1>5, AllocateMakes
<1>7. admin.back = None /\ admin.previous = None /\ IsPrepared(x, v)
  BY <1>1, <1>2, <1>3 DEF Phases
<1>8. IsPrepared(x, v)' /\ x # k /\ IsPrepared(k, m)'
  BY <1>6, <1>7 DEF Allocated
<1>9. PICK pc, b, p : admin = AdminRecord(pc, m, v, x, b, p)
  BY <1>2, <1>3, AdminParts
<1>10. admin' = AdminRecord("send", m, v, x, k, p) /\ p = None
  <2>1. admin.previous = p
    BY <1>9 DEF AdminRecord
  <2>2. admin' = [admin EXCEPT !.pc = "send", !.back = k]
    BY <1>2 DEF ApplyPrepareRollback
  <2>3. admin' = AdminRecord("send", m, v, x, k, p)
    BY <1>9, <2>2 DEF AdminRecord
  <2> QED
    BY <2>1, <2>3, <1>7
<1>11. /\ admin'.pc = "send" /\ admin'.mirror = m /\ admin'.rev = v /\ admin'.next = x
       /\ admin'.back = k /\ admin'.previous = None
  BY <1>10 DEF AdminRecord
<1>12. k \in GenOrNone /\ None \in GenOrNone
  BY <1>6 DEF Allocated, GenOrNone
<1>13. Phases'
  <2>1. admin' \in [pc : {"idle", "prepareRollback", "send", "ack", "joinPrevious", "drop"},
                    mirror : Revisions, rev : Revisions,
                    next : GenOrNone, back : GenOrNone, previous : GenOrNone]
    BY <1>4, <1>10, <1>12 DEF AdminRecord
  <2>2. IsPrepared(admin.next, admin.rev)' /\ IsPrepared(admin.back, admin.mirror)'
    BY <1>8, <1>11 DEF IsPrepared
  <2> QED
    BY <2>1, <2>2, <1>8, <1>11 DEF Phases
<1>14. Always'
  BY <1>6, <1>13 DEF Always, Allocated
<1>15. ASSUME WhileRunning PROVE WhileRunning'
  <2>1. /\ ctl.active \in Generations /\ ctl.active < x
        /\ \A g \in Generations : g \notin {ctl.active, x} => runtime[g] = Absent
    BY <1>1, <1>2, <1>7, <1>15, OperatorIsNoGeneration DEF WhileRunning, ActiveWorks, Lineage
  <2>2. /\ ctl'.active = ctl.active /\ runtime'[ctl.active] = runtime[ctl.active]
        /\ \A g \in Generations : runtime[g].pc \in AckPcs => runtime'[g].pc = runtime[g].pc
    BY <2>1, <1>6 DEF Allocated, Absent, AckPcs
  <2>3. Lineage'
    BY <2>1, <1>6, <1>11 DEF Allocated, Lineage
  <2>4. ack' = [ack EXCEPT ![Operator] = "None"]
    BY <1>1, <1>15, NoAnswer
  <2> QED
    BY <2>2, <2>3, <2>4, <1>1, <1>11, <1>15, AsideKeepsRunning
<1> QED
  BY <1>14, <1>15

(* Runtimes are told to stop.                                              *)
LEMMA StopKeeps ==
    ASSUME Runtimes, NEW gs, \A g \in Generations : g \in gs => runtime[g] # Absent,
           runtime' = Stop(runtime, gs)
    PROVE  /\ Runtimes'
           /\ \A g \in Generations : g \in gs => Halted(runtime[g], runtime'[g])
           /\ \A g \in Generations : g \notin gs => runtime'[g] = runtime[g]
           /\ \A g \in Generations : runtime'[g] = Absent <=> runtime[g] = Absent
<1>1. PICK R, S : R = runtime /\ S = runtime'
  OBVIOUS
<1>2. S = Stop(R, gs)
  BY <1>1
<1>3. \A g \in Generations : IsRuntime(R[g]) /\ (g \in gs => R[g] # Absent)
  BY <1>1 DEF Runtimes
<1>4. /\ S = [g \in Generations |-> S[g]]
      /\ \A g \in Generations : g \in gs => Halted(R[g], S[g])
      /\ \A g \in Generations : g \notin gs => S[g] = R[g]
      /\ \A g \in Generations : IsRuntime(S[g])
  BY <1>2, <1>3, StopHalts
<1>5. Runtimes'
  BY <1>1, <1>4 DEF Runtimes
<1>6. \A g \in Generations : S[g] = Absent <=> R[g] = Absent
  BY <1>3, <1>4 DEF Halted
<1> QED
  BY <1>1, <1>4, <1>5, <1>6

(* The controller's record, when runtimes are told to stop.                *)
LEMMA StopKeepsNumbers ==
    ASSUME Numbers, \A g \in Generations : runtime'[g] = Absent <=> runtime[g] = Absent,
           ctl' = ctl \/ ctl' = [ctl EXCEPT !.nextGen = @ + 1]
    PROVE  Numbers' /\ ctl'.active = ctl.active
<1>1. /\ ctl \in [active : GenOrNone, nextGen : Nat] /\ ctl.active < ctl.nextGen
      /\ ctl.active # None => runtime[ctl.active] # Absent
      /\ \A g \in Generations : g >= ctl.nextGen => runtime[g] = Absent
  BY DEF Numbers
<1>2. /\ ctl' \in [active : GenOrNone, nextGen : Nat] /\ ctl'.active = ctl.active
      /\ ctl'.nextGen = ctl.nextGen \/ ctl'.nextGen = ctl.nextGen + 1
  BY <1>1
<1>3. Generations \subseteq Nat /\ ctl.active \in Nat /\ ctl.nextGen \in Nat
  <2>1. Generations \subseteq Nat /\ GenOrNone \subseteq Nat
    BY RuntimeAssumption DEF GenOrNone, None
  <2> QED
    BY <2>1, <1>1
<1>4. ctl.active < ctl'.nextGen
  BY <1>1, <1>2, <1>3
<1>5. \A g \in Generations : g >= ctl'.nextGen => g >= ctl.nextGen
  BY <1>2, <1>3
<1>6. ctl.active # None => runtime'[ctl.active] # Absent
  BY <1>1 DEF GenOrNone
<1> QED
  BY <1>1, <1>2, <1>4, <1>5, <1>6 DEF Numbers

(* The command is given up: what was prepared is told to stop.             *)
LEMMA GivenUpKeeps ==
    ASSUME Always, admin.pc \in {"prepareRollback", "ack"},
           runtime' = Stop(runtime, {admin.next, admin.back}),
           ctl' = ctl \/ ctl' = [ctl EXCEPT !.nextGen = @ + 1],
           admin' = [admin EXCEPT !.pc = "drop"],
           UNCHANGED <<channel, loop, process>>,
           admin.pc = "ack" => ack[Operator] = "Rejected",
           WhileRunning => ack' = [ack EXCEPT ![Operator] = "None"]
    PROVE  Always' /\ (WhileRunning => WhileRunning')
<1>1. Runtimes /\ Numbers /\ Phases
  BY DEF Always
<1>2. PICK m, v, x, b : m = admin.mirror /\ v = admin.rev /\ x = admin.next /\ b = admin.back
  OBVIOUS
<1>3. /\ x \in Generations /\ x # ctl.active /\ runtime[x].pc = "prepared"
      /\ b = None \/ (b \in Generations /\ b # ctl.active /\ runtime[b].pc = "prepared")
      /\ admin.previous = None
  BY <1>1, <1>2 DEF Phases, IsPrepared
<1>4. \A g \in Generations : g \in {x, b} => runtime[g] # Absent
  BY <1>3, OperatorIsNoGeneration DEF Absent
<1>5. runtime' = Stop(runtime, {x, b})
  BY <1>2
<1>6. PICK gs : gs = {x, b}
  OBVIOUS
<1>7. /\ Runtimes'
      /\ \A g \in Generations : g \in gs => Halted(runtime[g], runtime'[g])
      /\ \A g \in Generations : g \notin gs => runtime'[g] = runtime[g]
      /\ \A g \in Generations : runtime'[g] = Absent <=> runtime[g] = Absent
  BY <1>1, <1>4, <1>5, <1>6, StopKeeps
<1>8. Numbers' /\ ctl'.active = ctl.active
  BY <1>1, <1>7, StopKeepsNumbers
<1>9. PICK pc, p : admin = AdminRecord(pc, m, v, x, b, p)
  BY <1>1, <1>2, AdminParts
<1>10. admin.previous = p
  BY <1>9 DEF AdminRecord
<1>11. admin' = AdminRecord("drop", m, v, x, b, p)
  BY <1>9 DEF AdminRecord
<1>12. /\ admin'.pc = "drop" /\ admin'.mirror = m /\ admin'.rev = v /\ admin'.next = x
       /\ admin'.back = b /\ admin'.previous = None
  BY <1>3, <1>10, <1>11 DEF AdminRecord
<1>13. /\ runtime'[x].pc \in EndPcs
       /\ b # None => runtime'[b].pc \in EndPcs
  BY <1>3, <1>6, <1>7 DEF Halted
<1>14. Phases'
  <2>1. m \in Revisions /\ v \in Revisions /\ x \in GenOrNone /\ b \in GenOrNone /\ p \in GenOrNone
    BY <1>1, <1>2, <1>10, AdminParts
  <2>2. admin' \in [pc : {"idle", "prepareRollback", "send", "ack", "joinPrevious", "drop"},
                    mirror : Revisions, rev : Revisions,
                    next : GenOrNone, back : GenOrNone, previous : GenOrNone]
    <3>1. PICK t, d : t = admin' /\ d = "drop"
      OBVIOUS
    <3>2. d \in AdminPcs /\ t = AdminRecord(d, m, v, x, b, p)
      BY <1>11, <3>1 DEF AdminPcs
    <3>3. t \in [pc : AdminPcs, mirror : Revisions, rev : Revisions,
                 next : GenOrNone, back : GenOrNone, previous : GenOrNone]
      BY <2>1, <3>2, AdminTyped
    <3> QED
      BY <3>1, <3>3 DEF AdminPcs
  <2>3. IsOver(admin.next)' /\ IsOver(admin.back)'
    BY <1>3, <1>8, <1>12, <1>13 DEF IsOver
  <2> QED
    BY <2>2, <2>3, <1>12 DEF Phases
<1>15. Always'
  BY <1>7, <1>8, <1>14 DEF Always
<1>16. ASSUME WhileRunning PROVE WhileRunning'
  <2>1. /\ ctl.active \in Generations
        /\ \A g \in Generations : g \notin {ctl.active, x, b} => runtime[g] = Absent
    BY <1>2, <1>3, <1>16, OperatorIsNoGeneration DEF WhileRunning, ActiveWorks, Lineage
  <2>2. /\ runtime'[ctl.active] = runtime[ctl.active]
        /\ \A g \in Generations : runtime[g].pc \in AckPcs => runtime'[g].pc = runtime[g].pc
    BY <2>1, <1>3, <1>6, <1>7, OperatorIsNoGeneration DEF AckPcs
  <2>3. Lineage'
    BY <2>1, <1>7, <1>8, <1>12 DEF Lineage
  <2> QED
    BY <2>2, <2>3, <1>8, <1>12, <1>16, AsideKeepsRunning
<1> QED
  BY <1>15, <1>16

(* A thread cannot be spawned.                                             *)
LEMMA PrepareFailsKeeps ==
    ASSUME Always, ApplyPrepareFails
    PROVE  Always' /\ (WhileRunning => WhileRunning')
<1>1. /\ admin.pc = "prepareRollback" /\ ctl' = [ctl EXCEPT !.nextGen = @ + 1]
      /\ admin' = [admin EXCEPT !.pc = "drop"] /\ runtime' = Stop(runtime, {admin.next})
      /\ UNCHANGED <<channel, ack, loop, process>>
  BY DEF ApplyPrepareFails, Elsewhere
<1>2. admin.back = None
  BY <1>1 DEF Always, Phases
<1>3. \A g \in Generations : g \in {admin.next} <=> g \in {admin.next, admin.back}
  BY <1>2, OperatorIsNoGeneration
<1>4. runtime' = Stop(runtime, {admin.next, admin.back})
  BY <1>1, <1>3, Zenon DEF Stop
<1>5. WhileRunning => ack' = [ack EXCEPT ![Operator] = "None"]
  BY <1>1, NoAnswer
<1> QED
  BY <1>1, <1>4, <1>5, GivenUpKeeps

(* The loop refused the generation.                                        *)
LEMMA RefusedKeeps ==
    ASSUME Always, ApplyRefused
    PROVE  Always' /\ (WhileRunning => WhileRunning')
<1>1. /\ admin.pc = "ack" /\ ack[Operator] = "Rejected" /\ ack' = [ack EXCEPT ![Operator] = "None"]
      /\ runtime' = Stop(runtime, {admin.next, admin.back})
      /\ admin' = [admin EXCEPT !.pc = "drop"] /\ ctl' = ctl /\ UNCHANGED <<channel, loop, process>>
  BY DEF ApplyRefused, DroppedOnRefusal, Elsewhere
<1> QED
  BY <1>1, GivenUpKeeps

(* The previous runtime is joined, and what was prepared to go back to is  *)
(* told to stop.                                                           *)
LEMMA CommittedKeeps ==
    ASSUME Always, ApplyCommitted
    PROVE  Always' /\ (WhileRunning => WhileRunning')
<1>1. /\ admin.pc = "joinPrevious"
      /\ admin.previous = None \/ ~Alive(admin.previous)
      /\ runtime' = Stop(Forget(runtime, {admin.previous}), {admin.back})
      /\ UNCHANGED <<ctl, channel, ack, loop, process>>
  BY DEF ApplyCommitted, Elsewhere
<1>2. Runtimes /\ Numbers /\ Phases
  BY DEF Always
<1>3. PICK m, v, b, o : m = admin.mirror /\ v = admin.rev /\ b = admin.back /\ o = admin.previous
  OBVIOUS
<1>4. /\ b \in Generations /\ b # ctl.active /\ runtime[b].pc = "prepared" /\ runtime[b] # Absent
      /\ o # None => o # ctl.active /\ o # b
  BY <1>1, <1>2, <1>3 DEF Phases, IsPrepared, Absent
<1>5. PICK R, F, S : R = runtime /\ F = Forget(R, {o}) /\ S = runtime'
  OBVIOUS
<1>6. /\ F = [g \in Generations |-> IF g \in {o} THEN Absent ELSE R[g]]
      /\ S = Stop(F, {b}) /\ b # o
  BY <1>1, <1>3, <1>4, <1>5, OperatorIsNoGeneration DEF Forget
<1>7. \A g \in Generations : IsRuntime(F[g]) /\ (g \in {b} => F[g] # Absent)
  BY <1>2, <1>4, <1>5, <1>6 DEF Runtimes, IsRuntime
<1>8. PICK gs : gs = {b}
  OBVIOUS
<1>9. /\ S = [g \in Generations |-> S[g]]
      /\ \A g \in Generations : g \in gs => Halted(F[g], S[g])
      /\ \A g \in Generations : g \notin gs => S[g] = F[g]
      /\ \A g \in Generations : IsRuntime(S[g])
  BY <1>6, <1>7, <1>8, StopHalts
<1>10. /\ S[b] # Absent /\ S[b].pc \in EndPcs
       /\ \A g \in Generations : g # b /\ g # o => S[g] = R[g]
       /\ \A g \in Generations : g = o => S[g] = Absent
  BY <1>4, <1>5, <1>6, <1>8, <1>9 DEF Halted
<1>11. Runtimes'
  BY <1>5, <1>9 DEF Runtimes
<1>12. Numbers'
  <2>1. /\ ctl \in [active : GenOrNone, nextGen : Nat] /\ ctl.active < ctl.nextGen
        /\ ctl.active # None => ctl.active \in Generations /\ runtime[ctl.active] # Absent
        /\ \A g \in Generations : g >= ctl.nextGen => runtime[g] = Absent
    BY <1>2 DEF Numbers, GenOrNone
  <2>2. ctl.active # None => runtime'[ctl.active] # Absent
    BY <2>1, <1>4, <1>5, <1>10
  <2>3. \A g \in Generations : g >= ctl.nextGen => runtime'[g] = Absent
    BY <2>1, <1>4, <1>5, <1>10
  <2> QED
    BY <2>1, <2>2, <2>3, <1>1 DEF Numbers
<1>13. PICK pc, x : admin = AdminRecord(pc, m, v, x, b, o)
  BY <1>2, <1>3, AdminParts
<1>14. admin' = AdminRecord("drop", v, v, None, b, None)
  BY <1>3, <1>13 DEF ApplyCommitted, AdminRecord
<1>15. /\ admin'.pc = "drop" /\ admin'.mirror = v /\ admin'.rev = v /\ admin'.next = None
       /\ admin'.back = b /\ admin'.previous = None
  BY <1>14 DEF AdminRecord
<1>16. Phases'
  <2>1. PICK t, d, z : t = admin' /\ d = "drop" /\ z = None
    OBVIOUS
  <2>2. d \in AdminPcs /\ t = AdminRecord(d, v, v, z, b, z)
    BY <1>14, <2>1 DEF AdminPcs
  <2>3. v \in Revisions /\ b \in GenOrNone /\ z \in GenOrNone
    BY <1>2, <1>3, <2>1, AdminParts DEF GenOrNone
  <2>4. t \in [pc : AdminPcs, mirror : Revisions, rev : Revisions,
               next : GenOrNone, back : GenOrNone, previous : GenOrNone]
    BY <2>2, <2>3, AdminTyped
  <2>5. admin' \in [pc : {"idle", "prepareRollback", "send", "ack", "joinPrevious", "drop"},
                    mirror : Revisions, rev : Revisions,
                    next : GenOrNone, back : GenOrNone, previous : GenOrNone]
    BY <2>1, <2>4 DEF AdminPcs
  <2>6. IsOver(admin.next)' /\ IsOver(admin.back)'
    BY <1>1, <1>4, <1>5, <1>10, <1>15 DEF IsOver
  <2> QED
    BY <2>5, <2>6, <1>15 DEF Phases
<1>17. Always'
  BY <1>11, <1>12, <1>16 DEF Always
<1>18. ASSUME WhileRunning PROVE WhileRunning'
  <2>1. /\ ctl.active \in Generations /\ admin.next = ctl.active /\ o \in Generations /\ o # None
        /\ \A g \in Generations : g \notin {ctl.active, b, o} => runtime[g] = Absent
    BY <1>1, <1>3, <1>18, OperatorIsNoGeneration DEF WhileRunning, ActiveWorks, Lineage
  <2>2. runtime[o].pc \notin AckPcs
    <3>1. runtime[o] = Absent \/ runtime[o].pc = "stopped"
      BY <2>1, <1>1, <1>3 DEF Alive, Exists
    <3> QED
      BY <3>1 DEF AckPcs, Absent
  <2>3. /\ runtime'[ctl.active] = runtime[ctl.active]
        /\ \A g \in Generations : runtime[g].pc \in AckPcs => runtime'[g].pc = runtime[g].pc
    <3>1. runtime[b].pc \notin AckPcs
      BY <1>4 DEF AckPcs
    <3> QED
      BY <2>1, <2>2, <3>1, <1>4, <1>5, <1>10
  <2>4. Lineage'
    BY <2>1, <1>1, <1>5, <1>10, <1>15 DEF Lineage
  <2>5. ack' = [ack EXCEPT ![Operator] = "None"]
    BY <1>1, <1>18, NoAnswer
  <2> QED
    BY <2>3, <2>4, <2>5, <1>1, <1>15, <1>18, AsideKeepsRunning
<1> QED
  BY <1>17, <1>18

(* What was prepared and not committed is joined.                          *)
LEMMA DroppedKeeps ==
    ASSUME Always, ApplyDropped
    PROVE  Always' /\ (WhileRunning => WhileRunning')
<1>1. /\ admin.pc = "drop" /\ runtime' = Forget(runtime, {admin.next, admin.back})
      /\ \A g \in {admin.next, admin.back} \ {None} : ~Alive(g)
      /\ UNCHANGED <<ctl, channel, ack, loop, process>>
  BY DEF ApplyDropped, Elsewhere
<1>2. Runtimes /\ Numbers /\ Phases
  BY DEF Always
<1>3. PICK m, x, b, p : m = admin.mirror /\ x = admin.next /\ b = admin.back /\ p = admin.previous
  OBVIOUS
<1>4. /\ x = None \/ (x \in Generations /\ x # ctl.active /\ runtime[x].pc \in EndPcs)
      /\ b = None \/ (b \in Generations /\ b # ctl.active /\ runtime[b].pc \in EndPcs)
      /\ p = None
  BY <1>1, <1>2, <1>3 DEF Phases, IsOver
<1>5. runtime' = [g \in Generations |-> IF g \in {x, b} THEN Absent ELSE runtime[g]]
  BY <1>1, <1>3 DEF Forget
<1>6. /\ \A g \in Generations : g \notin {x, b} => runtime'[g] = runtime[g]
      /\ \A g \in Generations : g \in {x, b} => runtime'[g] = Absent
      /\ runtime' = [g \in Generations |-> runtime'[g]]
  BY <1>5
<1>7. Runtimes'
  BY <1>2, <1>6 DEF Runtimes, IsRuntime
<1>8. Numbers'
  <2>1. /\ ctl \in [active : GenOrNone, nextGen : Nat] /\ ctl.active < ctl.nextGen
        /\ ctl.active # None => ctl.active \in Generations /\ runtime[ctl.active] # Absent
        /\ \A g \in Generations : g >= ctl.nextGen => runtime[g] = Absent
    BY <1>2 DEF Numbers, GenOrNone
  <2>2. ctl.active # None => runtime'[ctl.active] # Absent
    BY <2>1, <1>4, <1>6
  <2>3. \A g \in Generations : g >= ctl.nextGen => runtime'[g] = Absent
    BY <2>1, <1>6
  <2> QED
    BY <2>1, <2>2, <2>3, <1>1 DEF Numbers
<1>9. PICK pc, v : admin = AdminRecord(pc, m, v, x, b, p)
  BY <1>2, <1>3, AdminParts
<1>10. admin' = AdminRecord("idle", m, m, None, None, p)
  BY <1>3, <1>9 DEF ApplyDropped, AdminRecord
<1>11. /\ admin'.pc = "idle" /\ admin'.mirror = m /\ admin'.rev = m /\ admin'.next = None
       /\ admin'.back = None /\ admin'.previous = None
  BY <1>4, <1>10 DEF AdminRecord
<1>12. Phases'
  <2>1. PICK t, d, z : t = admin' /\ d = "idle" /\ z = None
    OBVIOUS
  <2>2. d \in AdminPcs /\ t = AdminRecord(d, m, m, z, z, p)
    BY <1>10, <2>1 DEF AdminPcs
  <2>3. m \in Revisions /\ p \in GenOrNone /\ z \in GenOrNone
    BY <1>2, <1>3, <2>1, AdminParts DEF GenOrNone
  <2>4. t \in [pc : AdminPcs, mirror : Revisions, rev : Revisions,
               next : GenOrNone, back : GenOrNone, previous : GenOrNone]
    BY <2>2, <2>3, AdminTyped
  <2>5. admin' \in [pc : {"idle", "prepareRollback", "send", "ack", "joinPrevious", "drop"},
                    mirror : Revisions, rev : Revisions,
                    next : GenOrNone, back : GenOrNone, previous : GenOrNone]
    BY <2>1, <2>4 DEF AdminPcs
  <2> QED
    BY <2>5, <1>11 DEF Phases
<1>13. Always'
  BY <1>7, <1>8, <1>12 DEF Always
<1>14. ASSUME WhileRunning PROVE WhileRunning'
  <2>1. /\ ctl.active \in Generations
        /\ \A g \in Generations : g \notin {ctl.active, x, b} => runtime[g] = Absent
    BY <1>3, <1>4, <1>14, OperatorIsNoGeneration DEF WhileRunning, ActiveWorks, Lineage
  <2>2. runtime'[ctl.active] = runtime[ctl.active]
    BY <2>1, <1>4, <1>6, OperatorIsNoGeneration
  <2>3. \A g \in Generations : runtime[g].pc \in AckPcs => runtime'[g].pc = runtime[g].pc
    <3>1. \A g \in Generations : g \in {x, b} => runtime[g].pc \notin AckPcs
      BY <1>4, OperatorIsNoGeneration DEF AckPcs, EndPcs
    <3> QED
      BY <3>1, <1>6
  <2>4. Lineage'
    BY <2>1, <1>1, <1>6, <1>11 DEF Lineage
  <2>5. ack' = [ack EXCEPT ![Operator] = "None"]
    BY <1>1, <1>14, NoAnswer
  <2> QED
    BY <2>2, <2>3, <2>4, <2>5, <1>1, <1>11, <1>14, AsideKeepsRunning
<1> QED
  BY <1>13, <1>14

(* The operator sends the generation to the loop: the channel has room.    *)
LEMMA SendKeeps ==
    ASSUME Always, ApplySend
    PROVE  Always' /\ (loop.running /\ WhileRunning => WhileRunning')
<1>1. PICK c : c = [kind |-> "Activate", rev |-> admin.rev, gen |-> admin.next,
                    avail |-> AvailabilitySnapshot(runtime[admin.next].sup)]
  OBVIOUS
<1>2. /\ admin.pc = "send" /\ Send(Operator, c) /\ admin' = [admin EXCEPT !.pc = "ack"]
      /\ UNCHANGED <<runtime, ctl, loop, process>>
  BY <1>1 DEF ApplySend, Elsewhere
<1>3. Runtimes /\ Numbers /\ Phases
  BY DEF Always
<1>4. PICK m, v, x, b : m = admin.mirror /\ v = admin.rev /\ x = admin.next /\ b = admin.back
  OBVIOUS
<1>5. IsPrepared(x, v) /\ IsPrepared(b, m) /\ x # b /\ admin.previous = None
  BY <1>2, <1>3, <1>4 DEF Phases
<1>6. PICK pc, p : admin = AdminRecord(pc, m, v, x, b, p)
  BY <1>3, <1>4, AdminParts
<1>7. admin.previous = p
  BY <1>6 DEF AdminRecord
<1>8. admin' = AdminRecord("ack", m, v, x, b, p)
  BY <1>2, <1>6 DEF AdminRecord
<1>9. /\ admin'.pc = "ack" /\ admin'.mirror = m /\ admin'.rev = v /\ admin'.next = x
      /\ admin'.back = b /\ admin'.previous = None
  BY <1>5, <1>7, <1>8 DEF AdminRecord
<1>10. Phases'
  <2>1. PICK t, d : t = admin' /\ d = "ack"
    OBVIOUS
  <2>2. d \in AdminPcs /\ t = AdminRecord(d, m, v, x, b, p)
    BY <1>8, <2>1 DEF AdminPcs
  <2>3. m \in Revisions /\ v \in Revisions /\ x \in GenOrNone /\ b \in GenOrNone /\ p \in GenOrNone
    BY <1>3, <1>4, <1>7, AdminParts
  <2>4. t \in [pc : AdminPcs, mirror : Revisions, rev : Revisions,
               next : GenOrNone, back : GenOrNone, previous : GenOrNone]
    BY <2>2, <2>3, AdminTyped
  <2>5. admin' \in [pc : {"idle", "prepareRollback", "send", "ack", "joinPrevious", "drop"},
                    mirror : Revisions, rev : Revisions,
                    next : GenOrNone, back : GenOrNone, previous : GenOrNone]
    BY <2>1, <2>4 DEF AdminPcs
  <2>6. IsPrepared(admin.next, admin.rev)' /\ IsPrepared(admin.back, admin.mirror)'
    BY <1>2, <1>5, <1>9 DEF IsPrepared
  <2> QED
    BY <2>5, <2>6, <1>5, <1>9 DEF Phases
<1>11. Always'
  BY <1>2, <1>3, <1>10 DEF Always, Runtimes, Numbers
<1>12. ASSUME loop.running, WhileRunning PROVE WhileRunning'
  <2>1. ActiveWorks /\ Lineage /\ Waits /\ Queued /\ Said /\ LoopFollows
    BY <1>12 DEF WhileRunning
  <2>2. /\ Operator \in Senders /\ Operator \notin Generations /\ Generations \subseteq Senders
        /\ Senders = {Operator} \cup Generations /\ ctl.active \in Generations
    BY <2>1, OperatorIsNoGeneration DEF ActiveWorks
  <2>3. ack[Operator] = "None" /\ ~Switched
    BY <2>1, <1>2 DEF Waits, Switched
  <2>4. PICK y : y = ctl.active
    OBVIOUS
  <2>5. \A z \in Senders : ack[z] = "Waiting" => z = y
    <3> SUFFICES ASSUME NEW z \in Senders, ack[z] = "Waiting" PROVE z = y
      OBVIOUS
    <3>1. z \in Generations
      BY <2>2, <2>3
    <3>2. runtime[z].pc \in TurnPcs
      BY <3>1, <2>1 DEF Waits, TurnPcs
    <3> QED
      BY <3>1, <3>2, <2>4, <1>2, <1>12, WhoWorks
  <2>6. channel \in Seq(Messages) /\ Len(channel) \in Nat /\ Len(channel) < ChannelCapacity
    BY <2>1, <2>5, OneWaits
  <2>7. ~Refused
    BY <2>6, <1>12, RuntimeAssumption DEF Refused
  <2>8. PICK s : s = runtime[x].sup
    OBVIOUS
  <2>9. x \in Generations /\ IsSup(s) /\ s.rev = v
    <3>1. x \in Generations /\ IsRuntime(runtime[x]) /\ runtime[x].pc \in LivePcs /\ s.rev = v
      BY <2>8, <1>3, <1>5 DEF IsPrepared, Runtimes, LivePcs
    <3> QED
      BY <2>8, <3>1, RuntimeByPc, LiveFields
  <2>10. AvailabilitySnapshot(s) \in Avails /\ v \in Revisions
    BY <2>9, <1>3, <1>4, AvailsAreTyped, AdminParts
  <2>11. c = [kind |-> "Activate", rev |-> v, gen |-> x, avail |-> AvailabilitySnapshot(s)]
    BY <2>8, <1>1, <1>4
  <2>12. /\ c \in Commands /\ c.kind = "Activate" /\ c.rev = v /\ c.gen = x
         /\ c.avail = AvailabilitySnapshot(s)
    BY <2>9, <2>10, <2>11 DEF Commands
  <2>13. PICK w \in Senders : w = Operator
    BY <2>2
  <2>14. /\ Queued'
         /\ ack' \in [Senders -> {"None", "Waiting", "Accepted", "Rejected"}]
         /\ ack'[w] = "Waiting" /\ \A z \in Senders : z # w => ack'[z] = ack[z]
         /\ \A i \in 1 .. Len(channel') :
               \/ i \in 1 .. Len(channel) /\ channel'[i] = channel[i] /\ channel[i].from # w
               \/ channel'[i] = [from |-> w, command |-> c]
    BY <2>1, <2>3, <2>7, <2>12, <2>13, <1>2, CommandIsQueued
  <2>15. /\ ack'[Operator] = "Waiting" /\ ~Switched'
         /\ \A g \in Generations : ack'[g] = ack[g]
    BY <2>2, <2>13, <2>14 DEF Switched
  <2>16. ActiveWorks'
    BY <2>1, <2>3, <2>15, <1>2 DEF ActiveWorks
  <2>17. Lineage'
    BY <2>1, <1>2, <1>4, <1>5, <1>9 DEF Lineage
  <2>18. Waits'
    BY <2>1, <2>14, <2>15, <1>2, <1>9 DEF Waits
  <2>19. Said'
    <3> SUFFICES ASSUME NEW i \in 1 .. Len(channel') PROVE Says(channel[i])'
      BY DEF Said
    <3>1. PICK a : a = channel'[i]
      OBVIOUS
    <3>2. CASE i \in 1 .. Len(channel) /\ channel'[i] = channel[i] /\ channel[i].from # w
      <4>1. Says(a) /\ a.from # Operator
        BY <2>1, <2>13, <3>1, <3>2 DEF Said
      <4>2. Says(a)'
        BY <4>1, <1>2 DEF Says
      <4> QED
        BY <3>1, <4>2
    <3>3. CASE channel'[i] = [from |-> w, command |-> c]
      <4>1. a.from = Operator /\ a.command = c
        BY <2>13, <3>1, <3>3
      <4>2. Says(a)'
        BY <2>2, <2>8, <2>12, <4>1, <1>2, <1>9 DEF Says
      <4> QED
        BY <3>1, <4>2
    <3> QED
      BY <3>2, <3>3, <2>14
  <2>20. LoopFollows'
    BY <2>1, <2>2, <2>3, <2>15, <1>2, <1>9 DEF LoopFollows
  <2> QED
    BY <2>14, <2>16, <2>17, <2>18, <2>19, <2>20 DEF WhileRunning
<1> QED
  BY <1>11, <1>12

(* What the commit makes of the runtimes: the candidate starts, the active *)
(* one is told to stop.                                                    *)
Replaced(x, a) ==
    /\ Runtimes' /\ x \in Generations /\ x # a
    /\ runtime'[x] # Absent /\ runtime'[x].pc = "turn" /\ runtime'[x].stop = FALSE
    /\ runtime'[x].sup = runtime[x].sup /\ runtime'[x].passive = runtime[x].passive
    /\ IsSup(runtime[x].sup)
    /\ a # None => a \in Generations /\ Halted(runtime[a], runtime'[a])
    /\ \A g \in Generations : g # x /\ g # a => runtime'[g] = runtime[g]

(* The commit does.                                                        *)
LEMMA CommitMakes ==
    ASSUME Always, admin.pc = "ack", NEW x, x = admin.next, NEW a, a = ctl.active,
           runtime' = [Stop(runtime, {ctl.active} \ {None}) EXCEPT ![admin.next].pc = "turn"]
    PROVE  Replaced(x, a)
<1>1. Runtimes /\ Numbers /\ Phases
  BY DEF Always
<1>2. x \in Generations /\ x # a /\ runtime[x].pc = "prepared" /\ ~runtime[x].stop
  BY <1>1 DEF Phases, IsPrepared
<1>3. a \in GenOrNone /\ (a # None => a \in Generations /\ runtime[a] # Absent)
  BY <1>1 DEF Numbers, GenOrNone
<1>4. PICK R, gs : R = runtime /\ gs = {a} \ {None}
  OBVIOUS
<1>5. PICK S : S = Stop(R, gs)
  OBVIOUS
<1>6. \A g \in Generations : IsRuntime(R[g]) /\ (g \in gs => R[g] # Absent)
  BY <1>1, <1>3, <1>4 DEF Runtimes
<1>7. /\ S = [g \in Generations |-> S[g]]
      /\ \A g \in Generations : g \in gs => Halted(R[g], S[g])
      /\ \A g \in Generations : g \notin gs => S[g] = R[g]
      /\ \A g \in Generations : IsRuntime(S[g])
  BY <1>5, <1>6, StopHalts
<1>8. runtime' = [S EXCEPT ![x].pc = "turn"]
  BY <1>4, <1>5
<1>9. PICK o, n : o = R[x] /\ n = [o EXCEPT !.pc = "turn"]
  OBVIOUS
<1>10. S[x] = o
  BY <1>2, <1>4, <1>7, <1>9
<1>11. runtime' = [S EXCEPT ![x] = n]
  BY <1>8, <1>9, <1>10
<1>12. /\ runtime' = [g \in Generations |-> runtime'[g]] /\ runtime'[x] = n
       /\ \A g \in Generations : g # x => runtime'[g] = S[g]
  BY <1>2, <1>7, <1>11
<1>13. IsRuntime(o) /\ o.pc = "prepared" /\ ~o.stop
  BY <1>2, <1>4, <1>6, <1>9
<1>14. IsLive(o)
  BY <1>13, RuntimeByPc DEF LivePcs
<1>15. PICK a0 \in LivePcs, b \in BOOLEAN : \E c, d, e, f, p, h :
          /\ o = LiveRecord(a0, b, c, d, e, f, p, h)
          /\ o.pc = a0 /\ o.stop = b /\ o.drained = c /\ o.sup = d /\ o.passive = e
          /\ o.observations = f /\ o.pool = p /\ o.reconciliation = h
          /\ IsSup(d) /\ IsPool(p) /\ p.accepting /\ IsKnown(h) /\ Kept(d, p)
  BY <1>14, LiveParts
<1>16. PICK c, d, e, f, p, h :
          /\ o = LiveRecord(a0, b, c, d, e, f, p, h)
          /\ o.pc = a0 /\ o.stop = b /\ o.drained = c /\ o.sup = d /\ o.passive = e
          /\ o.observations = f /\ o.pool = p /\ o.reconciliation = h
          /\ IsSup(d) /\ IsPool(p) /\ p.accepting /\ IsKnown(h) /\ Kept(d, p)
  BY <1>15
<1>17. n = LiveRecord("turn", b, c, d, e, f, p, h)
  BY <1>9, <1>16 DEF LiveRecord
<1>18. "turn" \in LivePcs
  BY DEF LivePcs, TurnPcs
<1>19. /\ IsRuntime(n) /\ n # Absent /\ n.pc = "turn" /\ n.stop = b /\ n.sup = d /\ n.passive = e
  BY <1>16, <1>17, <1>18, LiveMade
<1>20. b = FALSE
  BY <1>13, <1>16
<1>21. \A g \in Generations : IsRuntime(runtime'[g])
  BY <1>7, <1>12, <1>19
<1>22. Runtimes'
  BY <1>12, <1>21 DEF Runtimes
<1>23. a # None => a \in Generations /\ Halted(runtime[a], runtime'[a])
  BY <1>2, <1>3, <1>4, <1>7, <1>12
<1>24. \A g \in Generations : g # x /\ g # a => runtime'[g] = runtime[g]
  BY <1>4, <1>7, <1>12
<1>25. n.stop = FALSE
  BY <1>19, <1>20
<1>26. n.sup = o.sup /\ n.passive = o.passive /\ IsSup(o.sup)
  BY <1>16, <1>19
<1>27. o = runtime[x] /\ n = runtime'[x]
  BY <1>4, <1>9, <1>12
<1>28. n # Absent /\ n.pc = "turn"
  BY <1>19
<1> QED
  BY <1>2, <1>22, <1>23, <1>24, <1>25, <1>26, <1>27, <1>28 DEF Replaced

(* The candidate becomes the active runtime.  It publishes nothing before  *)
(* it has something to say, and the loop already has what it knows.        *)
LEMMA CommitKeeps ==
    ASSUME Always, ApplyCommit
    PROVE  Always' /\ (WhileRunning => WhileRunning')
<1>1. /\ admin.pc = "ack" /\ ack[Operator] = "Accepted" /\ ack' = [ack EXCEPT ![Operator] = "None"]
      /\ runtime' = [Stop(runtime, {ctl.active} \ {None}) EXCEPT ![admin.next].pc = "turn"]
      /\ ctl' = [ctl EXCEPT !.active = admin.next]
      /\ admin' = [admin EXCEPT !.pc = "joinPrevious", !.previous = ctl.active]
      /\ UNCHANGED <<channel, loop, process>>
  BY DEF ApplyCommit, Elsewhere
<1>2. Runtimes /\ Numbers /\ Phases
  BY DEF Always
<1>3. PICK m, v, x, b, a :
         m = admin.mirror /\ v = admin.rev /\ x = admin.next /\ b = admin.back /\ a = ctl.active
  OBVIOUS
<1>4. Replaced(x, a)
  BY <1>1, <1>3, CommitMakes
<1>5. /\ IsPrepared(x, v) /\ IsPrepared(b, m) /\ x # b
  BY <1>1, <1>2, <1>3 DEF Phases
<1>6. /\ b \in Generations /\ b # a /\ b < ctl.nextGen /\ runtime[b].pc = "prepared" /\ ~runtime[b].stop
      /\ runtime[b].sup.rev = m /\ runtime[b].passive = RegisterPassive(m) /\ runtime'[b] = runtime[b]
      /\ x \in Generations /\ x # a /\ x < ctl.nextGen /\ runtime[x].pc = "prepared"
      /\ runtime[x].sup.rev = v /\ runtime[x].passive = RegisterPassive(v)
  BY <1>3, <1>4, <1>5 DEF IsPrepared, Replaced
<1>7. /\ ctl \in [active : GenOrNone, nextGen : Nat] /\ a \in GenOrNone
      /\ \A g \in Generations : g >= ctl.nextGen => runtime[g] = Absent
      /\ a # None => runtime[a] # Absent
  BY <1>2, <1>3 DEF Numbers
<1>8. /\ ctl' \in [active : GenOrNone, nextGen : Nat] /\ ctl'.active = x /\ ctl'.nextGen = ctl.nextGen
  BY <1>1, <1>3, <1>6, <1>7 DEF GenOrNone
<1>9. Numbers'
  <2>1. \A g \in Generations : g >= ctl.nextGen => runtime'[g] = Absent
    <3> SUFFICES ASSUME NEW g \in Generations, g >= ctl.nextGen PROVE runtime'[g] = Absent
      OBVIOUS
    <3>1. runtime[g] = Absent /\ g # x
      BY <1>6, <1>7 DEF Absent
    <3>2. g # a
      BY <3>1, <1>7, OperatorIsNoGeneration
    <3> QED
      BY <3>1, <3>2, <1>4 DEF Replaced
  <2> QED
    BY <2>1, <1>4, <1>6, <1>8 DEF Numbers, Replaced
<1>10. PICK pc, p : admin = AdminRecord(pc, m, v, x, b, p)
  BY <1>2, <1>3, AdminParts
<1>11. admin' = AdminRecord("joinPrevious", m, v, x, b, a)
  BY <1>1, <1>3, <1>10 DEF AdminRecord
<1>12. /\ admin'.pc = "joinPrevious" /\ admin'.mirror = m /\ admin'.rev = v /\ admin'.next = x
       /\ admin'.back = b /\ admin'.previous = a
  BY <1>11 DEF AdminRecord
<1>13. Phases'
  <2>1. PICK t, d : t = admin' /\ d = "joinPrevious"
    OBVIOUS
  <2>2. d \in AdminPcs /\ t = AdminRecord(d, m, v, x, b, a)
    BY <1>11, <2>1 DEF AdminPcs
  <2>3. m \in Revisions /\ v \in Revisions /\ x \in GenOrNone /\ b \in GenOrNone
    BY <1>2, <1>3, AdminParts
  <2>4. t \in [pc : AdminPcs, mirror : Revisions, rev : Revisions,
               next : GenOrNone, back : GenOrNone, previous : GenOrNone]
    BY <2>2, <2>3, <1>7, AdminTyped
  <2>5. admin' \in [pc : {"idle", "prepareRollback", "send", "ack", "joinPrevious", "drop"},
                    mirror : Revisions, rev : Revisions,
                    next : GenOrNone, back : GenOrNone, previous : GenOrNone]
    BY <2>1, <2>4 DEF AdminPcs
  <2>6. IsPrepared(admin.back, admin.mirror)'
    BY <1>5, <1>6, <1>8, <1>12 DEF IsPrepared
  <2> QED
    BY <2>5, <2>6, <1>6, <1>8, <1>12 DEF Phases
<1>14. Always'
  BY <1>4, <1>9, <1>13 DEF Always, Replaced
<1>15. ASSUME WhileRunning PROVE WhileRunning'
  <2>1. ActiveWorks /\ Lineage /\ Waits /\ Queued /\ Said /\ LoopFollows
    BY <1>15 DEF WhileRunning
  <2>2. Switched /\ ~Switched'
    BY <1>1, <1>12 DEF Switched
  <2>3. /\ a \in Generations /\ a # None /\ Halted(runtime[a], runtime'[a])
        /\ runtime[a].pc \in TurnPcs \cup EndPcs /\ a < x
    BY <2>1, <2>2, <1>1, <1>3, <1>4, OperatorIsNoGeneration DEF ActiveWorks, Lineage, Replaced
  <2>4. /\ ack \in [Senders -> {"None", "Waiting", "Accepted", "Rejected"}]
        /\ Operator \in Senders /\ Operator \notin Generations /\ Generations \subseteq Senders
    BY <2>1, OperatorIsNoGeneration DEF Waits
  <2>5. /\ ack' \in [Senders -> {"None", "Waiting", "Accepted", "Rejected"}]
        /\ ack'[Operator] = "None" /\ \A z \in Senders : z # Operator => ack'[z] = ack[z]
    BY <2>4, <1>1
  <2>6. ack[x] = "None" /\ ack'[x] = "None"
    <3>1. ack[x] = "None"
      BY <2>1, <1>6 DEF Waits
    <3> QED
      BY <3>1, <2>4, <2>5, <1>6
  <2>7. ActiveWorks'
    BY <2>1, <1>1, <1>4, <1>8 DEF ActiveWorks, Replaced, TurnPcs
  <2>8. Lineage'
    <3>1. \A g \in Generations : g \notin {x, b, a} => runtime'[g] = Absent
      <4>1. \A g \in Generations : g \notin {x, b, a} => runtime[g] = Absent
        BY <2>1, <1>1, <1>2, <1>3, OperatorIsNoGeneration DEF Lineage, Phases
      <4> QED
        BY <4>1, <1>4 DEF Replaced
    <3>2. /\ runtime'[a].pc \in {"ackPassive", "complete", "ackProbe"} \cup EndPcs
          /\ runtime'[a].pc \notin EndPcs => runtime'[a].stop
      BY <2>3 DEF Halted, TurnPcs
    <3> QED
      BY <2>3, <3>1, <3>2, <1>8, <1>12 DEF Lineage
  <2>9. Waits'
    <3>1. \A g \in Generations : ack'[g] # "None" => runtime'[g].pc \in {"ackPassive", "ackProbe"}
      <4> SUFFICES ASSUME NEW g \in Generations, ack'[g] # "None"
                   PROVE  runtime'[g].pc \in {"ackPassive", "ackProbe"}
        OBVIOUS
      <4>1. ack[g] # "None" /\ runtime[g].pc \in {"ackPassive", "ackProbe"} /\ g # x
        BY <2>1, <2>4, <2>5, <2>6 DEF Waits
      <4>2. CASE g = a
        BY <4>1, <4>2, <2>3 DEF Halted
      <4>3. CASE g # a
        BY <4>1, <4>3, <1>4 DEF Replaced
      <4> QED
        BY <4>2, <4>3
    <3> QED
      BY <3>1, <2>5 DEF Waits
  <2>10. \A i \in 1 .. Len(channel) : /\ channel[i].from \in Senders /\ channel[i].from # Operator
                                      /\ channel[i].from # x
    <3> TAKE i \in 1 .. Len(channel)
    <3>1. channel[i] \in Messages /\ ack[channel[i].from] = "Waiting"
      BY <2>1, ElementOfSeq DEF Queued
    <3> QED
      BY <3>1, <2>6, <1>1 DEF Messages
  <2>11. Queued'
    <3>1. \A i \in 1 .. Len(channel) : ack'[channel[i].from] = "Waiting"
      BY <2>1, <2>5, <2>10 DEF Queued
    <3>2. \A z \in Senders : ack'[z] = "Waiting" => \E i \in 1 .. Len(channel) : channel[i].from = z
      BY <2>1, <2>5 DEF Queued
    <3> QED
      BY <3>1, <3>2, <2>1, <1>1 DEF Queued
  <2>12. Said'
    <3> SUFFICES ASSUME NEW i \in 1 .. Len(channel) PROVE Says(channel[i])'
      BY <1>1 DEF Said
    <3>1. PICK y : y = channel[i]
      OBVIOUS
    <3>2. Says(y) /\ y.from # Operator /\ y.from # x
      BY <2>1, <2>10, <3>1 DEF Said
    <3>3. Says(y)'
      BY <3>2, <1>8 DEF Says
    <3> QED
      BY <3>1, <3>3, <1>1
  <2>13. LoopFollows'
    <3>1. PICK s : s = runtime[x].sup
      OBVIOUS
    <3>2. /\ loop.rev = v /\ loop.gen = x /\ loop.avail = AvailabilitySnapshot(s)
          /\ loop = [running |-> loop.running, rev |-> loop.rev, gen |-> loop.gen, avail |-> loop.avail]
      BY <2>1, <2>2, <3>1, <1>3 DEF LoopFollows
    <3>3. IsSup(s) /\ s.rev = v
      BY <3>1, <1>4, <1>6 DEF Replaced
    <3>4. PICK av : av = AvailabilitySnapshot(s)
      OBVIOUS
    <3>5. Agrees(av, s, RegisterPassive(s.rev))
      BY <3>3, <3>4, NewcomerAgrees DEF AvailabilitySnapshot
    <3>6. runtime'[x].sup = s /\ runtime'[x].passive = RegisterPassive(s.rev)
      BY <3>1, <3>3, <1>4, <1>6 DEF Replaced
    <3> QED
      BY <2>2, <2>6, <3>2, <3>3, <3>4, <3>5, <3>6, <1>1, <1>8 DEF LoopFollows
  <2> QED
    BY <2>7, <2>8, <2>9, <2>11, <2>12, <2>13 DEF WhileRunning
<1> QED
  BY <1>14, <1>15

-----------------------------------------------------------------------------
(* The end of the process, the start and every step.                       *)

(* The process takes the active runtime and stops it.                      *)
LEMMA StopsKeeps ==
    ASSUME Always, ProcessStops
    PROVE  Always' /\ ~loop'.running
<1>1. /\ ~loop.running /\ ctl' = [ctl EXCEPT !.active = None] /\ UNCHANGED <<loop, admin>>
      /\ runtime' = Stop(runtime, {ctl.active} \ {None})
  BY DEF ProcessStops
<1>2. Runtimes /\ Numbers /\ Phases
  BY DEF Always
<1>3. PICK a, gs : a = ctl.active /\ gs = {a} \ {None}
  OBVIOUS
<1>4. /\ ctl \in [active : GenOrNone, nextGen : Nat] /\ a \in GenOrNone /\ a < ctl.nextGen
      /\ a # None => runtime[a] # Absent
      /\ \A g \in Generations : g >= ctl.nextGen => runtime[g] = Absent
  BY <1>2, <1>3 DEF Numbers
<1>5. /\ Runtimes'
      /\ \A g \in Generations : g \in gs => Halted(runtime[g], runtime'[g])
      /\ \A g \in Generations : g \notin gs => runtime'[g] = runtime[g]
      /\ \A g \in Generations : runtime'[g] = Absent <=> runtime[g] = Absent
  BY <1>1, <1>2, <1>3, <1>4, StopKeeps
<1>6. /\ ctl' \in [active : GenOrNone, nextGen : Nat] /\ ctl'.active = None /\ ctl'.nextGen = ctl.nextGen
  BY <1>1, <1>4 DEF GenOrNone
<1>7. None < ctl.nextGen
  <2>1. GenOrNone \subseteq Nat /\ None = 0
    BY RuntimeAssumption DEF GenOrNone, None
  <2>2. a \in Nat /\ ctl.nextGen \in Nat
    BY <2>1, <1>4
  <2> QED
    BY <2>1, <2>2, <1>4
<1>8. Numbers'
  BY <1>4, <1>5, <1>6, <1>7 DEF Numbers
<1>9. \A x, r : IsPrepared(x, r) => IsPrepared(x, r)'
  BY <1>3, <1>5, <1>6, OperatorIsNoGeneration DEF IsPrepared
<1>10. \A x : IsOver(x) => IsOver(x)'
  BY <1>3, <1>5, <1>6, OperatorIsNoGeneration DEF IsOver
<1>11. Phases'
  BY <1>1, <1>2, <1>6, <1>9, <1>10 DEF Phases
<1> QED
  BY <1>1, <1>5, <1>8, <1>11 DEF Always

(* The first generation at work, beside a loop that routes by it.          *)
LEMMA InitIsInvariant == Init => HealthInv
<1> SUFFICES ASSUME Init PROVE HealthInv
  OBVIOUS
<1>1. PICK r \in Revisions : r = FirstRevision
  BY RuntimeAssumption
<1>2. PICK s, pr : pr = NoPrior /\ s = ActivateReconciled(r, pr)
  OBVIOUS
<1>3. /\ IsSup(s) /\ s.rev = r /\ \A u \in KeysOf(s.rev) : s.schedule[u].st # "InFlight"
  BY <1>2, NewSupervisor
<1>4. IsPool(NewPool) /\ NewPool.accepting /\ Kept(s, NewPool)
  BY <1>3, NewPoolIsKept
<1>5. IsKnown(ReconciliationSnapshot(s))
  BY <1>3, SnapshotIsKnown
<1>6. PICK pc \in LivePcs, st \in BOOLEAN : pc = "turn" /\ st = FALSE
  BY DEF LivePcs, TurnPcs
<1>7. PICK dr, pv, ob, pool, kn :
         /\ dr = 0 /\ pv = RegisterPassive(r) /\ ob = <<>>
         /\ pool = NewPool /\ kn = ReconciliationSnapshot(s)
  OBVIOUS
<1>8. PICK q, n : q = Prepared(r, 1, pr) /\ n = [q EXCEPT !.pc = "turn"]
  OBVIOUS
<1>9. q = LiveRecord("prepared", st, dr, s, pv, ob, pool, kn)
  BY <1>2, <1>6, <1>7, <1>8 DEF Prepared, LiveRecord
<1>10. n = LiveRecord(pc, st, dr, s, pv, ob, pool, kn)
  BY <1>6, <1>8, <1>9 DEF LiveRecord
<1>11. /\ IsRuntime(n) /\ n # Absent /\ n.pc = pc /\ n.stop = st /\ n.sup = s /\ n.passive = pv
  BY <1>3, <1>4, <1>5, <1>7, <1>10, LiveMade
<1>12. /\ n.pc = "turn" /\ ~n.stop /\ n.passive = RegisterPassive(r)
  BY <1>6, <1>7, <1>11
<1>13. runtime = [g \in Generations |-> IF g = 1 THEN n ELSE Absent] /\ 1 \in Generations
  BY <1>1, <1>2, <1>8, RuntimeAssumption DEF Init
<1>14. /\ runtime[1] = n /\ \A g \in Generations : g # 1 => runtime[g] = Absent
       /\ runtime = [g \in Generations |-> runtime[g]]
  BY <1>13
<1>15. Runtimes
  BY <1>11, <1>14 DEF Runtimes, IsRuntime
<1>16. /\ ctl = [active |-> 1, nextGen |-> 2] /\ ctl.active = 1 /\ ctl.nextGen = 2
       /\ channel = <<>> /\ Len(channel) = 0 /\ ack = [x \in Senders |-> "None"]
       /\ admin.pc = "idle" /\ admin.mirror = r /\ admin.rev = r /\ admin.next = None
       /\ admin.back = None /\ admin.previous = None
       /\ process.pc = "serving"
       /\ loop = [running |-> TRUE, rev |-> r, gen |-> 0, avail |-> AvailabilitySnapshot(Activate(r))]
  BY <1>1 DEF Init
<1>17. Generations \subseteq Nat \ {0} /\ Generations \subseteq Nat
  BY RuntimeAssumption
<1>18. Numbers
  <2>1. ctl \in [active : GenOrNone, nextGen : Nat]
    BY <1>13, <1>16 DEF GenOrNone
  <2>2. \A g \in Generations : g >= 2 => runtime[g] = Absent
    BY <1>14, <1>17
  <2> QED
    BY <2>1, <2>2, <1>11, <1>14, <1>16 DEF Numbers
<1>19. Phases
  <2>1. admin \in [pc : {"idle", "prepareRollback", "send", "ack", "joinPrevious", "drop"},
                   mirror : Revisions, rev : Revisions,
                   next : GenOrNone, back : GenOrNone, previous : GenOrNone]
    BY <1>1 DEF Init, GenOrNone
  <2> QED
    BY <2>1, <1>16 DEF Phases
<1>20. Always
  BY <1>15, <1>18, <1>19 DEF Always
<1>21. ~Switched
  BY <1>16 DEF Switched
<1>22. ActiveWorks
  BY <1>12, <1>13, <1>14, <1>16 DEF ActiveWorks, TurnPcs
<1>23. Lineage
  BY <1>14, <1>16 DEF Lineage
<1>24. Waits
  BY <1>16, OperatorIsNoGeneration DEF Waits
<1>25. Queued /\ Said
  <2>1. 1 .. Len(channel) = {} /\ channel \in Seq(Messages)
    BY <1>16
  <2> QED
    BY <2>1, <1>16 DEF Queued, Said
<1>26. LoopFollows
  <2>1. PICK av : av = AvailabilitySnapshot(Activate(r))
    OBVIOUS
  <2>2. s.health = Activate(r).health
    BY <1>2, FirstSupervisor
  <2>3. av = [u \in DOMAIN s.health |-> s.health[u].a]
    BY <2>1, <2>2 DEF AvailabilitySnapshot
  <2>4. Agrees(av, s, RegisterPassive(s.rev))
    BY <1>3, <2>3, NewcomerAgrees
  <2>5. loop.rev = r /\ loop.gen = 0 /\ loop.avail = av
        /\ loop = [running |-> loop.running, rev |-> loop.rev, gen |-> loop.gen, avail |-> loop.avail]
    BY <2>1, <1>16
  <2>6. ack[1] = "None"
    BY <1>13, <1>16, OperatorIsNoGeneration
  <2> QED
    BY <2>4, <2>5, <2>6, <1>3, <1>11, <1>12, <1>14, <1>16, <1>21 DEF LoopFollows
<1>27. WhileRunning
  BY <1>22, <1>23, <1>24, <1>25, <1>26 DEF WhileRunning
<1> QED
  BY <1>20, <1>27 DEF HealthInv

(* A thread's or a worker's step.                                          *)
LEMMA ThreadsKeep ==
    ASSUME HealthInv, NEW g \in Generations,
           ThreadStep(g) \/ \E w \in Workers : WorkerStep(g, w)
    PROVE  HealthInv'
<1>1. Always /\ Runtimes
  BY DEF HealthInv, Always
<1>2. /\ UNCHANGED <<ctl, loop, admin, process>>
      /\ QuietStep(g) \/ SendStep(g) \/ AnswerStep(g)
  <2>1. CASE ThreadTurn(g)
    BY <2>1, <1>1, TurnCases
  <2>2. CASE ThreadAckPassive(g)
    <3>1. PICK pc \in AckPcs : pc = "ackPassive"
      BY DEF AckPcs
    <3> QED
      BY <2>2, <3>1, <1>1, AckIsAnswered DEF ThreadAckPassive
  <2>3. CASE ThreadAckProbe(g)
    <3>1. PICK pc \in AckPcs : pc = "ackProbe"
      BY DEF AckPcs
    <3> QED
      BY <2>3, <3>1, <1>1, AckIsAnswered DEF ThreadAckProbe
  <2>4. CASE ThreadComplete(g)
    BY <2>4, <1>1, CompleteCases
  <2>5. CASE ThreadJoined(g)
    BY <2>5, <1>1, JoinedIsQuiet
  <2>6. CASE \E w \in Workers : WorkerStep(g, w)
    BY <2>6, <1>1, WorkerIsQuiet
  <2> QED
    BY <2>1, <2>2, <2>3, <2>4, <2>5, <2>6 DEF ThreadStep
<1>3. CASE QuietStep(g)
  <2>1. PICK n : Becomes(g, n) /\ Quiet(runtime[g], n)
    BY <1>3 DEF QuietStep
  <2>2. Always'
    BY <1>1, <1>2, <1>3, <2>1, MoveKeepsAlways DEF Quiet, QuietStep
  <2>3. loop.running => WhileRunning'
    BY <1>1, <1>2, <1>3, QuietKeepsRunning DEF HealthInv
  <2> QED
    BY <2>2, <2>3, <1>2 DEF HealthInv
<1>4. CASE SendStep(g)
  <2>1. PICK n : Becomes(g, n) /\ Moves(runtime[g], n)
    BY <1>4 DEF SendStep
  <2>2. runtime[g] # Absent /\ runtime[g].pc # "prepared"
    BY <1>4 DEF SendStep, Absent
  <2>3. Always'
    BY <1>1, <1>2, <2>1, <2>2, MoveKeepsAlways
  <2>4. loop.running => WhileRunning'
    BY <1>1, <1>2, <1>4, SendKeepsRunning DEF HealthInv
  <2> QED
    BY <2>3, <2>4, <1>2 DEF HealthInv
<1>5. CASE AnswerStep(g)
  <2>1. PICK n : Becomes(g, n) /\ Moves(runtime[g], n)
    BY <1>5 DEF AnswerStep
  <2>2. runtime[g] # Absent /\ runtime[g].pc # "prepared"
    BY <1>5 DEF AnswerStep, Absent, AckPcs
  <2>3. Always'
    BY <1>1, <1>2, <2>1, <2>2, MoveKeepsAlways
  <2>4. loop.running => WhileRunning'
    BY <1>1, <1>2, <1>5, AnswerKeepsRunning DEF HealthInv
  <2> QED
    BY <2>3, <2>4, <1>2 DEF HealthInv
<1> QED
  BY <1>2, <1>3, <1>4, <1>5

(* Nothing changes.                                                        *)
LEMMA StutterKeeps ==
    ASSUME HealthInv, UNCHANGED vars
    PROVE  HealthInv'
<1>1. /\ runtime' = runtime /\ ctl' = ctl /\ loop' = loop /\ channel' = channel /\ ack' = ack
      /\ admin' = admin /\ process' = process
  BY DEF vars
<1>2. Always' = Always
  BY <1>1 DEF Always, Runtimes, Numbers, Phases, IsPrepared, IsOver
<1>3. Switched' = Switched
  BY <1>1 DEF Switched
<1>4. Said' = Said
  BY <1>1 DEF Said, Says
<1>5. WhileRunning => WhileRunning'
  BY <1>1, <1>3, <1>4 DEF WhileRunning, ActiveWorks, Lineage, Waits, Queued, LoopFollows
<1> QED
  BY <1>1, <1>2, <1>5 DEF HealthInv

(* The operator's steps after the first.                                   *)
LEMMA ApplyKeeps ==
    ASSUME HealthInv, ApplyContinues
    PROVE  HealthInv'
<1>1. Always
  BY DEF HealthInv
<1>2. loop' = loop
  BY DEF ApplyContinues, ApplyPrepareRollback, ApplyPrepareFails, ApplySend, ApplyCommit,
         ApplyCommitted, ApplyRefused, ApplyDropped, Elsewhere
<1>3. Always' /\ (loop.running /\ WhileRunning => WhileRunning')
  <2>1. CASE ApplyPrepareRollback
    BY <2>1, <1>1, PrepareRollbackKeeps
  <2>2. CASE ApplyPrepareFails
    BY <2>2, <1>1, PrepareFailsKeeps
  <2>3. CASE ApplySend
    BY <2>3, <1>1, SendKeeps
  <2>4. CASE ApplyCommit
    BY <2>4, <1>1, CommitKeeps
  <2>5. CASE ApplyCommitted
    BY <2>5, <1>1, CommittedKeeps
  <2>6. CASE ApplyRefused
    BY <2>6, <1>1, RefusedKeeps
  <2>7. CASE ApplyDropped
    BY <2>7, <1>1, DroppedKeeps
  <2> QED
    BY <2>1, <2>2, <2>3, <2>4, <2>5, <2>6, <2>7 DEF ApplyContinues
<1> QED
  BY <1>2, <1>3 DEF HealthInv

(* The loop's steps.                                                       *)
LEMMA LoopKeeps ==
    ASSUME HealthInv, LoopCommand \/ SubmitObservation \/ LoopReturns
    PROVE  HealthInv'
<1>1. Always /\ loop.running /\ WhileRunning
  BY DEF HealthInv, LoopCommand, SubmitObservation, LoopReturns
<1>2. CASE LoopCommand
  BY <1>1, <1>2, LoopKeepsRunning DEF HealthInv
<1>3. CASE SubmitObservation
  <2>1. /\ UNCHANGED <<channel, ack>> /\ UNCHANGED <<ctl, loop, admin, process>>
        /\ runtime' = runtime \/ (ctl.active \in Generations /\ QuietStep(ctl.active))
    BY <1>1, <1>3, ObservationIsQuiet DEF Always
  <2>2. CASE runtime' = runtime
    <3>1. UNCHANGED vars
      BY <2>1, <2>2 DEF vars
    <3> QED
      BY <3>1, StutterKeeps
  <2>3. CASE ctl.active \in Generations /\ QuietStep(ctl.active)
    <3>1. PICK g \in Generations : g = ctl.active
      BY <2>3
    <3>2. QuietStep(g)
      BY <2>3, <3>1
    <3>3. PICK n : Becomes(g, n) /\ Quiet(runtime[g], n)
      BY <3>2 DEF QuietStep
    <3>4. Always'
      BY <1>1, <2>1, <3>2, <3>3, MoveKeepsAlways DEF Quiet, QuietStep
    <3>5. WhileRunning'
      BY <1>1, <2>1, <3>2, QuietKeepsRunning
    <3> QED
      BY <3>4, <3>5 DEF HealthInv
  <2> QED
    BY <2>1, <2>2, <2>3
<1>4. CASE LoopReturns
  <2>1. loop' = [loop EXCEPT !.running = FALSE] /\ UNCHANGED <<runtime, ctl, admin, process>>
    BY <1>4 DEF LoopReturns
  <2>2. loop = [running |-> loop.running, rev |-> loop.rev, gen |-> loop.gen, avail |-> loop.avail]
    BY <1>1 DEF WhileRunning, LoopFollows
  <2>3. loop'.running = FALSE
    BY <2>1, <2>2
  <2>4. Always'
    BY <1>1, <2>1 DEF Always, Runtimes, Numbers, Phases, IsPrepared, IsOver
  <2> QED
    BY <2>3, <2>4 DEF HealthInv
<1> QED
  BY <1>2, <1>3, <1>4

(* Every step keeps the invariant.                                         *)
LEMMA StepKeepsInvariant == HealthInv /\ [Next]_vars => HealthInv'
<1> SUFFICES ASSUME HealthInv, [Next]_vars PROVE HealthInv'
  OBVIOUS
<1>1. CASE LoopCommand \/ SubmitObservation \/ LoopReturns
  BY <1>1, LoopKeeps
<1>2. CASE \E g \in Generations : ThreadStep(g) \/ \E w \in Workers : WorkerStep(g, w)
  BY <1>2, ThreadsKeep
<1>3. CASE \E r \in Revisions : ApplyPrepare(r)
  <2>1. PICK r \in Revisions : ApplyPrepare(r)
    BY <1>3
  <2>2. Always' /\ (WhileRunning => WhileRunning')
    BY <2>1, PrepareKeeps DEF HealthInv
  <2>3. loop' = loop
    BY <2>1 DEF ApplyPrepare, Elsewhere
  <2> QED
    BY <2>2, <2>3 DEF HealthInv
<1>4. CASE ApplyContinues
  BY <1>4, ApplyKeeps
<1>5. CASE ProcessStops
  BY <1>5, StopsKeeps DEF HealthInv
<1>6. CASE ProcessExits
  <2>1. UNCHANGED <<runtime, ctl, loop, channel, ack, admin>> /\ process.pc = "joining"
    BY <1>6 DEF ProcessExits
  <2>2. ~loop.running
    BY <2>1 DEF HealthInv, WhileRunning, ActiveWorks
  <2>3. Always'
    BY <2>1 DEF HealthInv, Always, Runtimes, Numbers, Phases, IsPrepared, IsOver
  <2> QED
    BY <2>1, <2>2, <2>3 DEF HealthInv
<1>7. CASE UNCHANGED vars
  BY <1>7, StutterKeeps
<1> QED
  BY <1>1, <1>2, <1>3, <1>4, <1>5, <1>6, <1>7 DEF Next, Exited

(* The runtimes, the controller and the operator's command always fit      *)
(* together, the probes of every runtime are in the books of its           *)
(* supervisor, and while the loop runs what it routes by, the answers the  *)
(* threads wait for and the commands in the channel agree.                 *)
THEOREM HealthInvariant == Spec => []HealthInv
<1>1. Init => HealthInv
  BY InitIsInvariant
<1>2. HealthInv /\ [Next]_vars => HealthInv'
  BY StepKeepsInvariant
<1> QED
  BY <1>1, <1>2, PTL DEF Spec

(* The count that limits the probes of a runtime is what is queued, being  *)
(* probed or waiting to be taken, never more than the capacity, and an     *)
(* upstream is in flight exactly as long as one probe of it is in the      *)
(* pool: whatever the threads and the workers of any number of generations *)
(* do, and while a pool shuts down.                                        *)
THEOREM ProbesAreAccounted == Spec => []ProbesAccounted
<1>1. HealthInv => ProbesAccounted
  <2> SUFFICES ASSUME HealthInv, NEW g \in Generations, Alive(g)
               PROVE  LET rt == runtime[g] IN
        /\ rt.pool.outstanding = Len(rt.pool.queue) + Busy(rt.pool) + Len(rt.pool.done)
        /\ rt.pool.outstanding <= Capacity
        /\ rt.pc # "joining" =>
             /\ {[key |-> q.key, id |-> q.id] : q \in InPool(rt.pool)}
                  = {[key |-> u, id |-> rt.sup.schedule[u].id] :
                        u \in {v \in DOMAIN rt.sup.schedule : rt.sup.schedule[v].st = "InFlight"}}
             /\ Cardinality(InPool(rt.pool)) = rt.pool.outstanding
    BY DEF ProbesAccounted
  <2>1. IsRuntime(runtime[g]) /\ runtime[g] # Absent /\ runtime[g].pc # "stopped"
    BY DEF HealthInv, Always, Runtimes, Alive, Exists
  <2>2. PICK rt, p, s : rt = runtime[g] /\ p = rt.pool /\ s = rt.sup
    OBVIOUS
  <2>3. CASE rt.pc = "joining"
    <3>1. Counted(p)
      BY <2>1, <2>2, <2>3, RuntimeByPc DEF IsEnding
    <3> QED
      BY <2>2, <2>3, <3>1 DEF Counted
  <2>4. CASE rt.pc # "joining"
    <3>1. IsLive(rt)
      BY <2>1, <2>2, <2>4, RuntimeByPc DEF EndPcs
    <3>2. IsSup(s) /\ IsPool(p) /\ Kept(s, p)
      BY <2>2, <3>1, LiveFields
    <3>3. Counted(p) /\ Apart(p)
      BY <3>2 DEF Kept
    <3>4. Cardinality(InPool(p)) = Len(p.queue) + Busy(p) + Len(p.done)
      BY <3>2, <3>3, PoolIsCounted
    <3>5. {[key |-> q.key, id |-> q.id] : q \in InPool(p)}
            = {[key |-> u, id |-> s.schedule[u].id] :
                 u \in {v \in DOMAIN s.schedule : s.schedule[v].st = "InFlight"}}
      BY <3>2, FlightsArePooled
    <3> QED
      BY <2>2, <3>3, <3>4, <3>5 DEF Counted
  <2> QED
    BY <2>3, <2>4
<1> QED
  BY <1>1, HealthInvariant, PTL

(* The loop routes by what the active runtime measured once that runtime   *)
(* has nothing left to publish, also right after the configuration was     *)
(* replaced: for any number of generations and every order in which their  *)
(* publications and the operator's command reach the channel.              *)
THEOREM RoutingIsByHealth == Spec => []RoutingFollowsHealth
<1>1. HealthInv => RoutingFollowsHealth
  <2> SUFFICES ASSUME HealthInv, NEW g, g = ctl.active, loop.running, g # None, Settled(g),
                      admin.pc # "ack"
               PROVE  /\ loop.rev = runtime[g].sup.rev /\ loop.gen \in {0, g}
                      /\ \A u \in KeysOf(loop.rev) : ~Target[loop.rev][u].draining =>
                            (Eligible(loop.avail[u]) <=>
                              Eligible(EffectiveAvailability(runtime[g].sup, runtime[g].passive)[u]))
    BY DEF RoutingFollowsHealth
  <2>1. WhileRunning
    BY DEF HealthInv
  <2>2. ~Switched /\ g \in Generations /\ runtime[g].pc \in {"turn", "complete"}
    BY DEF Switched, Settled, At, Exists
  <2>3. ack[g] = "None"
    BY <2>1, <2>2 DEF WhileRunning, Waits
  <2> QED
    BY <2>1, <2>2, <2>3 DEF WhileRunning, LoopFollows, Agrees
<1> QED
  BY <1>1, HealthInvariant, PTL

(* While the process serves, an active runtime is at work: it is never     *)
(* ended by a publication that crossed the replacement of the              *)
(* configuration or found the channel full.                                *)
THEOREM SomebodyWatches == Spec => []UpstreamsAreWatched
<1>1. HealthInv => UpstreamsAreWatched
  <2> SUFFICES ASSUME HealthInv, loop.running, admin.pc = "idle"
               PROVE  ctl.active # None /\ Listens(ctl.active)
    BY DEF UpstreamsAreWatched
  <2>1. ~Switched
    BY DEF Switched
  <2>2. ctl.active \in Generations /\ runtime[ctl.active].pc \in TurnPcs
    BY <2>1 DEF HealthInv, WhileRunning, ActiveWorks
  <2> QED
    BY <2>2, OperatorIsNoGeneration DEF Listens, Alive, Exists, TurnPcs, Absent
<1> QED
  BY <1>1, HealthInvariant, PTL
=============================================================================

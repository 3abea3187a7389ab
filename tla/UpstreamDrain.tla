----------------------------- MODULE UpstreamDrain -----------------------------
(***************************************************************************)
(* Which upstreams new requests may be sent to, and which ones are still   *)
(* in use: the drain tracker (crates/edge-application/src/drain.rs) inside *)
(* RuntimeUpstreamSelector (crates/edge-core/src/lib.rs).                  *)
(*                                                                         *)
(* Every accepted configuration starts a new generation of drain entries;  *)
(* the entries of older generations stay for the connections that still    *)
(* hold a reference to them.  Clients acquire and release references   *)
(* while configurations and health results arrive in any order.            *)
(*                                                                         *)
(* One service with health checks.  A key is an upstream of it; ConfigOf   *)
(* says what a revision wants of a key.  Which eligible upstream the round *)
(* robin picks is left open.  A rejected command changes nothing here.     *)
(***************************************************************************)
EXTENDS Integers, FiniteSets

CONSTANTS
    Keys, Revisions, Clients,
    ConfigOf,        \* [Revisions -> [Keys -> {"Active", "Draining", "Absent"}]]
    FirstRevision,
    NoReference,
    MaxGeneration,   \* bound: the code counts to 2^64
    MaxLeases,       \* bound: the code counts to 2^64
    MaxHealth        \* bound: generations of health results

ASSUME DrainAssumption ==
    /\ ConfigOf \in [Revisions -> [Keys -> {"Active", "Draining", "Absent"}]]
    /\ FirstRevision \in Revisions
    /\ MaxGeneration \in Nat \ {0} /\ MaxLeases \in Nat /\ MaxHealth \in Nat

Generations == 1..MaxGeneration
EntryStates == {"Active", "Draining", "Drained", "Removed"}
References == [gen : Generations, key : Keys, lease : 0..MaxLeases]
ASSUME NoReferenceAssumption == NoReference \notin References

VARIABLES
    tracker,   \* UpstreamDrainTracker: current generation, next lease, entries
    active,    \* revision of the active snapshot
    avail,     \* availability: its generation (-1 for none), the unhealthy
               \* keys and (not in the code) the revision it was made for
    held       \* the drain_reference of every connection

drainVars == <<tracker, active, avail, held>>

-----------------------------------------------------------------------------
(* UpstreamDrainTracker.  state is "Absent" where there is no entry.       *)

Blank == [gen |-> 0, next |-> 0,
          state  |-> [e \in Generations \X Keys |-> "Absent"],
          leases |-> [e \in Generations \X Keys |-> {}]]

(* What becomes of an entry of the generation that is being replaced.      *)
Retire(want, leases) ==
    IF want = "Draining" THEN (IF leases = {} THEN "Drained" ELSE "Draining") ELSE "Removed"

FirstState(want) == IF want = "Active" THEN "Active" ELSE "Drained"

(* reconcile *)
Reconcile(t, want, g) ==
    [gen |-> g, next |-> t.next,
     state |-> [e \in Generations \X Keys |->
        IF e[1] = g /\ want[e[2]] # "Absent" THEN FirstState(want[e[2]])
        ELSE IF e[1] = t.gen /\ t.state[e] # "Absent" THEN Retire(want[e[2]], t.leases[e])
        ELSE t.state[e]],
     leases |-> [e \in Generations \X Keys |->
        IF e[1] = g /\ want[e[2]] # "Absent" THEN {} ELSE t.leases[e]]]

(* acquire, in the current generation                                      *)
CanAcquire(t, k) == t.state[<<t.gen, k>>] = "Active"
Acquire(t, k) == [t EXCEPT !.next = @ + 1, !.leases[<<t.gen, k>>] = @ \cup {t.next}]
ReferenceTo(t, k) == [gen |-> t.gen, key |-> k, lease |-> t.next]

(* release: the last reference of a draining entry completes the drain;    *)
(* the slip ignores the entries that were removed                          *)
ReleaseNotRemoved(t, r) ==
    LET e == <<r.gen, r.key>>
        left == t.leases[e] \ {r.lease} IN
    IF t.state[e] \in {"Absent", "Removed"} \/ r.lease \notin t.leases[e] THEN t
    ELSE [t EXCEPT !.leases[e] = left,
                   !.state[e] = IF left = {} /\ @ = "Draining" THEN "Drained" ELSE @]
Release(t, r) ==
    LET e == <<r.gen, r.key>>
        left == t.leases[e] \ {r.lease} IN
    IF t.state[e] = "Absent" \/ r.lease \notin t.leases[e] THEN t
    ELSE [t EXCEPT !.leases[e] = left,
                   !.state[e] = IF left = {} /\ @ = "Draining" THEN "Drained" ELSE @]

(* operational_snapshot: how many connections an upstream of the active    *)
(* configuration still has, the ones of older generations included; the    *)
(* slip forgets the upstreams that were removed and came back              *)
CountDraining(t, k) ==
    LET old == {e \in (Generations \ {t.gen}) \X {k} : t.state[e] = "Draining"} IN
    Cardinality(t.leases[<<t.gen, k>>])
        + Cardinality(UNION {t.leases[e] : e \in old})
ConnectionCount(t, k) ==
    LET old == {e \in (Generations \ {t.gen}) \X {k} : t.state[e] \in {"Draining", "Removed"}} IN
    Cardinality(t.leases[<<t.gen, k>>])
        + Cardinality(UNION {t.leases[e] : e \in old})

-----------------------------------------------------------------------------
(* RuntimeUpstreamSelector *)

NoAvailability == [gen |-> -1, bad |-> {}, rev |-> FirstRevision]

(* from_snapshot, with initial_availability_snapshot *)
DrainInit ==
    /\ tracker = Reconcile(Blank, ConfigOf[FirstRevision], 1)
    /\ active = FirstRevision
    /\ avail = [gen |-> 0, bad |-> {}, rev |-> FirstRevision]
    /\ held = [c \in Clients |-> NoReference]

(* select_upstream: the upstreams that may be selected *)
Eligible(k) == ConfigOf[active][k] = "Active" /\ k \notin avail.bad

(* select: a request is routed.  taken is FALSE when the reference is      *)
(* given back at once, because no TLS session can be had for the upstream. *)
Select(c, k, taken) ==
    /\ held[c] = NoReference /\ Eligible(k) /\ CanAcquire(tracker, k)
    /\ tracker.next < MaxLeases
    /\ LET t == Acquire(tracker, k)
           r == ReferenceTo(tracker, k) IN
       IF taken
       THEN tracker' = t /\ held' = [held EXCEPT ![c] = r]
       ELSE tracker' = Release(t, r) /\ held' = held
    /\ UNCHANGED <<active, avail>>

(* select_retry and the hand-over in retry_upstream: the reference to the  *)
(* next upstream is acquired before the old one is released; taken is      *)
(* FALSE when the retry is given up in between.  The code excludes every   *)
(* upstream the request has tried, the model only the last one.            *)
SelectRetry(c, k, taken) ==
    /\ held[c] # NoReference /\ k # held[c].key /\ Eligible(k) /\ CanAcquire(tracker, k)
    /\ tracker.next < MaxLeases
    /\ LET t == Acquire(tracker, k)
           r == ReferenceTo(tracker, k) IN
       IF taken
       THEN tracker' = Release(t, held[c]) /\ held' = [held EXCEPT ![c] = r]
       ELSE tracker' = Release(t, r) /\ held' = held
    /\ UNCHANGED <<active, avail>>

(* release_drain_reference, at the end of a request or a connection *)
Finish(c) ==
    /\ held[c] # NoReference
    /\ tracker' = Release(tracker, held[c])
    /\ held' = [held EXCEPT ![c] = NoReference]
    /\ UNCHANGED <<active, avail>>

(* RuntimeUpstreamSelector::reconcile *)
CarriedAvailability(old, next, a) == IF old = next THEN a ELSE NoAvailability

NextTracker(r) == Reconcile(tracker, ConfigOf[r], tracker.gen + 1)

(* ApplyConfigSnapshot *)
ApplyConfig(r) ==
    /\ tracker.gen < MaxGeneration
    /\ tracker' = NextTracker(r) /\ active' = r
    /\ avail' = CarriedAvailability(active, r, avail)
    /\ UNCHANGED held

(* apply_availability: results for the revision and its upstreams, not     *)
(* older than the last ones                                                *)
Acceptable(rev, a, results) ==
    /\ results.rev = rev /\ results.gen >= a.gen
    /\ \A k \in results.bad : ConfigOf[rev][k] # "Absent"
Results == [gen : 0..MaxHealth, bad : SUBSET Keys, rev : Revisions]

(* PublishUpstreamAvailability *)
PublishAvailability(results) ==
    /\ Acceptable(active, avail, results)
    /\ avail' = results
    /\ UNCHANGED <<tracker, active, held>>

(* activate_snapshot and activate_runtime_generation: a configuration      *)
(* together with its health results, both or neither                       *)
Activate(r, results) ==
    /\ tracker.gen < MaxGeneration
    /\ Acceptable(r, CarriedAvailability(active, r, avail), results)
    /\ tracker' = NextTracker(r) /\ active' = r /\ avail' = results
    /\ UNCHANGED held

DrainNext ==
    \/ \E c \in Clients : Finish(c)
    \/ \E c \in Clients, k \in Keys, taken \in BOOLEAN :
          Select(c, k, taken) \/ SelectRetry(c, k, taken)
    \/ \E r \in Revisions : ApplyConfig(r)
    \/ \E results \in Results : PublishAvailability(results)
    \/ \E r \in Revisions, results \in Results : Activate(r, results)

DrainSpec == DrainInit /\ [][DrainNext]_drainVars

-----------------------------------------------------------------------------
(* Properties.                                                             *)

(* The variables have their types; the leases are numbers given out.       *)
DrainTypeOK ==
    /\ tracker \in [gen : Generations, next : 0..MaxLeases,
                    state : [Generations \X Keys -> EntryStates \cup {"Absent"}],
                    leases : [Generations \X Keys -> SUBSET (0..MaxLeases)]]
    /\ \A e \in Generations \X Keys : tracker.leases[e] \subseteq 0..(tracker.next - 1)
    /\ active \in Revisions
    /\ avail \in [gen : -1..MaxHealth, bad : SUBSET Keys, rev : Revisions]
    /\ held \in [Clients -> References \cup {NoReference}]

LeaseHolders(g, k) == {c \in Clients : held[c] # NoReference
                                      /\ held[c].gen = g /\ held[c].key = k}

(* Every lease of every generation belongs to exactly one connection and   *)
(* every connection's lease is recorded: a release always finds its lease, *)
(* however many configurations were activated while the request ran, so    *)
(* no drain completes too early and none is left open.                     *)
LeasesAreHeld ==
    /\ \A g \in Generations, k \in Keys :
          tracker.leases[<<g, k>>] = {held[c].lease : c \in LeaseHolders(g, k)}
    /\ \A c, d \in Clients :
          held[c] # NoReference /\ held[d] # NoReference /\ held[c].lease = held[d].lease => c = d

(* The connection count shown to an operator is the number of connections  *)
(* that hold the upstream, whichever configuration they were routed under: *)
(* an upstream is never shown as drained while a request is using it.      *)
StatusCountsExact ==
    \A k \in Keys : ConfigOf[active][k] # "Absent" =>
        ConnectionCount(tracker, k)
            = Cardinality({c \in Clients : held[c] # NoReference /\ held[c].key = k})

(* The state of an entry tells whether it is in use: a drain is complete   *)
(* exactly when the last reference is gone, never before and never left    *)
(* open, and no entry of an older configuration is still active.           *)
DrainStateTellsUse ==
    \A e \in Generations \X Keys :
        /\ tracker.state[e] \in {"Drained", "Absent"} => tracker.leases[e] = {}
        /\ tracker.state[e] = "Draining" => tracker.leases[e] # {}
        /\ tracker.state[e] = "Active" => e[1] = tracker.gen

(* Requests are routed on health results of the active configuration only: *)
(* results of the configuration before it are gone when it is activated.   *)
AvailabilityIsCurrent == avail.gen # -1 => avail.rev = active

(* Draining is exact: the leases are those of the live requests, the       *)
(* states say so, and the routing between them uses current health.        *)
DrainIsExact == LeasesAreHeld /\ DrainStateTellsUse /\ AvailabilityIsCurrent

(* While a configuration stays active, health results are never replaced   *)
(* by older ones and never lost, also when it is applied a second time.    *)
HealthNeverGoesBack == [][active' = active => avail'.gen >= avail.gen]_drainVars

=============================================================================

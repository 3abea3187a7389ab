---------------------------- MODULE PayloadLedger ----------------------------
(***************************************************************************)
(* PayloadBudgetLedger: the central accounting of proxy-owned payload.     *)
(*                                                                         *)
(* Source: crates/edge-core/src/payload_budget_ledger.rs.  Every public    *)
(* method is an operator from a ledger to a result [ok, id, ledger]; the   *)
(* operators compose (ConnectionCharges calls several in one transaction)  *)
(* and the specification below lets a caller invoke any method with any    *)
(* argument, a stale generation or a dead id included.                     *)
(*                                                                         *)
(* A charge carries the ledger's generation; since every method first      *)
(* compares the caller's generation with the ledger's, a live charge's     *)
(* generation is always the current one and is not stored.  A charge that  *)
(* reaches a terminal state is removed in the same call, so only the live  *)
(* states appear.  The limit is at most 512 MiB and a charge never exceeds *)
(* it, so the usize additions of the code do not overflow for the buffer   *)
(* lengths callers pass; the u64 charge identity is bounded by IdMax.      *)
(***************************************************************************)
EXTENDS PayloadPressure, FiniteSets

CONSTANTS
    Owners,       \* connection ids
    Classes,      \* PayloadClass
    MaxRequest,   \* largest number of bytes one call asks for
    IdMax         \* largest value of a u64 charge id

ASSUME LedgerAssumption ==
    /\ MaxRequest \in Nat /\ MaxRequest <= Limit
    /\ IdMax \in Nat /\ IdMax >= 1

LiveStates == {"Granted", "InUse", "Transferred"}
Generations == {"current", "stale"}
Ids == 1..IdMax

Charge == [owner : Owners, class : Classes, bytes : 1..Limit, state : LiveStates]

-----------------------------------------------------------------------------
(* Results of a call.                                                      *)

NoId == 0

Done(L, id) == [ok |-> TRUE, id |-> id, ledger |-> L]
Refused(L)  == [ok |-> FALSE, id |-> NoId, ledger |-> L]

(* fail_accounting: an accounting invariant failed, admission fails closed *)
FailAccounting(L) == Refused([L EXCEPT !.pressure = "FailedClosed"])

(* The limit comparison failed: the pressure is exhausted, whatever it was *)
CapacityReached(L) == Refused([L EXCEPT !.pressure = "Exhausted"])


(* The usage and the charge table change together, then the pressure is    *)
(* refreshed from the new usage.                                           *)
WithUsage(L, used, charges, nextId) ==
    [used |-> used, charges |-> charges, nextId |-> nextId,
     pressure |-> RefreshPressure(L.pressure, used)]

IsLive(L, id) == id \in DOMAIN L.charges

(* PayloadBudgetLedger::new *)
NewLedger ==
    [used |-> 0, charges |-> << >>, nextId |-> 1, pressure |-> "Normal"]

-----------------------------------------------------------------------------
(* The public methods.                                                     *)

(* The table with one charge added or replaced, and without one.           *)
PutCharge(charges, id, charge) ==
    [i \in DOMAIN charges \cup {id} |-> IF i = id THEN charge ELSE charges[i]]
DropCharge(charges, id) == [i \in DOMAIN charges \ {id} |-> charges[i]]

(* reserve *)
Reserve(L, owner, class, bytes, gen) ==
    LET granted == [owner |-> owner, class |-> class,
                    bytes |-> bytes, state |-> "Granted"] IN
    IF L.pressure = "FailedClosed" THEN Refused(L)
    ELSE IF gen # "current" \/ bytes = 0 THEN FailAccounting(L)
    ELSE IF L.used + bytes > Limit THEN CapacityReached(L)
    ELSE IF L.nextId = IdMax THEN FailAccounting(L)
    ELSE Done(WithUsage(L, L.used + bytes,
                        PutCharge(L.charges, L.nextId, granted), L.nextId + 1),
              L.nextId)

(* replace_charge_bytes, for an id that is live *)
ReplaceChargeBytes(L, id, bytes, state) ==
    LET previous == L.charges[id]
        next     == (L.used - previous.bytes) + bytes
        charge   == [previous EXCEPT !.bytes = bytes, !.state = state] IN
    IF bytes = 0 \/ previous.bytes > L.used THEN FailAccounting(L)
    ELSE IF next > Limit THEN CapacityReached(L)
    ELSE Done(WithUsage(L, next, PutCharge(L.charges, id, charge), L.nextId), id)

(* commit: only a granted charge, and it becomes in use *)
Commit(L, id, bytes, gen) ==
    IF gen # "current" \/ ~IsLive(L, id) \/ L.charges[id].state # "Granted"
    THEN FailAccounting(L)
    ELSE ReplaceChargeBytes(L, id, bytes, "InUse")

(* resize *)
Resize(L, id, bytes, gen) ==
    IF gen # "current" \/ ~IsLive(L, id)
    THEN FailAccounting(L)
    ELSE ReplaceChargeBytes(L, id, bytes, L.charges[id].state)

(* grow: zero additional bytes is a no-op even for a dead id *)
Grow(L, id, additional, gen) ==
    IF gen # "current" THEN FailAccounting(L)
    ELSE IF additional = 0 THEN Done(L, id)
    ELSE IF ~IsLive(L, id) THEN FailAccounting(L)
    ELSE Resize(L, id, L.charges[id].bytes + additional, gen)

(* transfer: the charge changes owner and class, the usage does not *)
Transfer(L, id, owner, class, gen) ==
    IF gen # "current" \/ ~IsLive(L, id)
    THEN FailAccounting(L)
    ELSE LET moved == [L.charges[id] EXCEPT !.owner = owner, !.class = class,
                                            !.state = "Transferred"]
         IN  Done([L EXCEPT !.charges = PutCharge(L.charges, id, moved)], id)

(* release, release_after_allocation_failure: remove_live_charge *)
Release(L, id, gen) ==
    IF gen # "current" \/ ~IsLive(L, id) \/ L.charges[id].bytes > L.used
    THEN FailAccounting(L)
    ELSE Done(WithUsage(L, L.used - L.charges[id].bytes,
                        DropCharge(L.charges, id), L.nextId), id)

-----------------------------------------------------------------------------
(* The specification: any sequence of calls.                               *)

VARIABLE ledger

Init == ledger = NewLedger

CallReserve ==
    \E o \in Owners, k \in Classes, b \in 0..MaxRequest, g \in Generations :
        ledger' = Reserve(ledger, o, k, b, g).ledger
CallCommit ==
    \E i \in Ids, b \in 0..MaxRequest, g \in Generations :
        ledger' = Commit(ledger, i, b, g).ledger
CallResize ==
    \E i \in Ids, b \in 0..MaxRequest, g \in Generations :
        ledger' = Resize(ledger, i, b, g).ledger
CallGrow ==
    \E i \in Ids, b \in 0..MaxRequest, g \in Generations :
        ledger' = Grow(ledger, i, b, g).ledger
CallTransfer ==
    \E i \in Ids, o \in Owners, k \in Classes, g \in Generations :
        ledger' = Transfer(ledger, i, o, k, g).ledger
CallRelease ==
    \E i \in Ids, g \in Generations :
        ledger' = Release(ledger, i, g).ledger

Next ==
    \/ CallReserve \/ CallCommit \/ CallResize
    \/ CallGrow \/ CallTransfer \/ CallRelease

Spec == Init /\ [][Next]_ledger

-----------------------------------------------------------------------------
(* Properties.                                                             *)

(* What every ledger satisfies, as predicates of a ledger value so that a  *)
(* composition that owns one can state them too.                           *)

(* The bytes of a table, each as its charge and its number in the charge:  *)
(* how many there are is the sum of the charges.                           *)
ChargedBytes(charges) == UNION {{i} \X (1 .. charges[i].bytes) : i \in DOMAIN charges}

WellTyped(L) ==
    /\ L = [used |-> L.used, charges |-> L.charges,
            nextId |-> L.nextId, pressure |-> L.pressure]
    /\ L.used \in 0..Limit
    /\ L.nextId \in Ids
    /\ L.pressure \in PressureStates
    /\ DOMAIN L.charges \subseteq 1..(L.nextId - 1)
    /\ L.charges \in [DOMAIN L.charges -> Charge]
Balanced(L) == L.used = Cardinality(ChargedBytes(L.charges))
Hysteresis(L) ==
    /\ L.pressure = "Normal" => L.used < HighWatermark
    /\ L.pressure = "Pressured" => L.used > LowWatermark
Recoverable(L) ==
    L.pressure \in {"Pressured", "Exhausted"} => L.used > 0

(* Every live charge has a positive size within the limit and an identity  *)
(* already handed out, so no identity is issued twice; the usage never     *)
(* exceeds the limit.                                                      *)
TypeOK == WellTyped(ledger)

(* The running total is the sum of the live charges after any sequence of  *)
(* calls, failed calls included: reserve, resize, grow, commit and release *)
(* never change one without the other.                                     *)
UsedIsSumOfCharges == Balanced(ledger)

(* The watermarks of refresh_pressure_after_usage_change work as a         *)
(* hysteresis on every path: admission is open only below the high         *)
(* watermark, and pressure lasts only while usage is above the low one.    *)
PressureHysteresis == Hysteresis(ledger)

(* Closed admission can always be reopened by releasing charges: pressure  *)
(* is refreshed only when the usage changes, so Pressured or Exhausted     *)
(* with nothing charged would refuse every connection for ever.            *)
PressureRecoverable == Recoverable(ledger)

=============================================================================

-------------------------- MODULE ConnectionCharges --------------------------
(***************************************************************************)
(* ConnectionPayloadCharges: the seven charge slots of a connection and    *)
(* the transactions on them.                                               *)
(*                                                                         *)
(* Source: crates/edge-core/src/lib.rs (ConnectionPayloadCharges),         *)
(* payload_charge_slot.rs, request_payload_charge.rs,                      *)
(* client_response_charge_transaction.rs, upstream_retry_charge_pair.rs,   *)
(* tls_pending_payload_charge.rs.  A method takes the ledger L and the     *)
(* slots S of its connection and yields [ok, ledger, slots]; a slot is the *)
(* identity of a ledger charge or NoId.  The two phases of a transaction   *)
(* (prepare, then commit or rollback) run inside one handler of the single *)
(* threaded event loop, so an action runs both; "allocated" is whether the *)
(* work between them succeeded.                                            *)
(***************************************************************************)
EXTENDS PayloadLedger

Slots == {"request", "upstream", "retry", "response", "tls", "wsUp", "wsDown"}
SyncedSlots == {"tls", "wsUp", "wsDown"}

(* The PayloadClass of the charges a slot holds.                           *)
ClassOf == [request  |-> "Request",        upstream |-> "UpstreamRequest",
            retry    |-> "RetryReplay",    response |-> "ClientResponse",
            tls      |-> "TlsPending",     wsUp     |-> "WebSocketClientToUpstream",
            wsDown   |-> "WebSocketUpstreamToClient"]

ASSUME ClassesAssumption == \A k \in Slots : ClassOf[k] \in Classes

NoSlots == [k \in Slots |-> NoId]

Result(ok, L, S) == [ok |-> ok, ledger |-> L, slots |-> S]

(* The result r of a ledger call becomes a slot result; the slot holds the *)
(* charge when the call succeeded.                                         *)
Install(r, S, k) ==
    Result(r.ok, r.ledger, IF r.ok THEN [S EXCEPT ![k] = r.id] ELSE S)

(* payload_charge_slot::bytes *)
SlotBytes(L, S, k) == IF IsLive(L, S[k]) THEN L.charges[S[k]].bytes ELSE 0

(* payload_charge_slot::release, request_payload_charge::release *)
ReleaseSlot(L, S, k) ==
    IF S[k] = NoId THEN Result(TRUE, L, S)
    ELSE LET r == Release(L, S[k], "current") IN
         Result(r.ok, r.ledger, IF r.ok THEN [S EXCEPT ![k] = NoId] ELSE S)

(* payload_charge_slot::sync: reserve and commit, resize or release *)
SyncSlot(L, S, c, k, n) ==
    IF SlotBytes(L, S, k) = n THEN Result(TRUE, L, S)
    ELSE IF n = 0 THEN ReleaseSlot(L, S, k)
    ELSE IF S[k] # NoId
    THEN LET r == Resize(L, S[k], n, "current") IN Result(r.ok, r.ledger, S)
    ELSE LET r == Reserve(L, c, ClassOf[k], n, "current")
             q == Commit(r.ledger, r.id, n, "current") IN
         IF ~r.ok THEN Result(FALSE, r.ledger, S)
         ELSE IF q.ok THEN Install([q EXCEPT !.id = r.id], S, k)
         ELSE Result(FALSE, Release(q.ledger, r.id, "current").ledger, S)

(* request_payload_charge::grow *)
GrowRequest(L, S, c, n) ==
    IF n = 0 THEN Result(TRUE, L, S)
    ELSE IF S["request"] # NoId
    THEN LET r == Grow(L, S["request"], n, "current") IN Result(r.ok, r.ledger, S)
    ELSE Install(Reserve(L, c, ClassOf["request"], n, "current"), S, "request")

(* client_response_charge_transaction::prepare; previous is the size to    *)
(* roll back to, 0 for a charge that did not exist.                        *)
PrepareResponse(L, S, c, n) ==
    IF S["response"] # NoId
    THEN LET r == Resize(L, S["response"], n, "current") IN Result(r.ok, r.ledger, S)
    ELSE Install(Reserve(L, c, ClassOf["response"], n, "current"), S, "response")

(* client_response_charge_transaction::commit *)
CommitResponse(L, S, previous, n) ==
    IF previous # 0 THEN Result(TRUE, L, S)
    ELSE LET r == Commit(L, S["response"], n, "current") IN Result(r.ok, r.ledger, S)

(* client_response_charge_transaction::rollback *)
RollbackResponse(L, S, previous) ==
    IF previous # 0
    THEN LET r == Resize(L, S["response"], previous, "current") IN Result(FALSE, r.ledger, S)
    ELSE [ReleaseSlot(L, S, "response") EXCEPT !.ok = FALSE]

(* The response charge of a handler: prepared, then committed or rolled    *)
(* back.                                                                   *)
SetResponse(L, S, c, n, allocated) ==
    LET previous == SlotBytes(L, S, "response")
        r == PrepareResponse(L, S, c, n) IN
    IF ~r.ok THEN r
    ELSE IF allocated THEN CommitResponse(r.ledger, r.slots, previous, n)
    ELSE RollbackResponse(r.ledger, r.slots, previous)

(* client_response_charge_transaction::resize_in_use *)
ShrinkResponse(L, S, n) ==
    IF S["response"] = NoId THEN Result(FALSE, FailAccounting(L).ledger, S)
    ELSE IF n = 0 THEN ReleaseSlot(L, S, "response")
    ELSE LET r == Resize(L, S["response"], n, "current") IN Result(r.ok, r.ledger, S)

(* upstream_retry_charge_pair::reserve *)
ReservePair(L, S, c, u, t) ==
    IF S["upstream"] # NoId \/ S["retry"] # NoId
    THEN Result(FALSE, FailAccounting(L).ledger, S)
    ELSE LET r == Reserve(L, c, ClassOf["upstream"], u, "current")
             q == Reserve(r.ledger, c, ClassOf["retry"], t, "current") IN
         IF ~r.ok THEN Result(FALSE, r.ledger, S)
         ELSE IF ~q.ok
         THEN Result(FALSE, Release(q.ledger, r.id, "current").ledger, S)
         ELSE Result(TRUE, q.ledger, [S EXCEPT !["upstream"] = r.id, !["retry"] = q.id])

(* upstream_retry_charge_pair::commit *)
CommitPair(L, S, u, t) ==
    LET r == Commit(L, S["upstream"], u, "current")
        q == Commit(r.ledger, S["retry"], t, "current") IN
    IF ~r.ok THEN Result(FALSE, r.ledger, S) ELSE Result(q.ok, q.ledger, S)


(* upstream_retry_charge_pair::release_after_allocation_failure *)
ReleasePair(L, S) ==
    LET r == ReleaseSlot(L, S, "upstream") IN
    IF ~r.ok THEN r
    ELSE [ReleaseSlot(r.ledger, r.slots, "retry") EXCEPT !.ok = FALSE]

(* The pair of a routed request: reserved, then committed or released.     *)
TakePair(L, S, c, u, t, allocated) ==
    LET r == ReservePair(L, S, c, u, t) IN
    IF ~r.ok THEN r
    ELSE IF allocated THEN CommitPair(r.ledger, r.slots, u, t)
    ELSE ReleasePair(r.ledger, r.slots)

(* A slip of the commit below: the replaced charge is not released.        *)
ReplacementLeaks(L, S, new, u) ==
    LET r == Commit(L, new, u, "current") IN
    Result(r.ok, r.ledger, IF r.ok THEN [S EXCEPT !["upstream"] = new] ELSE S)

(* commit_upstream_replacement: the replacement is committed, then the     *)
(* current charge is released and the slot moves to the replacement.       *)
CommitReplacement(L, S, new, u) ==
    LET r == Commit(L, new, u, "current")
        q == Release(r.ledger, S["upstream"], "current") IN
    IF ~r.ok THEN Result(FALSE, r.ledger, S)
    ELSE IF ~q.ok THEN Result(FALSE, Release(q.ledger, new, "current").ledger, S)
    ELSE Result(TRUE, q.ledger, [S EXCEPT !["upstream"] = new])

(* A slip of the operation below: the old charge is given back before the  *)
(* new one is reserved.                                                    *)
ReplaceEarly(L, S, c, u, allocated) ==
    IF S["upstream"] = NoId THEN Result(FALSE, FailAccounting(L).ledger, S)
    ELSE Install(Reserve(Release(L, S["upstream"], "current").ledger,
                         c, ClassOf["upstream"], u, "current"), S, "upstream")

(* The upstream charge of a retry: reserve_upstream_replacement, then      *)
(* commit_upstream_replacement or                                          *)
(* release_upstream_replacement_after_allocation_failure.                  *)
ReplaceUpstream(L, S, c, u, allocated) ==
    IF S["upstream"] = NoId THEN Result(FALSE, FailAccounting(L).ledger, S)
    ELSE LET r == Reserve(L, c, ClassOf["upstream"], u, "current") IN
         IF ~r.ok THEN Result(FALSE, r.ledger, S)
         ELSE IF allocated THEN CommitReplacement(r.ledger, S, r.id, u)
         ELSE Result(FALSE, Release(r.ledger, r.id, "current").ledger, S)

(* One slot after another; a failure keeps the slots that follow it.       *)
ReleaseAfter(r, k) == IF r.ok THEN ReleaseSlot(r.ledger, r.slots, k) ELSE r

(* release_all *)
ReleaseAll(L, S) ==
    LET r1 == ReleaseSlot(L, S, "request")
        r2 == ReleaseAfter(r1, "upstream")
        r3 == ReleaseAfter(r2, "retry")
        r4 == ReleaseAfter(r3, "response")
        r5 == ReleaseAfter(r4, "tls")
        r6 == ReleaseAfter(r5, "wsUp")
    IN  ReleaseAfter(r6, "wsDown")

-----------------------------------------------------------------------------
(* The specification: connections run their transactions in any order.     *)

VARIABLE slots    \* slots[c][k]: the charge in slot k of connection c

chargeVars == <<ledger, slots>>

ChargesInit == ledger = NewLedger /\ slots = [c \in Owners |-> NoSlots]

(* A transaction reserves at most two charges: the u64 identities do not   *)
(* run out within a run.                                                   *)
IdsLeft == ledger.nextId + 2 <= IdMax

Step(c, r) == ledger' = r.ledger /\ slots' = [slots EXCEPT ![c] = r.slots]

GrowRequestStep(c) == IdsLeft /\ \E n \in 0..MaxRequest :
    Step(c, GrowRequest(ledger, slots[c], c, n))
ReleaseRequestStep(c) == Step(c, ReleaseSlot(ledger, slots[c], "request"))
SyncStep(c) == IdsLeft /\ \E k \in SyncedSlots, n \in 0..MaxRequest :
    Step(c, SyncSlot(ledger, slots[c], c, k, n))
SetResponseStep(c) == IdsLeft /\ \E n \in 0..MaxRequest, a \in BOOLEAN :
    Step(c, SetResponse(ledger, slots[c], c, n, a))
ShrinkResponseStep(c) == \E n \in 0..MaxRequest :
    Step(c, ShrinkResponse(ledger, slots[c], n))
TakePairStep(c) == IdsLeft /\ \E u, t \in 0..MaxRequest, a \in BOOLEAN :
    Step(c, TakePair(ledger, slots[c], c, u, t, a))
ReplaceUpstreamStep(c) == IdsLeft /\ \E u \in 0..MaxRequest, a \in BOOLEAN :
    Step(c, ReplaceUpstream(ledger, slots[c], c, u, a))
ReleaseAllStep(c) == Step(c, ReleaseAll(ledger, slots[c]))

ChargesNext ==
    \E c \in Owners :
        \/ GrowRequestStep(c) \/ ReleaseRequestStep(c) \/ SyncStep(c)
        \/ SetResponseStep(c) \/ ShrinkResponseStep(c) \/ TakePairStep(c)
        \/ ReplaceUpstreamStep(c) \/ ReleaseAllStep(c)

ChargesSpec == ChargesInit /\ [][ChargesNext]_chargeVars

-----------------------------------------------------------------------------
(* Properties.                                                             *)

(* Ownership is exact: every slot in use names a live charge of its own    *)
(* connection and class, no charge is in two slots, and no live charge is  *)
(* outside the slots.  A charge without a slot could never be released.    *)
SlotsOwnCharges ==
    /\ \A c \in Owners, k \in Slots : slots[c][k] # NoId =>
          /\ IsLive(ledger, slots[c][k])
          /\ ledger.charges[slots[c][k]].owner = c
          /\ ledger.charges[slots[c][k]].class = ClassOf[k]
    /\ \A c, d \in Owners, k, m \in Slots :
          slots[c][k] = slots[d][m] /\ slots[c][k] # NoId => c = d /\ k = m
    /\ \A i \in DOMAIN ledger.charges : \E c \in Owners, k \in Slots : slots[c][k] = i

(* The upstream and retry charges of a request come and go together: the   *)
(* reservation of the pair is all or nothing on every failure path.        *)
PairIsWhole ==
    \A c \in Owners : slots[c]["upstream"] = NoId <=> slots[c]["retry"] = NoId

(* The charges are exact: the slots own them, the pair of a request is     *)
(* whole, the ledger's running total is their sum and its pressure follows *)
(* it, after every transaction that succeeded, was refused or was rolled   *)
(* back.                                                                   *)
ChargesAreExact ==
    /\ SlotsOwnCharges /\ PairIsWhole /\ UsedIsSumOfCharges
    /\ PressureHysteresis /\ PressureRecoverable

(* The slots implement the abstract budget: seen as bytes per slot, every  *)
(* transaction is one operation of SlotBudget.                             *)
Held(c) == [k \in Slots |-> SlotBytes(ledger, slots[c], k)]
Abstract == INSTANCE SlotBudgetSpec WITH
    Sizes <- 0..MaxRequest,
    budget <- [used |-> ledger.used, pressure |-> ledger.pressure,
               held |-> [c \in Owners |-> Held(c)]]
ImplementsBudget == Abstract!BudgetSpec
=============================================================================

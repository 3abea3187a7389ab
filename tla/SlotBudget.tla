----------------------------- MODULE SlotBudget -----------------------------
(***************************************************************************)
(* What a connection is promised about the payload it owns: seven slots,   *)
(* each holding a number of bytes, charged against one process-wide limit. *)
(*                                                                         *)
(* This is the abstract view of ConnectionPayloadCharges over the ledger:  *)
(* no charge identities, no charge states, no table.  ConnectionCharges    *)
(* implements it with identities; DataPlane uses it to account for the     *)
(* payload of its connections.  A budget is a record                       *)
(* [used, pressure, held], held[c][k] the bytes in slot k of connection c; *)
(* an operation yields [ok, budget].                                       *)
(***************************************************************************)
EXTENDS PayloadPressure, FiniteSets

CONSTANT Owners   \* connection ids

Slots == {"request", "upstream", "retry", "response", "tls", "wsUp", "wsDown"}

EmptySlots == [k \in Slots |-> 0]
NewBudget == [used |-> 0, pressure |-> "Normal", held |-> [c \in Owners |-> EmptySlots]]

Grant(B)   == [ok |-> TRUE, budget |-> B]
Deny(B)    == [ok |-> FALSE, budget |-> B]
DenyOver(B)   == Deny([B EXCEPT !.pressure = "Exhausted"])
DenyBroken(B) == Deny([B EXCEPT !.pressure = "FailedClosed"])

(* Slot k of c now holds n bytes.                                          *)
Hold(B, c, k, n) ==
    LET used == (B.used - B.held[c][k]) + n IN
    [used |-> used, pressure |-> RefreshPressure(B.pressure, used),
     held |-> [B.held EXCEPT ![c][k] = n]]

(* An empty slot takes its first bytes: refused when admission failed      *)
(* closed, an accounting failure for zero bytes.                           *)
TakeSlot(B, c, k, n) ==
    IF B.pressure = "FailedClosed" THEN Deny(B)
    ELSE IF n = 0 THEN DenyBroken(B)
    ELSE IF B.used + n > Limit THEN DenyOver(B)
    ELSE Grant(Hold(B, c, k, n))

(* A slot in use changes size.                                             *)
ResizeSlot(B, c, k, n) ==
    IF n = 0 THEN DenyBroken(B)
    ELSE IF (B.used - B.held[c][k]) + n > Limit THEN DenyOver(B)
    ELSE Grant(Hold(B, c, k, n))

(* A slot is given back.                                                   *)
DropSlot(B, c, k) ==
    IF B.held[c][k] = 0 THEN Grant(B) ELSE Grant(Hold(B, c, k, 0))

(* request: grows with the bytes read from the client *)
BudgetGrowRequest(B, c, n) ==
    IF n = 0 THEN Grant(B)
    ELSE IF B.held[c]["request"] = 0 THEN TakeSlot(B, c, "request", n)
    ELSE ResizeSlot(B, c, "request", B.held[c]["request"] + n)

(* tls, wsUp, wsDown: follow the bytes pending in the transports *)
BudgetSync(B, c, k, n) ==
    IF n = B.held[c][k] THEN Grant(B)
    ELSE IF n = 0 THEN DropSlot(B, c, k)
    ELSE IF B.held[c][k] # 0 THEN ResizeSlot(B, c, k, n)
    ELSE TakeSlot(B, c, k, n)

(* response: the size is set, and restored when the buffer of that size    *)
(* cannot be had.                                                          *)
SettleResponse(taken, c, n, allocated) ==
    CASE ~taken.ok -> taken
      [] taken.ok /\ allocated -> taken
      [] OTHER -> Deny(Hold(taken.budget, c, "response", n))
BudgetSetResponse(B, c, n, allocated) ==
    SettleResponse(IF B.held[c]["response"] = 0 THEN TakeSlot(B, c, "response", n)
                   ELSE ResizeSlot(B, c, "response", n),
                   c, B.held[c]["response"], allocated)

(* response: shrinks as the client reads it; the slip gives all of it back *)
ShrinkDropsAll(B, c, n) == DropSlot(B, c, "response")
BudgetShrinkResponse(B, c, n) ==
    IF B.held[c]["response"] = 0 THEN DenyBroken(B)
    ELSE IF n = 0 THEN DropSlot(B, c, "response")
    ELSE ResizeSlot(B, c, "response", n)

(* upstream and retry: both or neither *)
DropPair(B, c) == DropSlot(DropSlot(B, c, "upstream").budget, c, "retry").budget
SettlePair(second, c, allocated) ==
    IF second.ok /\ allocated THEN second ELSE Deny(DropPair(second.budget, c))
TakeSecond(first, c, r, allocated) ==
    IF first.ok THEN SettlePair(TakeSlot(first.budget, c, "retry", r), c, allocated) ELSE first
BudgetTakePair(B, c, u, r, allocated) ==
    IF B.held[c]["upstream"] # 0 \/ B.held[c]["retry"] # 0 THEN DenyBroken(B)
    ELSE TakeSecond(TakeSlot(B, c, "upstream", u), c, r, allocated)

(* upstream, on a retry: the new attempt's bytes are charged next to the   *)
(* old ones before the old ones are given back.                            *)
BudgetReplaceUpstream(B, c, u, allocated) ==
    LET old   == B.held[c]["upstream"]
        taken == TakeSlot(B, c, "upstream", u)
        both  == Hold(B, c, "upstream", old + u) IN
    IF old = 0 THEN DenyBroken(B)
    ELSE IF ~taken.ok THEN taken
    ELSE IF allocated THEN Grant(Hold(both, c, "upstream", u))
    ELSE Deny(Hold(both, c, "upstream", old))

(* The bytes in the seven slots of a connection.                           *)
BytesOf(h) == h["request"] + h["upstream"] + h["retry"] + h["response"]
              + h["tls"] + h["wsUp"] + h["wsDown"]

(* every slot is given back *)
BudgetDropAll(B, c) ==
    LET mine == BytesOf(B.held[c]) IN
    IF mine = 0 THEN B
    ELSE [used |-> B.used - mine,
          pressure |-> RefreshPressure(B.pressure, B.used - mine),
          held |-> [B.held EXCEPT ![c] = EmptySlots]]

(* The bytes that slots hold, one by one.                                  *)
HeldBytes(held) ==
    UNION {{<<c, k>>} \X (1 .. held[c][k]) : c \in Owners, k \in Slots}

(* What a budget always satisfies: the total is what the connections hold. *)
BudgetBalanced(B) == B.used = Cardinality(HeldBytes(B.held))
=============================================================================

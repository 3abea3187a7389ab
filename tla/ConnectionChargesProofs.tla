----------------------- MODULE ConnectionChargesProofs -----------------------
(***************************************************************************)
(* Proofs about PayloadLedger and ConnectionCharges, for every limit and   *)
(* identity width, any connections and any sizes.                          *)
(*                                                                         *)
(* The ledger comes first.  Its inductive invariant is the conjunction of  *)
(* the type invariant, the count of the charged bytes, the hysteresis and  *)
(* the recoverability of pressure.  They need one another: that a refused  *)
(* resize found something charged follows from the type of the charges,    *)
(* that a refused reservation did from the bound on one request, and that  *)
(* no charge exceeds the usage it is taken from, from the count.           *)
(*                                                                         *)
(* Then the slots.  A ledger L and the slots T of all connections are Good *)
(* when the ledger is sound and its charges are exactly those in the       *)
(* slots.  View is what the abstract budget sees of them.  One lemma per   *)
(* ledger call says what it does to both; every transaction is a           *)
(* composition of those calls, and keeps Good and maps to one operation of *)
(* SlotBudget.                                                             *)
(***************************************************************************)
EXTENDS ConnectionCharges, FiniteSetTheorems, TLAPS

(* What each method preserves, and the inductive invariant.                *)
Counted(L) == IsFiniteSet(ChargedBytes(L.charges)) /\ Balanced(L)
Sound(L) == WellTyped(L) /\ Counted(L) /\ Hysteresis(L) /\ Recoverable(L)
LedgerSound == Sound(ledger)

-----------------------------------------------------------------------------
(* The two watermarks of a limit of at least five units are positive and   *)
(* ordered.                                                                *)
LEMMA Watermarks ==
    /\ HighWatermark \in Nat /\ LowWatermark \in Nat
    /\ 0 < LowWatermark /\ LowWatermark < HighWatermark
    /\ HighWatermark < Limit
  BY LimitAssumption DEF HighWatermark, LowWatermark

(* Refreshing the pressure of a ledger re-establishes the hysteresis,      *)
(* whatever the new usage is.                                              *)
LEMMA RefreshRestores ==
    ASSUME NEW p \in PressureStates, NEW u \in 0..Limit
    PROVE  /\ RefreshPressure(p, u) \in PressureStates
           /\ RefreshPressure(p, u) = "Normal" => u < HighWatermark
           /\ RefreshPressure(p, u) = "Pressured" => u > LowWatermark
           /\ RefreshPressure(p, u) # "Exhausted"
  BY Watermarks, LimitAssumption DEF RefreshPressure, PressureStates

-----------------------------------------------------------------------------
(* Counting the charged bytes.                                             *)

(* The bytes of one charge.                                                *)
LEMMA BytesOfOne ==
    ASSUME NEW i, NEW n \in Nat
    PROVE  IsFiniteSet({i} \X (1 .. n)) /\ Cardinality({i} \X (1 .. n)) = n
<1>1. IsFiniteSet(1 .. n) /\ Cardinality(1 .. n) = n
  BY FS_Interval
<1>2. IsFiniteSet({i}) /\ Cardinality({i}) = 1
  BY FS_Singleton
<1>3. /\ IsFiniteSet({i} \X (1 .. n))
      /\ Cardinality({i} \X (1 .. n)) = Cardinality({i}) * Cardinality(1 .. n)
  BY <1>1, <1>2, FS_Product
<1> QED
  BY <1>1, <1>2, <1>3

(* A charge adds its bytes to those of the other charges.                  *)
LEMMA CountWith ==
    ASSUME NEW t, NEW i \in DOMAIN t, t[i].bytes \in Nat,
           IsFiniteSet(ChargedBytes(DropCharge(t, i)))
    PROVE  /\ IsFiniteSet(ChargedBytes(t))
           /\ Cardinality(ChargedBytes(t)) =
                 Cardinality(ChargedBytes(DropCharge(t, i))) + t[i].bytes
<1> DEFINE own == {i} \X (1 .. t[i].bytes)
           rest == ChargedBytes(DropCharge(t, i))
<1>1. IsFiniteSet(own) /\ Cardinality(own) = t[i].bytes
  BY BytesOfOne
<1>2. /\ DOMAIN DropCharge(t, i) = DOMAIN t \ {i}
      /\ \A j \in DOMAIN t \ {i} : DropCharge(t, i)[j] = t[j]
  BY DEF DropCharge
<1>3. ChargedBytes(t) = rest \cup own
  BY <1>2 DEF ChargedBytes
<1>4. rest \cap own = {}
  BY <1>2 DEF ChargedBytes
<1>5. Cardinality(rest) \in Nat
  BY FS_CardinalityType
<1> HIDE DEF own, rest
<1>6. /\ IsFiniteSet(rest \cup own)
      /\ Cardinality(rest \cup own) =
            Cardinality(rest) + Cardinality(own) - Cardinality(rest \cap own)
  <2>1. IsFiniteSet(rest)
    BY DEF rest
  <2> QED
    BY <1>1, <2>1, FS_Union
<1>7. Cardinality(rest \cap own) = 0
  BY <1>4, FS_EmptySet
<1>8. Cardinality(ChargedBytes(t)) = Cardinality(rest) + t[i].bytes
  BY <1>1, <1>3, <1>5, <1>6, <1>7
<1> QED
  BY <1>3, <1>6, <1>8 DEF rest

(* Without a charge its bytes are gone, and they were among the bytes.     *)
LEMMA CountWithout ==
    ASSUME NEW t, NEW i \in DOMAIN t, t[i].bytes \in Nat, IsFiniteSet(ChargedBytes(t))
    PROVE  /\ IsFiniteSet(ChargedBytes(DropCharge(t, i)))
           /\ Cardinality(ChargedBytes(DropCharge(t, i))) \in Nat
           /\ Cardinality(ChargedBytes(t)) =
                 Cardinality(ChargedBytes(DropCharge(t, i))) + t[i].bytes
<1>1. ChargedBytes(DropCharge(t, i)) \subseteq ChargedBytes(t)
  BY DEF ChargedBytes, DropCharge
<1>2. IsFiniteSet(ChargedBytes(DropCharge(t, i)))
  BY <1>1, FS_Subset
<1> QED
  BY <1>2, CountWith, FS_CardinalityType

(* A charge that is put in takes the place of the one that was there.      *)
LEMMA CountPut ==
    ASSUME NEW t, NEW i, NEW c, c.bytes \in Nat, IsFiniteSet(ChargedBytes(DropCharge(t, i)))
    PROVE  /\ IsFiniteSet(ChargedBytes(PutCharge(t, i, c)))
           /\ Cardinality(ChargedBytes(PutCharge(t, i, c))) =
                 Cardinality(ChargedBytes(DropCharge(t, i))) + c.bytes
<1> DEFINE p == PutCharge(t, i, c)
<1>1. i \in DOMAIN p /\ p[i] = c
  BY DEF PutCharge
<1>2. DropCharge(p, i) = DropCharge(t, i)
  <2>1. DOMAIN p \ {i} = DOMAIN t \ {i} /\ \A j \in DOMAIN t \ {i} : p[j] = t[j]
    BY DEF PutCharge
  <2> HIDE DEF p
  <2> QED
    BY <2>1 DEF DropCharge
<1> HIDE DEF p
<1>3. /\ IsFiniteSet(ChargedBytes(p))
      /\ Cardinality(ChargedBytes(p)) = Cardinality(ChargedBytes(DropCharge(p, i))) + p[i].bytes
  BY <1>1, <1>2, CountWith
<1> QED
  BY <1>1, <1>2, <1>3 DEF p

(* No charge is larger than the usage.                                     *)
LEMMA ChargeWithinUsage ==
    ASSUME NEW L, Sound(L), NEW i \in DOMAIN L.charges
    PROVE  /\ L.charges[i].bytes \in 1 .. L.used
           /\ IsFiniteSet(ChargedBytes(DropCharge(L.charges, i)))
           /\ Cardinality(ChargedBytes(DropCharge(L.charges, i))) = L.used - L.charges[i].bytes
<1>1. L.charges[i].bytes \in 1 .. Limit /\ IsFiniteSet(ChargedBytes(L.charges))
  BY DEF Sound, WellTyped, Charge, Counted
<1>2. L.used = Cardinality(ChargedBytes(L.charges)) /\ L.used \in Nat
  BY LimitAssumption DEF Sound, Counted, Balanced, WellTyped
<1>3. /\ IsFiniteSet(ChargedBytes(DropCharge(L.charges, i)))
      /\ Cardinality(ChargedBytes(DropCharge(L.charges, i))) \in Nat
      /\ Cardinality(ChargedBytes(L.charges)) =
            Cardinality(ChargedBytes(DropCharge(L.charges, i))) + L.charges[i].bytes
  BY <1>1, LimitAssumption, CountWithout
<1> QED
  BY <1>1, <1>2, <1>3

-----------------------------------------------------------------------------
(* A change of usage and table keeps a ledger sound when the new usage is  *)
(* within the limit and the new table is well formed.                      *)
LEMMA WithUsageSound ==
    ASSUME NEW L, Sound(L), NEW u \in 0..Limit, NEW t, NEW n \in Ids,
           DOMAIN t \subseteq 1..(n - 1), t \in [DOMAIN t -> Charge],
           IsFiniteSet(ChargedBytes(t)), u = Cardinality(ChargedBytes(t))
    PROVE  Sound(WithUsage(L, u, t, n))
<1>1. L.pressure \in PressureStates
  BY DEF Sound, WellTyped
<1>2. /\ RefreshPressure(L.pressure, u) \in PressureStates
      /\ RefreshPressure(L.pressure, u) = "Normal" => u < HighWatermark
      /\ RefreshPressure(L.pressure, u) = "Pressured" => u > LowWatermark
      /\ RefreshPressure(L.pressure, u) # "Exhausted"
  BY <1>1, RefreshRestores
<1> QED
  BY <1>2, Watermarks, LimitAssumption
     DEF WithUsage, Sound, WellTyped, Counted, Balanced, Hysteresis, Recoverable

(* Failing closed and refusing for capacity only touch the pressure.       *)
LEMMA RefusalsSound ==
    ASSUME NEW L, Sound(L)
    PROVE  /\ Sound(Refused(L).ledger)
           /\ Sound(FailAccounting(L).ledger)
           /\ L.used > 0 => Sound(CapacityReached(L).ledger)
<1>1. Refused(L).ledger = L
  BY DEF Refused
<1>2. FailAccounting(L).ledger = [L EXCEPT !.pressure = "FailedClosed"]
  BY DEF FailAccounting, Refused
<1>3. CapacityReached(L).ledger = [L EXCEPT !.pressure = "Exhausted"]
  BY DEF CapacityReached, Refused
<1> QED
  BY <1>1, <1>2, <1>3
     DEF Sound, WellTyped, Counted, Balanced, Hysteresis, Recoverable, PressureStates

(* Putting a well-formed charge in a table keeps it well formed.           *)
LEMMA PutTyped ==
    ASSUME NEW t, t \in [DOMAIN t -> Charge], NEW c \in Charge, NEW i
    PROVE  /\ DOMAIN PutCharge(t, i, c) = DOMAIN t \cup {i}
           /\ PutCharge(t, i, c) \in [DOMAIN PutCharge(t, i, c) -> Charge]
  BY DEF PutCharge

-----------------------------------------------------------------------------
(* One lemma per method.                                                   *)

(* reserve keeps a ledger sound.                                           *)
LEMMA ReserveSound ==
    ASSUME NEW L, Sound(L), NEW o \in Owners, NEW k \in Classes,
           NEW b \in 0..MaxRequest, NEW g \in Generations
    PROVE  Sound(Reserve(L, o, k, b, g).ledger)
<1> DEFINE c == [owner |-> o, class |-> k, bytes |-> b, state |-> "Granted"]
           t == PutCharge(L.charges, L.nextId, c)
           W == WithUsage(L, L.used + b, t, L.nextId + 1)
<1>1. L.used \in 0..Limit /\ L.nextId \in Ids /\ L.nextId \in 1..L.nextId
  BY DEF Sound, WellTyped, Ids
<1>2. CASE /\ L.pressure # "FailedClosed" /\ g = "current" /\ b # 0
           /\ L.used + b <= Limit /\ L.nextId # IdMax
  <2>1. c \in Charge
    BY <1>2, LedgerAssumption, LimitAssumption DEF Charge, LiveStates
  <2>2. /\ DOMAIN t = DOMAIN L.charges \cup {L.nextId}
        /\ t \in [DOMAIN t -> Charge]
    <3> HIDE DEF c
    <3>1. L.charges \in [DOMAIN L.charges -> Charge]
      BY DEF Sound, WellTyped
    <3> QED BY <3>1, <2>1, PutTyped
  <2>3. DOMAIN t \subseteq 1..((L.nextId + 1) - 1) /\ L.nextId + 1 \in Ids
    BY <2>2, <1>1, <1>2, LedgerAssumption DEF Sound, WellTyped, Ids
  <2>4. L.used + b \in 0..Limit
    BY <1>1, <1>2, LimitAssumption, LedgerAssumption
  <2>5. IsFiniteSet(ChargedBytes(t)) /\ Cardinality(ChargedBytes(t)) = L.used + b
    <3>1. DropCharge(L.charges, L.nextId) = L.charges
      <4>1. L.nextId \notin DOMAIN L.charges /\ L.charges \in [DOMAIN L.charges -> Charge]
        BY <1>1 DEF Sound, WellTyped, Ids
      <4> QED BY <4>1 DEF DropCharge
    <3>2. c.bytes = b /\ b \in Nat
      OBVIOUS
    <3> HIDE DEF c
    <3>3. /\ IsFiniteSet(ChargedBytes(t))
          /\ Cardinality(ChargedBytes(t)) = Cardinality(ChargedBytes(L.charges)) + c.bytes
      BY <3>1, <3>2, CountPut DEF Sound, Counted
    <3> QED BY <3>2, <3>3 DEF Sound, Counted, Balanced
  <2>6. Sound(W)
    <3> HIDE DEF t
    <3> QED BY <2>2, <2>3, <2>4, <2>5, WithUsageSound
  <2>7. Reserve(L, o, k, b, g).ledger = W
    BY <1>2, <1>1, LimitAssumption, LedgerAssumption DEF Reserve, Done
  <2> QED BY <2>6, <2>7
<1>3. CASE L.pressure # "FailedClosed" /\ g = "current" /\ b # 0 /\ L.used + b > Limit
  <2>1. L.used > 0
    BY <1>1, <1>3, LimitAssumption, LedgerAssumption
  <2>2. Reserve(L, o, k, b, g).ledger = CapacityReached(L).ledger
    BY <1>3 DEF Reserve
  <2> QED BY <2>1, <2>2, RefusalsSound
<1>4. CASE L.pressure = "FailedClosed" \/ g # "current" \/ b = 0
  BY <1>4, RefusalsSound DEF Reserve
<1>5. CASE /\ L.pressure # "FailedClosed" /\ g = "current" /\ b # 0
           /\ L.used + b <= Limit /\ L.nextId = IdMax
  <2>1. Reserve(L, o, k, b, g).ledger = FailAccounting(L).ledger
    BY <1>5, <1>1, LimitAssumption, LedgerAssumption DEF Reserve
  <2> QED BY <2>1, RefusalsSound
<1> QED
  BY <1>1, <1>2, <1>3, <1>4, <1>5, LimitAssumption, LedgerAssumption

(* replace_charge_bytes keeps a ledger sound, for any requested size: a    *)
(* charge that would exceed the limit is refused while one is still live.  *)
LEMMA ReplaceSound ==
    ASSUME NEW L, Sound(L), NEW i \in DOMAIN L.charges, NEW b \in Nat,
           NEW s \in LiveStates
    PROVE  Sound(ReplaceChargeBytes(L, i, b, s).ledger)
<1> DEFINE p == L.charges[i]
           n == (L.used - p.bytes) + b
           c == [p EXCEPT !.bytes = b, !.state = s]
           t == PutCharge(L.charges, i, c)
           W == WithUsage(L, n, t, L.nextId)
<1>1. /\ L.used \in 0..Limit /\ L.nextId \in Ids /\ i \in 1..(L.nextId - 1)
      /\ p \in Charge /\ p.bytes \in 1..Limit
  BY DEF Sound, WellTyped, Charge
<1>2. CASE b = 0 \/ p.bytes > L.used
  BY <1>2, RefusalsSound DEF ReplaceChargeBytes
<1>3. CASE b # 0 /\ p.bytes <= L.used /\ n > Limit
  <2>1. L.used > 0
    BY <1>1, <1>3, LimitAssumption
  <2>2. ReplaceChargeBytes(L, i, b, s).ledger = CapacityReached(L).ledger
    BY <1>1, <1>3, LimitAssumption DEF ReplaceChargeBytes
  <2> QED BY <2>1, <2>2, RefusalsSound
<1>4. CASE b # 0 /\ p.bytes <= L.used /\ n <= Limit
  <2>1. n \in 0..Limit /\ b \in 1..Limit
    BY <1>1, <1>4, LimitAssumption
  <2>2. c \in Charge
    <3> HIDE DEF p
    <3> QED BY <1>1, <2>1 DEF Charge
  <2>3. DOMAIN L.charges \subseteq 1..(L.nextId - 1) /\ i \in 1..L.nextId
    BY <1>1 DEF Sound, WellTyped, Ids
  <2>4. /\ DOMAIN t = DOMAIN L.charges
        /\ t \in [DOMAIN t -> Charge]
    <3> HIDE DEF c
    <3>1. L.charges \in [DOMAIN L.charges -> Charge]
      BY DEF Sound, WellTyped
    <3>2. DOMAIN L.charges \cup {i} = DOMAIN L.charges
      OBVIOUS
    <3> QED BY <3>1, <3>2, <2>2, PutTyped
  <2>5. IsFiniteSet(ChargedBytes(t)) /\ n = Cardinality(ChargedBytes(t))
    <3>1. c.bytes = b
      BY <1>1 DEF Charge
    <3> HIDE DEF c
    <3> QED BY <1>1, <3>1, ChargeWithinUsage, CountPut
  <2>6. Sound(W)
    <3> HIDE DEF t, n
    <3> QED BY <2>1, <2>3, <2>4, <2>5, <1>1, WithUsageSound
  <2>7. ReplaceChargeBytes(L, i, b, s).ledger = W
    BY <1>1, <1>4, LimitAssumption DEF ReplaceChargeBytes, Done
  <2> QED BY <2>6, <2>7
<1> QED
  BY <1>1, <1>2, <1>3, <1>4, LimitAssumption

(* commit and resize replace bytes of a live charge or fail closed.        *)
LEMMA ResizeSound ==
    ASSUME NEW L, Sound(L), NEW i, NEW b \in Nat, NEW g
    PROVE  /\ Sound(Resize(L, i, b, g).ledger)
           /\ Sound(Commit(L, i, b, g).ledger)
<1>1. i \in DOMAIN L.charges => L.charges[i].state \in LiveStates
  BY DEF Sound, WellTyped, Charge
<1>2. Sound(FailAccounting(L).ledger)
  BY RefusalsSound
<1>3. i \in DOMAIN L.charges => \A s \in LiveStates :
         Sound(ReplaceChargeBytes(L, i, b, s).ledger)
  BY ReplaceSound
<1> QED
  BY <1>1, <1>2, <1>3 DEF Resize, Commit, IsLive, LiveStates

(* grow is a no-op, a refusal or a resize.                                 *)
LEMMA GrowSound ==
    ASSUME NEW L, Sound(L), NEW i, NEW b \in Nat, NEW g
    PROVE  Sound(Grow(L, i, b, g).ledger)
<1>1. CASE g # "current" \/ b = 0 \/ i \notin DOMAIN L.charges
  BY <1>1, RefusalsSound DEF Grow, Done, IsLive
<1>2. CASE g = "current" /\ b # 0 /\ i \in DOMAIN L.charges
  <2>1. L.charges[i].bytes + b \in Nat
    BY <1>2, LimitAssumption DEF Sound, WellTyped, Charge
  <2> QED BY <1>2, <2>1, ResizeSound DEF Grow, IsLive
<1> QED BY <1>1, <1>2

(* transfer changes owner, class and state only.                           *)
LEMMA TransferSound ==
    ASSUME NEW L, Sound(L), NEW i, NEW o \in Owners, NEW k \in Classes, NEW g
    PROVE  Sound(Transfer(L, i, o, k, g).ledger)
<1> DEFINE c == [L.charges[i] EXCEPT !.owner = o, !.class = k,
                                     !.state = "Transferred"]
           t == PutCharge(L.charges, i, c)
<1>1. CASE g = "current" /\ i \in DOMAIN L.charges
  <2>1. L.charges[i] \in Charge
    BY <1>1 DEF Sound, WellTyped
  <2>2. c \in Charge
    BY <2>1 DEF Charge, LiveStates
  <2>3. /\ L.nextId \in Ids /\ DOMAIN L.charges \subseteq 1..(L.nextId - 1)
        /\ i \in 1..L.nextId /\ L.charges \in [DOMAIN L.charges -> Charge]
    BY <1>1 DEF Sound, WellTyped, Ids
  <2>4. DOMAIN t = DOMAIN L.charges /\ t \in [DOMAIN t -> Charge]
    <3> HIDE DEF c
    <3>1. DOMAIN L.charges \cup {i} = DOMAIN L.charges
      BY <1>1
    <3> QED BY <3>1, <2>2, <2>3, PutTyped
  <2>5. Transfer(L, i, o, k, g).ledger = [L EXCEPT !.charges = t]
    BY <1>1 DEF Transfer, Done, IsLive
  <2>6. IsFiniteSet(ChargedBytes(t)) /\ L.used = Cardinality(ChargedBytes(t))
    <3>1. c.bytes = L.charges[i].bytes /\ c.bytes \in Nat /\ L.used \in Nat
      BY <2>1, LimitAssumption DEF Charge, Sound, WellTyped
    <3> HIDE DEF c
    <3> QED BY <1>1, <3>1, ChargeWithinUsage, CountPut
  <2> HIDE DEF t
  <2> QED BY <2>4, <2>5, <2>6
          DEF Sound, WellTyped, Counted, Balanced, Hysteresis, Recoverable
<1>2. CASE g # "current" \/ i \notin DOMAIN L.charges
  BY <1>2, RefusalsSound DEF Transfer, IsLive
<1> QED BY <1>1, <1>2

(* release drops the charge and gives its bytes back.                      *)
LEMMA ReleaseSound ==
    ASSUME NEW L, Sound(L), NEW i, NEW g
    PROVE  Sound(Release(L, i, g).ledger)
<1> DEFINE t == DropCharge(L.charges, i)
           u == L.used - L.charges[i].bytes
<1>1. CASE g = "current" /\ i \in DOMAIN L.charges /\ ~(L.charges[i].bytes > L.used)
  <2>1. /\ L.nextId \in Ids /\ DOMAIN L.charges \subseteq 1..(L.nextId - 1)
        /\ L.charges \in [DOMAIN L.charges -> Charge]
        /\ L.used \in 0..Limit /\ L.charges[i].bytes \in 1..Limit
    BY <1>1 DEF Sound, WellTyped, Charge
  <2>2. DOMAIN t \subseteq 1..(L.nextId - 1) /\ t \in [DOMAIN t -> Charge]
    BY <2>1 DEF DropCharge
  <2>3. u \in 0..Limit
    BY <1>1, <2>1, LimitAssumption
  <2>4. Release(L, i, g).ledger = WithUsage(L, u, t, L.nextId)
    BY <1>1 DEF Release, Done, IsLive
  <2>5. IsFiniteSet(ChargedBytes(t)) /\ u = Cardinality(ChargedBytes(t))
    BY <1>1, ChargeWithinUsage
  <2> HIDE DEF t, u
  <2> QED BY <2>1, <2>2, <2>3, <2>4, <2>5, WithUsageSound
<1>2. CASE g # "current" \/ i \notin DOMAIN L.charges \/ L.charges[i].bytes > L.used
  BY <1>2, RefusalsSound DEF Release, IsLive
<1> QED BY <1>1, <1>2

-----------------------------------------------------------------------------
(* The ledger of a fresh runtime is sound.                                 *)
LEMMA NewLedgerSound == Sound(NewLedger)
<1>1. ChargedBytes(<< >>) = {}
  BY DEF ChargedBytes
<1>2. IsFiniteSet(ChargedBytes(<< >>)) /\ Cardinality(ChargedBytes(<< >>)) = 0
  BY <1>1, FS_EmptySet
<1>3. Counted(NewLedger)
  BY <1>2 DEF NewLedger, Counted, Balanced
<1> QED
  BY <1>3, Watermarks, LimitAssumption, LedgerAssumption
     DEF NewLedger, Sound, WellTyped, Hysteresis, Recoverable, PressureStates, Ids

(* Every call of a public method keeps the ledger sound.                   *)
LEMMA CallsSound == LedgerSound /\ [Next]_ledger => LedgerSound'
<1> SUFFICES ASSUME Sound(ledger), [Next]_ledger PROVE Sound(ledger')
  BY DEF LedgerSound
<1>0. \A b \in 0..MaxRequest : b \in Nat
  OBVIOUS
<1>1. CASE CallReserve
  BY <1>1, ReserveSound DEF CallReserve
<1>2. CASE CallCommit
  BY <1>0, <1>2, ResizeSound DEF CallCommit
<1>3. CASE CallResize
  BY <1>0, <1>3, ResizeSound DEF CallResize
<1>4. CASE CallGrow
  BY <1>0, <1>4, GrowSound DEF CallGrow
<1>5. CASE CallTransfer
  BY <1>5, TransferSound DEF CallTransfer
<1>6. CASE CallRelease
  BY <1>6, ReleaseSound DEF CallRelease
<1>7. CASE UNCHANGED ledger
  BY <1>7
<1> QED BY <1>1, <1>2, <1>3, <1>4, <1>5, <1>6, <1>7 DEF Next

(* After any sequence of calls on PayloadBudgetLedger the ledger is sound. *)
THEOREM LedgerAlwaysSound == Spec => []LedgerSound
<1>1. Init => LedgerSound
  BY NewLedgerSound DEF Init, LedgerSound
<1> QED BY <1>1, CallsSound, PTL DEF Spec

(* Usage within the limit, charges of positive size at identities that     *)
(* were issued once: for every limit, whatever callers do.                 *)
THEOREM TypeCorrect == Spec => []TypeOK
<1>1. LedgerSound => TypeOK
  BY DEF LedgerSound, Sound, TypeOK
<1> QED BY <1>1, LedgerAlwaysSound, PTL

(* The running total is the sum of the live charges, whatever sequence of  *)
(* calls, refused ones included, led there.                                *)
THEOREM UsedAlwaysSumOfCharges == Spec => []UsedIsSumOfCharges
<1>1. LedgerSound => UsedIsSumOfCharges
  BY DEF LedgerSound, Sound, Counted, UsedIsSumOfCharges
<1> QED BY <1>1, LedgerAlwaysSound, PTL

(* Admission is open only below the high watermark and pressure lasts only *)
(* above the low one, for every limit of at least five units.              *)
THEOREM HysteresisHolds == Spec => []PressureHysteresis
<1>1. LedgerSound => PressureHysteresis
  BY DEF LedgerSound, Sound, PressureHysteresis
<1> QED BY <1>1, LedgerAlwaysSound, PTL

(* Pressured or exhausted admission always has a live byte whose release   *)
(* can reopen it.                                                          *)
THEOREM RecoverableHolds == Spec => []PressureRecoverable
<1>1. LedgerSound => PressureRecoverable
  BY DEF LedgerSound, Sound, PressureRecoverable
<1> QED BY <1>1, LedgerAlwaysSound, PTL

-----------------------------------------------------------------------------
(* The slots of the connections and the charges of the ledger.             *)

(* The charges of a table t are exactly those in the slots T. *)
Owns(t, T) ==
    /\ T \in [Owners -> [Slots -> Nat]]
    /\ \A c \in Owners, k \in Slots : T[c][k] # NoId =>
          T[c][k] \in DOMAIN t /\ t[T[c][k]].owner = c /\ t[T[c][k]].class = ClassOf[k]
    /\ \A c, d \in Owners, k, m \in Slots :
          T[c][k] = T[d][m] /\ T[c][k] # NoId => c = d /\ k = m
    /\ \A i \in DOMAIN t : \E c \in Owners, k \in Slots : T[c][k] = i
    /\ NoId \notin DOMAIN t

Good(L, T) == Sound(L) /\ Owns(L.charges, T)

SetSlot(T, c, k, i) == [T EXCEPT ![c] = [T[c] EXCEPT ![k] = i]]

(* What the abstract budget sees. *)
Bytes(t, T) == [c \in Owners |-> [k \in Slots |->
                  IF T[c][k] \in DOMAIN t THEN t[T[c][k]].bytes ELSE 0]]
SetHeld(h, c, k, n) == [h EXCEPT ![c][k] = n]
View(L, T) == [used |-> L.used, pressure |-> L.pressure, held |-> Bytes(L.charges, T)]

-----------------------------------------------------------------------------
(* Tables and slots.                                                       *)

(* An empty slot takes a new charge. *)
LEMMA OwnsNew ==
    ASSUME NEW t, NEW T, Owns(t, T), NEW c \in Owners, NEW k \in Slots, T[c][k] = NoId,
           NEW i \in Nat \ {NoId}, i \notin DOMAIN t,
           NEW ch, ch.owner = c, ch.class = ClassOf[k]
    PROVE  Owns(PutCharge(t, i, ch), SetSlot(T, c, k, i))
<1> DEFINE p == PutCharge(t, i, ch)
           U == SetSlot(T, c, k, i)
<1>1. /\ DOMAIN p = DOMAIN t \cup {i} /\ p[i] = ch
      /\ \A j \in DOMAIN t : p[j] = t[j]
  BY DEF PutCharge
<1>2. /\ U \in [Owners -> [Slots -> Nat]]
      /\ \A d \in Owners, m \in Slots : U[d][m] = IF d = c /\ m = k THEN i ELSE T[d][m]
  <2>1. T \in [Owners -> [Slots -> Nat]]
    BY DEF Owns
  <2> QED
    BY <2>1 DEF SetSlot
<1> HIDE DEF p, U
<1>3. \A d \in Owners, m \in Slots : T[d][m] # i
  BY DEF Owns
<1>4. \A d \in Owners, m \in Slots : U[d][m] # NoId =>
         U[d][m] \in DOMAIN p /\ p[U[d][m]].owner = d /\ p[U[d][m]].class = ClassOf[m]
  BY <1>1, <1>2 DEF Owns
<1>5. \A d, e \in Owners, l, m \in Slots :
         U[d][l] = U[e][m] /\ U[d][l] # NoId => d = e /\ l = m
  BY <1>2, <1>3 DEF Owns
<1>6. \A j \in DOMAIN p : \E d \in Owners, m \in Slots : U[d][m] = j
  <2> SUFFICES ASSUME NEW j \in DOMAIN p PROVE \E d \in Owners, m \in Slots : U[d][m] = j
    OBVIOUS
  <2>1. CASE j = i
    BY <1>2, <2>1
  <2>2. CASE j # i
    <3>1. PICK d \in Owners, m \in Slots : T[d][m] = j
      BY <1>1, <2>2 DEF Owns
    <3>2. ~(d = c /\ m = k)
      BY <1>1, <2>2, <3>1 DEF Owns
    <3> QED
      BY <1>2, <3>1, <3>2
  <2> QED
    BY <2>1, <2>2
<1> QED
  BY <1>1, <1>2, <1>4, <1>5, <1>6 DEF Owns, p, U

(* A charge changes its size or state. *)
LEMMA OwnsChanged ==
    ASSUME NEW t, NEW T, Owns(t, T), NEW i \in DOMAIN t,
           NEW ch, ch.owner = t[i].owner, ch.class = t[i].class
    PROVE  Owns(PutCharge(t, i, ch), T)
<1>1. /\ DOMAIN PutCharge(t, i, ch) = DOMAIN t /\ PutCharge(t, i, ch)[i] = ch
      /\ \A j \in DOMAIN t : j # i => PutCharge(t, i, ch)[j] = t[j]
  BY DEF PutCharge
<1> QED
  BY <1>1 DEF Owns

(* A slot gives its charge back. *)
LEMMA OwnsDropped ==
    ASSUME NEW t, NEW T, Owns(t, T), NEW c \in Owners, NEW k \in Slots, T[c][k] # NoId
    PROVE  Owns(DropCharge(t, T[c][k]), SetSlot(T, c, k, NoId))
<1> DEFINE i == T[c][k]
           p == DropCharge(t, i)
           U == SetSlot(T, c, k, NoId)
<1>1. DOMAIN p = DOMAIN t \ {i} /\ \A j \in DOMAIN t \ {i} : p[j] = t[j]
  BY DEF DropCharge
<1>2. /\ U \in [Owners -> [Slots -> Nat]]
      /\ \A d \in Owners, m \in Slots : U[d][m] = IF d = c /\ m = k THEN NoId ELSE T[d][m]
  <2>1. T \in [Owners -> [Slots -> Nat]] /\ NoId \in Nat
    BY DEF Owns, NoId
  <2> QED
    BY <2>1 DEF SetSlot
<1>3. \A d \in Owners, m \in Slots : U[d][m] # NoId => U[d][m] = T[d][m] /\ T[d][m] # i
  BY <1>2 DEF Owns
<1> HIDE DEF p, U
<1>4. \A d \in Owners, m \in Slots : U[d][m] # NoId =>
         U[d][m] \in DOMAIN p /\ p[U[d][m]].owner = d /\ p[U[d][m]].class = ClassOf[m]
  BY <1>1, <1>3 DEF Owns
<1>5. \A d, e \in Owners, l, m \in Slots :
         U[d][l] = U[e][m] /\ U[d][l] # NoId => d = e /\ l = m
  BY <1>3 DEF Owns
<1>6. \A j \in DOMAIN p : \E d \in Owners, m \in Slots : U[d][m] = j
  BY <1>1, <1>2 DEF Owns
<1> QED
  BY <1>1, <1>2, <1>4, <1>5, <1>6 DEF Owns, p, U

-----------------------------------------------------------------------------
(* What the budget sees of those changes.                                  *)

LEMMA BytesAre ==
    ASSUME NEW t, NEW T, NEW q, NEW U, NEW c \in Owners, NEW k \in Slots, NEW n,
           \A d \in Owners, m \in Slots :
              Bytes(q, U)[d][m] = IF d = c /\ m = k THEN n ELSE Bytes(t, T)[d][m]
    PROVE  Bytes(q, U) = SetHeld(Bytes(t, T), c, k, n)
<1>1. \A d \in Owners : Bytes(q, U)[d] = SetHeld(Bytes(t, T), c, k, n)[d]
  <2> SUFFICES ASSUME NEW d \in Owners
               PROVE  Bytes(q, U)[d] = SetHeld(Bytes(t, T), c, k, n)[d]
    OBVIOUS
  <2>1. \A m \in Slots : Bytes(q, U)[d][m] = SetHeld(Bytes(t, T), c, k, n)[d][m]
    BY DEF Bytes, SetHeld
  <2> QED
    BY <2>1 DEF Bytes, SetHeld
<1> QED
  BY <1>1 DEF Bytes, SetHeld

LEMMA BytesNew ==
    ASSUME NEW t, NEW T, Owns(t, T), NEW c \in Owners, NEW k \in Slots,
           NEW i \in Nat \ {NoId}, i \notin DOMAIN t, NEW ch
    PROVE  Bytes(PutCharge(t, i, ch), SetSlot(T, c, k, i)) = SetHeld(Bytes(t, T), c, k, ch.bytes)
<1> DEFINE p == PutCharge(t, i, ch)
           U == SetSlot(T, c, k, i)
<1>1. DOMAIN p = DOMAIN t \cup {i} /\ p[i] = ch /\ \A j \in DOMAIN t : p[j] = t[j]
  BY DEF PutCharge
<1>2. \A d \in Owners, m \in Slots : U[d][m] = IF d = c /\ m = k THEN i ELSE T[d][m]
  <2>1. T \in [Owners -> [Slots -> Nat]]
    BY DEF Owns
  <2> QED
    BY <2>1 DEF SetSlot
<1>3. \A d \in Owners, m \in Slots : T[d][m] # i
  BY DEF Owns
<1> HIDE DEF p, U
<1>4. \A d \in Owners, m \in Slots :
         Bytes(p, U)[d][m] = IF d = c /\ m = k THEN ch.bytes ELSE Bytes(t, T)[d][m]
  BY <1>1, <1>2, <1>3 DEF Bytes
<1>5. Bytes(p, U) = SetHeld(Bytes(t, T), c, k, ch.bytes)
  BY <1>4, BytesAre
<1> QED
  BY <1>5 DEF p, U

LEMMA BytesChanged ==
    ASSUME NEW t, NEW T, Owns(t, T), NEW c \in Owners, NEW k \in Slots, T[c][k] # NoId, NEW ch
    PROVE  Bytes(PutCharge(t, T[c][k], ch), T) = SetHeld(Bytes(t, T), c, k, ch.bytes)
<1> DEFINE p == PutCharge(t, T[c][k], ch)
<1>0. T[c][k] \in DOMAIN t
  BY DEF Owns
<1>1. /\ DOMAIN p = DOMAIN t /\ p[T[c][k]] = ch
      /\ \A j \in DOMAIN t \ {T[c][k]} : p[j] = t[j]
  BY <1>0 DEF PutCharge
<1>2. \A d \in Owners, m \in Slots : T[d][m] = T[c][k] => d = c /\ m = k
  BY DEF Owns
<1> HIDE DEF p
<1>3. \A d \in Owners, m \in Slots :
         Bytes(p, T)[d][m] = IF d = c /\ m = k THEN ch.bytes ELSE Bytes(t, T)[d][m]
  BY <1>0, <1>1, <1>2 DEF Bytes
<1>4. Bytes(p, T) = SetHeld(Bytes(t, T), c, k, ch.bytes)
  BY <1>3, BytesAre
<1> QED
  BY <1>4 DEF p

LEMMA BytesDropped ==
    ASSUME NEW t, NEW T, Owns(t, T), NEW c \in Owners, NEW k \in Slots, T[c][k] # NoId
    PROVE  Bytes(DropCharge(t, T[c][k]), SetSlot(T, c, k, NoId)) = SetHeld(Bytes(t, T), c, k, 0)
<1> DEFINE p == DropCharge(t, T[c][k])
           U == SetSlot(T, c, k, NoId)
<1>1. DOMAIN p = DOMAIN t \ {T[c][k]} /\ \A j \in DOMAIN t \ {T[c][k]} : p[j] = t[j]
  BY DEF DropCharge
<1>2. \A d \in Owners, m \in Slots : U[d][m] = IF d = c /\ m = k THEN NoId ELSE T[d][m]
  <2>1. T \in [Owners -> [Slots -> Nat]] /\ NoId \in Nat
    BY DEF Owns, NoId
  <2> QED
    BY <2>1 DEF SetSlot
<1>3. /\ NoId \notin DOMAIN p
      /\ \A d \in Owners, m \in Slots : T[d][m] = T[c][k] => d = c /\ m = k
  BY <1>1 DEF Owns
<1> HIDE DEF p, U
<1>4. \A d \in Owners, m \in Slots :
         Bytes(p, U)[d][m] = IF d = c /\ m = k THEN 0 ELSE Bytes(t, T)[d][m]
  BY <1>1, <1>2, <1>3 DEF Bytes
<1>5. Bytes(p, U) = SetHeld(Bytes(t, T), c, k, 0)
  BY <1>4, BytesAre
<1> QED
  BY <1>5 DEF p, U

(* The slots of a good ledger hold between one byte and the usage, or none. *)
LEMMA ViewIs ==
    ASSUME NEW L, NEW T, Good(L, T)
    PROVE  /\ View(L, T).used = L.used /\ View(L, T).pressure = L.pressure
           /\ View(L, T).held = Bytes(L.charges, T)
           /\ L.used \in 0 .. Limit /\ L.pressure \in PressureStates /\ L.nextId \in 1 .. IdMax
           /\ T \in [Owners -> [Slots -> Nat]]
           /\ \A c \in Owners, k \in Slots :
                 /\ T[c][k] = NoId => Bytes(L.charges, T)[c][k] = 0
                 /\ T[c][k] # NoId => /\ T[c][k] \in DOMAIN L.charges
                                      /\ Bytes(L.charges, T)[c][k] = L.charges[T[c][k]].bytes
                                      /\ Bytes(L.charges, T)[c][k] \in 1 .. L.used
<1>1. /\ View(L, T).used = L.used /\ View(L, T).pressure = L.pressure
      /\ View(L, T).held = Bytes(L.charges, T)
  BY DEF View
<1>2. /\ L.used \in 0 .. Limit /\ L.pressure \in PressureStates /\ L.nextId \in 1 .. IdMax
      /\ T \in [Owners -> [Slots -> Nat]]
  BY DEF Good, Sound, WellTyped, Ids, Owns
<1>3. ASSUME NEW c \in Owners, NEW k \in Slots
      PROVE  /\ T[c][k] = NoId => Bytes(L.charges, T)[c][k] = 0
             /\ T[c][k] # NoId => /\ T[c][k] \in DOMAIN L.charges
                                  /\ Bytes(L.charges, T)[c][k] = L.charges[T[c][k]].bytes
                                  /\ Bytes(L.charges, T)[c][k] \in 1 .. L.used
  <2>1. CASE T[c][k] = NoId
    BY <2>1 DEF Good, Owns, Bytes
  <2>2. CASE T[c][k] # NoId
    <3>1. T[c][k] \in DOMAIN L.charges
      BY <2>2 DEF Good, Owns
    <3>2. Bytes(L.charges, T)[c][k] = L.charges[T[c][k]].bytes
      BY <3>1 DEF Bytes
    <3> QED
      BY <2>2, <3>1, <3>2, ChargeWithinUsage DEF Good
  <2> QED
    BY <2>1, <2>2
<1> QED
  BY <1>1, <1>2, <1>3

-----------------------------------------------------------------------------
(* What a ledger call does.                                                *)

(* A refreshed pressure stays as it is while the usage does. *)
LEMMA RefreshTwice ==
    ASSUME NEW p \in PressureStates, NEW u \in Int
    PROVE  RefreshPressure(RefreshPressure(p, u), u) = RefreshPressure(p, u)
  BY Watermarks DEF RefreshPressure, PressureStates

(* Nothing changes but the pressure. *)
LEMMA RefusedView ==
    ASSUME NEW L, NEW T, Good(L, T)
    PROVE  /\ View(FailAccounting(L).ledger, T) = Abstract!DenyBroken(View(L, T)).budget
           /\ Good(FailAccounting(L).ledger, T)
           /\ FailAccounting(L).ledger.nextId = L.nextId
           /\ View(CapacityReached(L).ledger, T) = Abstract!DenyOver(View(L, T)).budget
           /\ L.used > 0 => Good(CapacityReached(L).ledger, T)
           /\ CapacityReached(L).ledger.nextId = L.nextId
           /\ ~FailAccounting(L).ok /\ ~CapacityReached(L).ok
           /\ ~Abstract!DenyBroken(View(L, T)).ok /\ ~Abstract!DenyOver(View(L, T)).ok
<1>1. L = [used |-> L.used, charges |-> L.charges, nextId |-> L.nextId, pressure |-> L.pressure]
  BY DEF Good, Sound, WellTyped
<1>2. /\ FailAccounting(L).ledger.used = L.used /\ FailAccounting(L).ledger.charges = L.charges
      /\ FailAccounting(L).ledger.nextId = L.nextId
      /\ FailAccounting(L).ledger.pressure = "FailedClosed" /\ ~FailAccounting(L).ok
  BY <1>1 DEF FailAccounting, Refused
<1>3. /\ CapacityReached(L).ledger.used = L.used /\ CapacityReached(L).ledger.charges = L.charges
      /\ CapacityReached(L).ledger.nextId = L.nextId
      /\ CapacityReached(L).ledger.pressure = "Exhausted" /\ ~CapacityReached(L).ok
  BY <1>1 DEF CapacityReached, Refused
<1>4. /\ View(FailAccounting(L).ledger, T) = Abstract!DenyBroken(View(L, T)).budget
      /\ View(CapacityReached(L).ledger, T) = Abstract!DenyOver(View(L, T)).budget
      /\ ~Abstract!DenyBroken(View(L, T)).ok /\ ~Abstract!DenyOver(View(L, T)).ok
  BY <1>2, <1>3 DEF View, Abstract!DenyBroken, Abstract!DenyOver, Abstract!Deny
<1>5. /\ Good(FailAccounting(L).ledger, T)
      /\ L.used > 0 => Good(CapacityReached(L).ledger, T)
  BY <1>2, <1>3, RefusalsSound DEF Good
<1> QED
  BY <1>2, <1>3, <1>4, <1>5

(* The abstract budget refreshes its pressure as the ledger does. *)
LEMMA SameRefresh ==
    ASSUME NEW p, NEW u
    PROVE  Abstract!RefreshPressure(p, u) = RefreshPressure(p, u)
  BY DEF RefreshPressure, Abstract!RefreshPressure, HighWatermark, Abstract!HighWatermark,
         LowWatermark, Abstract!LowWatermark

(* What it sees after a change of one slot. *)
LEMMA HoldIs ==
    ASSUME NEW L, NEW T, NEW c \in Owners, NEW k \in Slots, NEW n, NEW W, NEW U, NEW u,
           u = (L.used - Bytes(L.charges, T)[c][k]) + n,
           W.used = u, W.pressure = RefreshPressure(L.pressure, u),
           Bytes(W.charges, U) = SetHeld(Bytes(L.charges, T), c, k, n)
    PROVE  View(W, U) = Abstract!Hold(View(L, T), c, k, n)
  BY SameRefresh DEF View, SetHeld, Abstract!Hold

(* A ledger whose pressure has followed its last change of usage. *)
Fresh(L) == RefreshPressure(L.pressure, L.used) = L.pressure

LEMMA WithUsageIs ==
    ASSUME NEW L, NEW u \in Int, NEW t, NEW n, L.pressure \in PressureStates
    PROVE  /\ WithUsage(L, u, t, n).used = u /\ WithUsage(L, u, t, n).charges = t
           /\ WithUsage(L, u, t, n).nextId = n
           /\ WithUsage(L, u, t, n).pressure = RefreshPressure(L.pressure, u)
           /\ Fresh(WithUsage(L, u, t, n))
  BY RefreshTwice DEF WithUsage, Fresh

(* reserve is refused for the reasons TakeSlot has, or adds a charge. *)
LEMMA ReserveDoes ==
    ASSUME NEW L, NEW T, Good(L, T), NEW c \in Owners, NEW k \in Slots,
           NEW b \in 0 .. MaxRequest, L.nextId # IdMax,
           NEW r, r = Reserve(L, c, ClassOf[k], b, "current"),
           NEW a, a = Abstract!TakeSlot(View(L, T), c, k, b),
           NEW g, g = [owner |-> c, class |-> ClassOf[k], bytes |-> b, state |-> "Granted"]
    PROVE  \/ /\ ~r.ok /\ ~a.ok /\ Good(r.ledger, T) /\ View(r.ledger, T) = a.budget
              /\ r.ledger.nextId = L.nextId
           \/ /\ r.ok /\ a.ok /\ r.id = L.nextId /\ b # 0 /\ L.used + b <= Limit
              /\ a.budget = Abstract!Hold(View(L, T), c, k, b)
              /\ r.id \in Nat \ {NoId} /\ r.id \notin DOMAIN L.charges
              /\ Sound(r.ledger)
              /\ r.ledger.used = L.used + b /\ r.ledger.nextId = L.nextId + 1
              /\ r.ledger.charges = PutCharge(L.charges, r.id, g)
              /\ r.ledger.pressure = RefreshPressure(L.pressure, L.used + b)
              /\ Fresh(r.ledger)
<1> DEFINE t == PutCharge(L.charges, L.nextId, g)
           W == WithUsage(L, L.used + b, t, L.nextId + 1)
<1>0. /\ View(L, T).used = L.used /\ View(L, T).pressure = L.pressure
      /\ L.used \in 0 .. Limit /\ L.pressure \in PressureStates /\ L.nextId \in 1 .. IdMax
      /\ L.used \in Int /\ b \in Int
  BY ViewIs, LimitAssumption, LedgerAssumption
<1>1. CASE L.pressure = "FailedClosed"
  <2>1. r = Refused(L) /\ a = Abstract!Deny(View(L, T))
    BY <1>0, <1>1 DEF Reserve, Abstract!TakeSlot
  <2> QED
    BY <2>1 DEF Refused, Abstract!Deny
<1>2. CASE L.pressure # "FailedClosed" /\ b = 0
  <2>1. r = FailAccounting(L) /\ a = Abstract!DenyBroken(View(L, T))
    BY <1>0, <1>2 DEF Reserve, Abstract!TakeSlot
  <2> QED
    BY <2>1, RefusedView
<1>3. CASE L.pressure # "FailedClosed" /\ b # 0 /\ L.used + b > Limit
  <2>1. r = CapacityReached(L) /\ a = Abstract!DenyOver(View(L, T))
    BY <1>0, <1>3 DEF Reserve, Abstract!TakeSlot
  <2>2. L.used > 0
    BY <1>0, <1>3, LimitAssumption, LedgerAssumption
  <2> QED
    BY <2>1, <2>2, RefusedView
<1>4. CASE L.pressure # "FailedClosed" /\ b # 0 /\ ~(L.used + b > Limit)
  <2>1. r = Done(W, L.nextId)
    BY <1>4 DEF Reserve
  <2>2. r.ok /\ r.id = L.nextId /\ r.ledger = W
    BY <2>1 DEF Done
  <2>3. /\ W.used = L.used + b /\ W.charges = t /\ W.nextId = L.nextId + 1
        /\ W.pressure = RefreshPressure(L.pressure, L.used + b) /\ Fresh(W)
    BY <1>0, WithUsageIs
  <2>4. Sound(W)
    BY <2>2, ReserveSound, ClassesAssumption DEF Good, Generations
  <2>5. L.nextId \in Nat \ {NoId} /\ L.nextId \notin DOMAIN L.charges
    BY <1>0, LedgerAssumption DEF Good, Sound, WellTyped, NoId
  <2>6. a.ok /\ a.budget = Abstract!Hold(View(L, T), c, k, b)
    BY <1>0, <1>4 DEF Abstract!TakeSlot, Abstract!Grant
  <2>7. L.used + b <= Limit
    BY <1>0, <1>4, LimitAssumption
  <2> HIDE DEF W, t
  <2> QED
    BY <1>4, <2>2, <2>3, <2>4, <2>5, <2>6, <2>7 DEF t
<1> QED
  BY <1>1, <1>2, <1>3, <1>4

(* An empty slot takes a reservation: TakeSlot. *)
LEMMA TakeDoes ==
    ASSUME NEW L, NEW T, Good(L, T), NEW c \in Owners, NEW k \in Slots, T[c][k] = NoId,
           NEW b \in 0 .. MaxRequest, L.nextId # IdMax,
           NEW r, r = Reserve(L, c, ClassOf[k], b, "current"),
           NEW a, a = Abstract!TakeSlot(View(L, T), c, k, b)
    PROVE  \/ /\ ~r.ok /\ ~a.ok /\ Good(r.ledger, T) /\ View(r.ledger, T) = a.budget
              /\ r.ledger.nextId = L.nextId
           \/ /\ r.ok /\ a.ok /\ r.id = L.nextId
              /\ Good(r.ledger, SetSlot(T, c, k, r.id))
              /\ View(r.ledger, SetSlot(T, c, k, r.id)) = a.budget
              /\ r.id \in DOMAIN r.ledger.charges /\ r.id \in Nat \ {NoId}
              /\ r.ledger.charges[r.id].bytes = b /\ r.ledger.charges[r.id].state = "Granted"
              /\ \A i \in DOMAIN L.charges :
                    i \in DOMAIN r.ledger.charges /\ r.ledger.charges[i] = L.charges[i] /\ i # r.id
              /\ r.ledger.nextId = L.nextId + 1 /\ Fresh(r.ledger) /\ b # 0
<1> DEFINE g == [owner |-> c, class |-> ClassOf[k], bytes |-> b, state |-> "Granted"]
           Refusal == /\ ~r.ok /\ ~a.ok /\ Good(r.ledger, T) /\ View(r.ledger, T) = a.budget
                      /\ r.ledger.nextId = L.nextId
           Grant == /\ r.ok /\ a.ok /\ r.id = L.nextId /\ b # 0
                    /\ a.budget = Abstract!Hold(View(L, T), c, k, b)
                    /\ r.id \in Nat \ {NoId} /\ r.id \notin DOMAIN L.charges
                    /\ Sound(r.ledger)
                    /\ r.ledger.used = L.used + b /\ r.ledger.nextId = L.nextId + 1
                    /\ r.ledger.charges = PutCharge(L.charges, r.id, g)
                    /\ r.ledger.pressure = RefreshPressure(L.pressure, L.used + b)
                    /\ Fresh(r.ledger)
<1>0. Refusal \/ Grant
  BY ReserveDoes
<1>1. CASE Refusal
  BY <1>1
<1>2. CASE Grant
  <2>1. Grant
    BY <1>2
  <2>2. g.owner = c /\ g.class = ClassOf[k] /\ g.bytes = b /\ g.state = "Granted"
    OBVIOUS
  <2> HIDE DEF g
  <2>3. /\ r.id \in DOMAIN r.ledger.charges /\ r.ledger.charges[r.id] = g
        /\ \A i \in DOMAIN L.charges :
              i \in DOMAIN r.ledger.charges /\ r.ledger.charges[i] = L.charges[i] /\ i # r.id
    BY <2>1 DEF PutCharge
  <2>4. Owns(r.ledger.charges, SetSlot(T, c, k, r.id))
    BY <2>1, <2>2, OwnsNew DEF Good
  <2>5. Bytes(r.ledger.charges, SetSlot(T, c, k, r.id)) = SetHeld(Bytes(L.charges, T), c, k, b)
    BY <2>1, <2>2, BytesNew DEF Good
  <2>6. L.used + b = (L.used - Bytes(L.charges, T)[c][k]) + b
    <3>1. Bytes(L.charges, T)[c][k] = 0 /\ L.used \in Int /\ b \in Int
      BY ViewIs, LimitAssumption, LedgerAssumption
    <3> QED
      BY <3>1
  <2>7. View(r.ledger, SetSlot(T, c, k, r.id)) = a.budget
    BY <2>1, <2>5, <2>6, HoldIs
  <2>8. Good(r.ledger, SetSlot(T, c, k, r.id))
    BY <2>1, <2>4 DEF Good
  <2> QED
    BY <2>1, <2>2, <2>3, <2>7, <2>8
<1> QED
  BY <1>0, <1>1, <1>2

(* A charge in a slot changes its size: ResizeSlot. *)
LEMMA ReplaceDoes ==
    ASSUME NEW L, NEW T, Good(L, T), NEW c \in Owners, NEW k \in Slots, T[c][k] # NoId,
           NEW b \in Nat, NEW s \in LiveStates,
           NEW r, r = ReplaceChargeBytes(L, T[c][k], b, s),
           NEW a, a = Abstract!ResizeSlot(View(L, T), c, k, b)
    PROVE  /\ Good(r.ledger, T) /\ View(r.ledger, T) = a.budget
           /\ r.ledger.nextId = L.nextId
           /\ \/ ~r.ok /\ ~a.ok
              \/ /\ r.ok /\ a.ok /\ b # 0 /\ Fresh(r.ledger)
                 /\ r.ledger.used = (L.used - Bytes(L.charges, T)[c][k]) + b
                 /\ r.ledger.pressure = RefreshPressure(L.pressure, r.ledger.used)
                 /\ DOMAIN r.ledger.charges = DOMAIN L.charges
                 /\ \A i \in DOMAIN L.charges :
                       i # T[c][k] => r.ledger.charges[i] = L.charges[i]
<1> DEFINE i == T[c][k]
           old == L.charges[i]
           u == (L.used - old.bytes) + b
           ch == [old EXCEPT !.bytes = b, !.state = s]
           t == PutCharge(L.charges, i, ch)
           W == WithUsage(L, u, t, L.nextId)
<1>0. /\ View(L, T).used = L.used /\ View(L, T).pressure = L.pressure
      /\ View(L, T).held = Bytes(L.charges, T) /\ Bytes(L.charges, T)[c][k] = old.bytes
      /\ L.used \in 0 .. Limit /\ L.pressure \in PressureStates
      /\ i \in DOMAIN L.charges /\ old.bytes \in 1 .. L.used
      /\ L.used \in Int /\ old.bytes \in Int /\ ~(old.bytes > L.used) /\ L.used > 0
  BY ViewIs, LimitAssumption, LedgerAssumption
<1>1. old \in Charge
  BY <1>0 DEF Good, Sound, WellTyped
<1>2. CASE b = 0
  <2>1. r = FailAccounting(L) /\ a = Abstract!DenyBroken(View(L, T))
    BY <1>2 DEF ReplaceChargeBytes, Abstract!ResizeSlot
  <2> QED
    BY <2>1, RefusedView
<1>3. CASE b # 0 /\ u > Limit
  <2>1. r = CapacityReached(L)
    BY <1>0, <1>3 DEF ReplaceChargeBytes
  <2>2. a = Abstract!DenyOver(View(L, T))
    BY <1>0, <1>3 DEF Abstract!ResizeSlot
  <2> QED
    BY <1>0, <2>1, <2>2, RefusedView
<1>4. CASE b # 0 /\ ~(u > Limit)
  <2>1. r = Done(W, i)
    BY <1>0, <1>4 DEF ReplaceChargeBytes
  <2>2. r.ok /\ r.ledger = W
    BY <2>1 DEF Done
  <2>3. /\ W.used = u /\ W.charges = t /\ W.nextId = L.nextId
        /\ W.pressure = RefreshPressure(L.pressure, u) /\ Fresh(W)
    <3>1. u \in Int
      BY <1>0
    <3> HIDE DEF u, t
    <3> QED
      BY <1>0, <3>1, WithUsageIs
  <2>4. Sound(W)
    BY <1>0, <2>2, ReplaceSound DEF Good
  <2>5. ch.owner = old.owner /\ ch.class = old.class /\ ch.bytes = b
    BY <1>1 DEF Charge
  <2>6. DOMAIN t = DOMAIN L.charges /\ \A j \in DOMAIN L.charges : j # i => t[j] = L.charges[j]
    BY <1>0 DEF PutCharge
  <2> HIDE DEF ch, W
  <2>7. Owns(t, T)
    BY <1>0, <2>5, OwnsChanged DEF Good
  <2>8. Bytes(t, T) = SetHeld(Bytes(L.charges, T), c, k, b)
    BY <2>5, BytesChanged DEF Good
  <2> HIDE DEF t
  <2>9. a.ok /\ a.budget = Abstract!Hold(View(L, T), c, k, b)
    BY <1>0, <1>4 DEF Abstract!ResizeSlot, Abstract!Grant
  <2>10. View(W, T) = a.budget
    BY <1>0, <2>3, <2>8, <2>9, HoldIs
  <2>11. Good(W, T)
    BY <2>3, <2>4, <2>7 DEF Good
  <2> QED
    BY <1>0, <1>4, <2>2, <2>3, <2>6, <2>9, <2>10, <2>11
<1> QED
  BY <1>2, <1>3, <1>4

LEMMA ResizeDoes ==
    ASSUME NEW L, NEW T, Good(L, T), NEW c \in Owners, NEW k \in Slots, T[c][k] # NoId,
           NEW b \in Nat,
           NEW r, r = Resize(L, T[c][k], b, "current"),
           NEW a, a = Abstract!ResizeSlot(View(L, T), c, k, b)
    PROVE  /\ Good(r.ledger, T) /\ View(r.ledger, T) = a.budget
           /\ (~r.ok /\ ~a.ok) \/ (r.ok /\ a.ok)
<1>1. T[c][k] \in DOMAIN L.charges
  BY ViewIs
<1>2. L.charges[T[c][k]].state \in LiveStates
  BY <1>1 DEF Good, Sound, WellTyped, Charge
<1>3. r = ReplaceChargeBytes(L, T[c][k], b, L.charges[T[c][k]].state)
  BY <1>1 DEF Resize, IsLive
<1> QED
  BY <1>2, <1>3, ReplaceDoes

(* A granted charge is committed at the size it was reserved with. *)
LEMMA CommitDoes ==
    ASSUME NEW L, NEW T, Good(L, T), NEW c \in Owners, NEW k \in Slots, T[c][k] # NoId,
           Fresh(L), NEW b \in Nat, L.charges[T[c][k]].bytes = b,
           L.charges[T[c][k]].state = "Granted",
           NEW r, r = Commit(L, T[c][k], b, "current")
    PROVE  /\ r.ok /\ Good(r.ledger, T) /\ View(r.ledger, T) = View(L, T)
           /\ r.ledger.nextId = L.nextId /\ Fresh(r.ledger)
           /\ DOMAIN r.ledger.charges = DOMAIN L.charges
           /\ \A i \in DOMAIN L.charges : i # T[c][k] => r.ledger.charges[i] = L.charges[i]
<1> DEFINE a == Abstract!ResizeSlot(View(L, T), c, k, b)
<1>1. /\ View(L, T).used = L.used /\ View(L, T).pressure = L.pressure
      /\ View(L, T).held = Bytes(L.charges, T) /\ Bytes(L.charges, T)[c][k] = b
      /\ L.used \in 0 .. Limit /\ L.used \in Int
      /\ T[c][k] \in DOMAIN L.charges /\ b \in 1 .. L.used
  BY ViewIs, LimitAssumption
<1>2. r = ReplaceChargeBytes(L, T[c][k], b, "InUse")
  BY <1>1 DEF Commit, IsLive
<1>3. a = Abstract!Grant(Abstract!Hold(View(L, T), c, k, b))
  <2>1. (L.used - b) + b = L.used /\ b # 0 /\ ~(L.used > Limit)
    BY <1>1, LimitAssumption
  <2> QED
    BY <1>1, <2>1 DEF Abstract!ResizeSlot
<1>4. a.ok /\ a.budget = Abstract!Hold(View(L, T), c, k, b)
  BY <1>3 DEF Abstract!Grant
<1> HIDE DEF a
<1>5. /\ r.ok /\ Good(r.ledger, T) /\ View(r.ledger, T) = a.budget
      /\ r.ledger.nextId = L.nextId /\ Fresh(r.ledger)
      /\ DOMAIN r.ledger.charges = DOMAIN L.charges
      /\ \A i \in DOMAIN L.charges : i # T[c][k] => r.ledger.charges[i] = L.charges[i]
  BY <1>2, <1>4, ReplaceDoes DEF a, LiveStates
<1>6. Abstract!Hold(View(L, T), c, k, b) = View(L, T)
  <2>1. (L.used - Bytes(L.charges, T)[c][k]) + b = L.used
    BY <1>1
  <2>2. Bytes(L.charges, T) = SetHeld(Bytes(L.charges, T), c, k, b)
    BY <1>1, BytesAre
  <2>3. L.pressure = RefreshPressure(L.pressure, L.used)
    BY DEF Fresh
  <2> QED
    BY <2>1, <2>2, <2>3, HoldIs
<1> QED
  BY <1>4, <1>5, <1>6

(* A slot in use is given back: DropSlot. *)
LEMMA ReleaseDoes ==
    ASSUME NEW L, NEW T, Good(L, T), NEW c \in Owners, NEW k \in Slots, T[c][k] # NoId,
           NEW r, r = Release(L, T[c][k], "current")
    PROVE  /\ r.ok /\ Good(r.ledger, SetSlot(T, c, k, NoId))
           /\ View(r.ledger, SetSlot(T, c, k, NoId)) = Abstract!Hold(View(L, T), c, k, 0)
           /\ Abstract!DropSlot(View(L, T), c, k).budget = Abstract!Hold(View(L, T), c, k, 0)
           /\ r.ledger.nextId = L.nextId
           /\ r.ledger.charges = DropCharge(L.charges, T[c][k])
           /\ r.ledger.used = L.used - L.charges[T[c][k]].bytes
           /\ r.ledger.pressure = RefreshPressure(L.pressure, r.ledger.used)
<1> DEFINE i == T[c][k]
           u == L.used - L.charges[i].bytes
           t == DropCharge(L.charges, i)
           W == WithUsage(L, u, t, L.nextId)
<1>0. /\ View(L, T).used = L.used /\ View(L, T).pressure = L.pressure
      /\ View(L, T).held = Bytes(L.charges, T)
      /\ Bytes(L.charges, T)[c][k] = L.charges[i].bytes
      /\ L.used \in 0 .. Limit /\ L.pressure \in PressureStates
      /\ i \in DOMAIN L.charges /\ L.charges[i].bytes \in 1 .. L.used
      /\ L.used \in Int /\ L.charges[i].bytes \in Int
      /\ ~(L.charges[i].bytes > L.used) /\ L.charges[i].bytes # 0
  BY ViewIs, LimitAssumption, LedgerAssumption
<1>1. r = Done(W, i)
  BY <1>0 DEF Release, IsLive
<1>2. r.ok /\ r.ledger = W
  BY <1>1 DEF Done
<1>3. /\ W.used = u /\ W.charges = t /\ W.nextId = L.nextId
      /\ W.pressure = RefreshPressure(L.pressure, u)
  BY <1>0, WithUsageIs
<1>4. Sound(W)
  BY <1>2, ReleaseSound DEF Good
<1> HIDE DEF W
<1>5. Owns(t, SetSlot(T, c, k, NoId))
  BY OwnsDropped DEF Good
<1>6. Bytes(t, SetSlot(T, c, k, NoId)) = SetHeld(Bytes(L.charges, T), c, k, 0)
  BY BytesDropped DEF Good
<1> HIDE DEF t
<1>7. View(W, SetSlot(T, c, k, NoId)) = Abstract!Hold(View(L, T), c, k, 0)
  <2>1. u = (L.used - Bytes(L.charges, T)[c][k]) + 0
    BY <1>0
  <2> QED
    BY <1>3, <1>6, <2>1, HoldIs
<1>8. Abstract!DropSlot(View(L, T), c, k).budget = Abstract!Hold(View(L, T), c, k, 0)
  BY <1>0 DEF Abstract!DropSlot, Abstract!Grant
<1>9. Good(W, SetSlot(T, c, k, NoId))
  BY <1>3, <1>4, <1>5 DEF Good
<1> QED
  BY <1>2, <1>3, <1>7, <1>8, <1>9 DEF t

-----------------------------------------------------------------------------
(* The transactions of a connection.                                       *)

Place(T, c, S) == [T EXCEPT ![c] = S]

(* The result r of a transaction of c leaves what the budget sees as B. *)
Keeps(r, T, c, B) ==
    Good(r.ledger, Place(T, c, r.slots)) /\ View(r.ledger, Place(T, c, r.slots)) = B

Paired(S) == S["upstream"] = NoId <=> S["retry"] = NoId

LEMMA PlaceIs ==
    ASSUME NEW T \in [Owners -> [Slots -> Nat]], NEW c \in Owners
    PROVE  /\ Place(T, c, T[c]) = T
           /\ \A k \in Slots, i \in Nat :
                 /\ Place(T, c, [T[c] EXCEPT ![k] = i]) = SetSlot(T, c, k, i)
                 /\ SetSlot(T, c, k, i) \in [Owners -> [Slots -> Nat]]
                 /\ SetSlot(T, c, k, i)[c] = [T[c] EXCEPT ![k] = i]
                 /\ [T[c] EXCEPT ![k] = i][k] = i
                 /\ \A m \in Slots : m # k => [T[c] EXCEPT ![k] = i][m] = T[c][m]
           /\ \A S \in [Slots -> Nat] :
                 Place(T, c, S) \in [Owners -> [Slots -> Nat]] /\ Place(T, c, S)[c] = S
<1>1. Place(T, c, T[c]) = T
  BY DEF Place
<1>2. ASSUME NEW k \in Slots, NEW i \in Nat
      PROVE  /\ Place(T, c, [T[c] EXCEPT ![k] = i]) = SetSlot(T, c, k, i)
             /\ SetSlot(T, c, k, i) \in [Owners -> [Slots -> Nat]]
             /\ SetSlot(T, c, k, i)[c] = [T[c] EXCEPT ![k] = i]
             /\ [T[c] EXCEPT ![k] = i][k] = i
             /\ \A m \in Slots : m # k => [T[c] EXCEPT ![k] = i][m] = T[c][m]
  BY DEF Place, SetSlot
<1>3. ASSUME NEW S \in [Slots -> Nat]
      PROVE  Place(T, c, S) \in [Owners -> [Slots -> Nat]] /\ Place(T, c, S)[c] = S
  BY DEF Place
<1> QED
  BY <1>1, <1>2, <1>3

LEMMA PlaceTwice ==
    ASSUME NEW T \in [Owners -> [Slots -> Nat]], NEW c \in Owners, NEW S, NEW U
    PROVE  Place(Place(T, c, S), c, U) = Place(T, c, U)
  BY DEF Place

LEMMA SlotBytesAre ==
    ASSUME NEW L, NEW T, NEW c \in Owners, NEW k \in Slots
    PROVE  SlotBytes(L, T[c], k) = Bytes(L.charges, T)[c][k]
  BY DEF SlotBytes, IsLive, Bytes

(* The slots stay as they are. *)
LEMMA SlotsKept ==
    ASSUME NEW T, NEW c \in Owners, NEW r, r.slots = T[c], Good(r.ledger, T)
    PROVE  Keeps(r, T, c, View(r.ledger, T))
<1>1. T \in [Owners -> [Slots -> Nat]]
  BY DEF Good, Owns
<1>2. Place(T, c, r.slots) = T
  BY <1>1 DEF Place
<1> QED
  BY <1>2 DEF Keeps

(* payload_charge_slot::release *)
LEMMA ReleaseSlotDoes ==
    ASSUME NEW L, NEW T, Good(L, T), NEW c \in Owners, NEW k \in Slots,
           NEW r, r = ReleaseSlot(L, T[c], k)
    PROVE  /\ r.ok /\ r.slots = [T[c] EXCEPT ![k] = NoId] /\ r.slots \in [Slots -> Nat]
           /\ Keeps(r, T, c, Abstract!DropSlot(View(L, T), c, k).budget)
<1>1. T \in [Owners -> [Slots -> Nat]] /\ NoId \in Nat
  BY DEF Good, Owns, NoId
<1>2. CASE T[c][k] = NoId
  <2>1. r = Result(TRUE, L, T[c])
    BY <1>2 DEF ReleaseSlot
  <2>2. Abstract!DropSlot(View(L, T), c, k).budget = View(L, T)
    BY <1>2, ViewIs DEF Abstract!DropSlot, Abstract!Grant
  <2>3. r.ok /\ r.slots = T[c] /\ r.ledger = L
    BY <2>1 DEF Result
  <2>4. T[c] = [T[c] EXCEPT ![k] = NoId] /\ T[c] \in [Slots -> Nat]
    BY <1>1, <1>2
  <2> QED
    BY <2>2, <2>3, <2>4, SlotsKept
<1>3. CASE T[c][k] # NoId
  <2> DEFINE q == Release(L, T[c][k], "current")
             U == [T[c] EXCEPT ![k] = NoId]
  <2>1. /\ q.ok /\ Good(q.ledger, SetSlot(T, c, k, NoId))
        /\ View(q.ledger, SetSlot(T, c, k, NoId)) =
              Abstract!DropSlot(View(L, T), c, k).budget
    BY <1>3, ReleaseDoes
  <2>2. r = Result(q.ok, q.ledger, U)
    BY <1>3, <2>1 DEF ReleaseSlot
  <2> HIDE DEF q
  <2>3. r.ok /\ r.slots = U /\ r.ledger = q.ledger
    BY <2>1, <2>2 DEF Result
  <2>4. Place(T, c, U) = SetSlot(T, c, k, NoId) /\ U \in [Slots -> Nat]
    BY <1>1, PlaceIs
  <2> QED
    BY <2>1, <2>3, <2>4 DEF Keeps
<1> QED
  BY <1>2, <1>3

(* request_payload_charge::grow *)
LEMMA GrowRequestDoes ==
    ASSUME NEW L, NEW T, Good(L, T), NEW c \in Owners, NEW n \in 0 .. MaxRequest,
           L.nextId # IdMax,
           NEW r, r = GrowRequest(L, T[c], c, n)
    PROVE  /\ Keeps(r, T, c, Abstract!BudgetGrowRequest(View(L, T), c, n).budget)
           /\ r.slots["upstream"] = T[c]["upstream"] /\ r.slots["retry"] = T[c]["retry"]
<1> DEFINE B == View(L, T)
           k == "request"
           a == Abstract!BudgetGrowRequest(B, c, n)
<1>0. /\ k \in Slots /\ B.held = Bytes(L.charges, T) /\ n \in Nat
      /\ T \in [Owners -> [Slots -> Nat]]
      /\ T[c][k] = NoId => Bytes(L.charges, T)[c][k] = 0
      /\ T[c][k] # NoId =>
            /\ T[c][k] \in DOMAIN L.charges
            /\ Bytes(L.charges, T)[c][k] = L.charges[T[c][k]].bytes
            /\ Bytes(L.charges, T)[c][k] # 0 /\ Bytes(L.charges, T)[c][k] \in Nat
  BY ViewIs, LimitAssumption, LedgerAssumption DEF Slots
<1>1. CASE n = 0
  <2>1. r.ledger = L /\ r.slots = T[c] /\ a.budget = B
    BY <1>1 DEF GrowRequest, Result, Abstract!BudgetGrowRequest, Abstract!Grant
  <2> QED
    BY <2>1, SlotsKept
<1>2. CASE n # 0 /\ T[c][k] # NoId
  <2> DEFINE b == Bytes(L.charges, T)[c][k] + n
             q == Resize(L, T[c][k], b, "current")
  <2>1. Grow(L, T[c][k], n, "current") = q
    BY <1>0, <1>2 DEF Grow, IsLive
  <2>2. r.ledger = q.ledger /\ r.slots = T[c]
    BY <1>2, <2>1 DEF GrowRequest, Result
  <2>3. a = Abstract!ResizeSlot(B, c, k, b)
    BY <1>0, <1>2 DEF Abstract!BudgetGrowRequest
  <2>4. b \in Nat
    BY <1>0, <1>2
  <2> HIDE DEF b
  <2>5. Good(q.ledger, T) /\ View(q.ledger, T) = a.budget
    BY <1>0, <1>2, <2>3, <2>4, ResizeDoes
  <2> HIDE DEF q
  <2> QED
    BY <2>2, <2>5, SlotsKept
<1>3. CASE n # 0 /\ T[c][k] = NoId
  <2> DEFINE q == Reserve(L, c, ClassOf[k], n, "current")
  <2>1. r = Install(q, T[c], k)
    BY <1>3 DEF GrowRequest
  <2>2. a = Abstract!TakeSlot(B, c, k, n)
    BY <1>0, <1>3 DEF Abstract!BudgetGrowRequest
  <2>3. \/ ~q.ok /\ Good(q.ledger, T) /\ View(q.ledger, T) = a.budget
        \/ /\ q.ok /\ q.id \in Nat /\ Good(q.ledger, SetSlot(T, c, k, q.id))
           /\ View(q.ledger, SetSlot(T, c, k, q.id)) = a.budget
    BY <1>0, <1>3, <2>2, TakeDoes
  <2> HIDE DEF q
  <2>4. CASE ~q.ok
    <3>1. r.ledger = q.ledger /\ r.slots = T[c]
      BY <2>1, <2>4 DEF Install, Result
    <3> QED
      BY <2>3, <2>4, <3>1, SlotsKept
  <2>5. CASE q.ok
    <3>1. r.ledger = q.ledger /\ r.slots = [T[c] EXCEPT ![k] = q.id]
      BY <2>1, <2>5 DEF Install, Result
    <3>2. /\ Place(T, c, r.slots) = SetSlot(T, c, k, q.id)
          /\ \A m \in Slots : m # k => r.slots[m] = T[c][m]
      BY <1>0, <2>3, <2>5, <3>1, PlaceIs
    <3> QED
      BY <2>3, <2>5, <3>1, <3>2 DEF Keeps, Slots
  <2> QED
    BY <2>4, <2>5
<1> QED
  BY <1>1, <1>2, <1>3

(* A result with another identity, or another verdict, is otherwise the same. *)
LEMMA CommitRecord ==
    ASSUME NEW L, NEW i, NEW b, NEW x,
           NEW q, q = Commit(L, i, b, "current"), NEW p, p = [q EXCEPT !.id = x]
    PROVE  (q.ok => p.ok) /\ p.id = x /\ p.ledger = q.ledger
  BY DEF Commit, ReplaceChargeBytes, FailAccounting, CapacityReached, Refused, Done

LEMMA ReleaseRecord ==
    ASSUME NEW L, NEW S, NEW k,
           NEW q, q = ReleaseSlot(L, S, k), NEW p, p = [q EXCEPT !.ok = FALSE]
    PROVE  ~p.ok /\ p.ledger = q.ledger /\ p.slots = q.slots
  BY DEF ReleaseSlot, Result

(* payload_charge_slot::sync *)
LEMMA SyncDoes ==
    ASSUME NEW L, NEW T, Good(L, T), NEW c \in Owners, NEW k \in SyncedSlots,
           NEW n \in 0 .. MaxRequest, L.nextId # IdMax,
           NEW r, r = SyncSlot(L, T[c], c, k, n)
    PROVE  /\ Keeps(r, T, c, Abstract!BudgetSync(View(L, T), c, k, n).budget)
           /\ r.slots["upstream"] = T[c]["upstream"] /\ r.slots["retry"] = T[c]["retry"]
<1> DEFINE B == View(L, T)
           a == Abstract!BudgetSync(B, c, k, n)
           held == Bytes(L.charges, T)[c][k]
<1>0. /\ k \in Slots /\ "upstream" \in Slots /\ "retry" \in Slots
      /\ k # "upstream" /\ k # "retry"
      /\ B.held = Bytes(L.charges, T) /\ n \in Nat /\ NoId \in Nat
      /\ T \in [Owners -> [Slots -> Nat]]
      /\ T[c][k] = NoId => held = 0
      /\ T[c][k] # NoId => held # 0
      /\ SlotBytes(L, T[c], k) = held
  <2>1. /\ k \in Slots /\ "upstream" \in Slots /\ "retry" \in Slots
        /\ k # "upstream" /\ k # "retry"
    BY DEF Slots, SyncedSlots
  <2>2. n \in Nat /\ NoId \in Nat
    BY LedgerAssumption DEF NoId
  <2>3. SlotBytes(L, T[c], k) = held
    BY <2>1, SlotBytesAre
  <2> QED
    BY <2>1, <2>2, <2>3, ViewIs
<1>1. CASE held = n
  <2>1. r.ledger = L /\ r.slots = T[c] /\ a.budget = B
    BY <1>0, <1>1 DEF SyncSlot, Result, Abstract!BudgetSync, Abstract!Grant
  <2> QED
    BY <2>1, SlotsKept
<1>2. CASE held # n /\ n = 0
  <2>1. r = ReleaseSlot(L, T[c], k)
    BY <1>0, <1>2 DEF SyncSlot
  <2>2. a = Abstract!DropSlot(B, c, k)
    BY <1>0, <1>2 DEF Abstract!BudgetSync
  <2>3. r.slots = [T[c] EXCEPT ![k] = NoId] /\ Keeps(r, T, c, a.budget)
    BY <1>0, <2>1, <2>2, ReleaseSlotDoes
  <2> QED
    BY <1>0, <2>3
<1>3. CASE held # n /\ n # 0 /\ T[c][k] # NoId
  <2> DEFINE q == Resize(L, T[c][k], n, "current")
  <2>1. r.ledger = q.ledger /\ r.slots = T[c]
    BY <1>0, <1>3 DEF SyncSlot, Result
  <2>2. a = Abstract!ResizeSlot(B, c, k, n)
    BY <1>0, <1>3 DEF Abstract!BudgetSync
  <2>3. Good(q.ledger, T) /\ View(q.ledger, T) = a.budget
    BY <1>0, <1>3, <2>2, ResizeDoes
  <2> HIDE DEF q
  <2> QED
    BY <2>1, <2>3, SlotsKept
<1>4. CASE held # n /\ n # 0 /\ T[c][k] = NoId
  <2> DEFINE p == Reserve(L, c, ClassOf[k], n, "current")
             q == Commit(p.ledger, p.id, n, "current")
             U == SetSlot(T, c, k, p.id)
  <2>1. /\ ~p.ok => r.ledger = p.ledger /\ r.slots = T[c]
        /\ p.ok /\ q.ok => r = Install([q EXCEPT !.id = p.id], T[c], k)
    BY <1>0, <1>4 DEF SyncSlot, Result
  <2>2. a = Abstract!TakeSlot(B, c, k, n)
    BY <1>0, <1>4 DEF Abstract!BudgetSync
  <2>3. \/ ~p.ok /\ Good(p.ledger, T) /\ View(p.ledger, T) = a.budget
        \/ /\ p.ok /\ p.id \in Nat \ {NoId} /\ Good(p.ledger, U) /\ Fresh(p.ledger)
           /\ View(p.ledger, U) = a.budget
           /\ p.ledger.charges[p.id].bytes = n /\ p.ledger.charges[p.id].state = "Granted"
    BY <1>0, <1>4, <2>2, TakeDoes
  <2> HIDE DEF p
  <2>4. CASE ~p.ok
    BY <2>1, <2>3, <2>4, SlotsKept
  <2>5. CASE p.ok
    <3>1. /\ U[c] = [T[c] EXCEPT ![k] = p.id] /\ U[c][k] = p.id
          /\ Place(T, c, U[c]) = U
          /\ \A m \in Slots : m # k => U[c][m] = T[c][m]
      BY <1>0, <2>3, <2>5, PlaceIs
    <3> HIDE DEF U
    <3>2. q.ok /\ Good(q.ledger, U) /\ View(q.ledger, U) = a.budget
      BY <1>0, <2>3, <2>5, <3>1, CommitDoes
    <3> DEFINE x == [q EXCEPT !.id = p.id]
    <3>3. x.ok /\ x.id = p.id /\ x.ledger = q.ledger
      BY <3>2, CommitRecord
    <3>4. r = Install(x, T[c], k)
      BY <2>1, <2>5, <3>2
    <3> HIDE DEF q, x
    <3>5. r.ledger = q.ledger /\ r.slots = U[c]
      BY <3>1, <3>3, <3>4 DEF Install, Result
    <3> QED
      BY <1>0, <3>1, <3>2, <3>5 DEF Keeps
  <2> QED
    BY <2>4, <2>5
<1> QED
  BY <1>1, <1>2, <1>3, <1>4

(* client_response_charge_transaction::resize_in_use *)
LEMMA ShrinkDoes ==
    ASSUME NEW L, NEW T, Good(L, T), NEW c \in Owners, NEW n \in 0 .. MaxRequest,
           NEW r, r = ShrinkResponse(L, T[c], n)
    PROVE  /\ Keeps(r, T, c, Abstract!BudgetShrinkResponse(View(L, T), c, n).budget)
           /\ r.slots["upstream"] = T[c]["upstream"] /\ r.slots["retry"] = T[c]["retry"]
<1> DEFINE B == View(L, T)
           k == "response"
           a == Abstract!BudgetShrinkResponse(B, c, n)
<1>0. /\ k \in Slots /\ "upstream" \in Slots /\ "retry" \in Slots
      /\ B.held = Bytes(L.charges, T) /\ n \in Nat /\ NoId \in Nat
      /\ T \in [Owners -> [Slots -> Nat]]
      /\ T[c][k] = NoId => B.held[c][k] = 0
      /\ T[c][k] # NoId => B.held[c][k] # 0
  BY ViewIs, LedgerAssumption DEF Slots, NoId
<1>1. CASE T[c][k] = NoId
  <2>1. r.ledger = FailAccounting(L).ledger /\ r.slots = T[c]
    BY <1>1 DEF ShrinkResponse, Result
  <2>2. a = Abstract!DenyBroken(B)
    BY <1>0, <1>1 DEF Abstract!BudgetShrinkResponse
  <2> QED
    BY <2>1, <2>2, RefusedView, SlotsKept
<1>2. CASE T[c][k] # NoId /\ n = 0
  <2>1. r = ReleaseSlot(L, T[c], k)
    BY <1>2 DEF ShrinkResponse
  <2>2. a = Abstract!DropSlot(B, c, k)
    BY <1>0, <1>2 DEF Abstract!BudgetShrinkResponse
  <2>3. r.slots = [T[c] EXCEPT ![k] = NoId] /\ Keeps(r, T, c, a.budget)
    BY <1>0, <2>1, <2>2, ReleaseSlotDoes
  <2> QED
    BY <1>0, <2>3
<1>3. CASE T[c][k] # NoId /\ n # 0
  <2> DEFINE q == Resize(L, T[c][k], n, "current")
  <2>1. r.ledger = q.ledger /\ r.slots = T[c]
    BY <1>3 DEF ShrinkResponse, Result
  <2>2. a = Abstract!ResizeSlot(B, c, k, n)
    BY <1>0, <1>3 DEF Abstract!BudgetShrinkResponse
  <2>3. Good(q.ledger, T) /\ View(q.ledger, T) = a.budget
    BY <1>0, <1>3, <2>2, ResizeDoes
  <2> HIDE DEF q
  <2> QED
    BY <2>1, <2>3, SlotsKept
<1> QED
  BY <1>1, <1>2, <1>3

LEMMA HoldFields ==
    ASSUME NEW L, NEW T, Good(L, T), NEW c \in Owners, NEW k \in Slots, NEW n \in Nat,
           NEW h, h = Abstract!Hold(View(L, T), c, k, n)
    PROVE  /\ h.used = (L.used - Bytes(L.charges, T)[c][k]) + n
           /\ h.held[c][k] = n
           /\ h.pressure = RefreshPressure(L.pressure, h.used)
           /\ h.held = SetHeld(Bytes(L.charges, T), c, k, n)
           /\ \A m \in Slots : m # k => h.held[c][m] = Bytes(L.charges, T)[c][m]
  BY SameRefresh DEF Abstract!Hold, View, SetHeld, Bytes

(* The response charge of a handler, committed or rolled back. *)
LEMMA SetResponseDoes ==
    ASSUME NEW L, NEW T, Good(L, T), NEW c \in Owners, NEW n \in 0 .. MaxRequest,
           NEW allocated \in BOOLEAN, L.nextId # IdMax,
           NEW r, r = SetResponse(L, T[c], c, n, allocated)
    PROVE  /\ Keeps(r, T, c, Abstract!BudgetSetResponse(View(L, T), c, n, allocated).budget)
           /\ r.slots["upstream"] = T[c]["upstream"] /\ r.slots["retry"] = T[c]["retry"]
<1> DEFINE B == View(L, T)
           k == "response"
           held == Bytes(L.charges, T)[c][k]
           a == Abstract!BudgetSetResponse(B, c, n, allocated)
           x == PrepareResponse(L, T[c], c, n)
<1>0. /\ k \in Slots /\ "upstream" \in Slots /\ "retry" \in Slots
      /\ n \in Nat /\ NoId \in Nat
      /\ T \in [Owners -> [Slots -> Nat]] /\ L.used \in 0 .. Limit
      /\ SlotBytes(L, T[c], k) = held /\ B.held[c][k] = held
      /\ T[c][k] = NoId => held = 0
      /\ T[c][k] # NoId => held \in Nat \ {0}
  <2>1. /\ k \in Slots /\ "upstream" \in Slots /\ "retry" \in Slots
    BY DEF Slots
  <2>2. n \in Nat /\ NoId \in Nat
    BY LedgerAssumption DEF NoId
  <2>3. SlotBytes(L, T[c], k) = held
    BY <2>1, SlotBytesAre
  <2> QED
    BY <2>1, <2>2, <2>3, ViewIs
<1>1. /\ ~x.ok => r = x
      /\ x.ok /\ allocated => r = CommitResponse(x.ledger, x.slots, held, n)
      /\ x.ok /\ ~allocated => r = RollbackResponse(x.ledger, x.slots, held)
  BY <1>0 DEF SetResponse
<1>2. CASE T[c][k] # NoId
  <2> DEFINE p == Resize(L, T[c][k], n, "current")
             taken == Abstract!ResizeSlot(B, c, k, n)
  <2>1. x = Result(p.ok, p.ledger, T[c])
    BY <1>2 DEF PrepareResponse
  <2>2. a = Abstract!SettleResponse(taken, c, held, allocated)
    BY <1>0, <1>2 DEF Abstract!BudgetSetResponse
  <2>3. /\ Good(p.ledger, T) /\ View(p.ledger, T) = taken.budget
        /\ (~p.ok /\ ~taken.ok) \/ (p.ok /\ taken.ok)
    BY <1>0, <1>2, ResizeDoes
  <2>4. taken.ok => taken.budget = Abstract!Hold(B, c, k, n)
    BY DEF Abstract!ResizeSlot, Abstract!Grant, Abstract!Deny, Abstract!DenyBroken,
           Abstract!DenyOver
  <2> HIDE DEF p, taken
  <2>5. (x.ok <=> p.ok) /\ x.ledger = p.ledger /\ x.slots = T[c]
    BY <2>1 DEF Result
  <2>6. CASE ~p.ok
    <3>1. a = taken /\ r = x
      BY <1>1, <2>2, <2>3, <2>5, <2>6 DEF Abstract!SettleResponse
    <3> QED
      BY <2>3, <2>5, <3>1, SlotsKept
  <2>7. CASE p.ok /\ allocated
    <3>1. a = taken
      BY <2>2, <2>3, <2>7 DEF Abstract!SettleResponse
    <3>2. r = CommitResponse(p.ledger, T[c], held, n)
      BY <1>1, <2>5, <2>7
    <3>3. r.ledger = p.ledger /\ r.slots = T[c]
      BY <1>0, <1>2, <3>2 DEF CommitResponse, Result
    <3> QED
      BY <2>3, <3>1, <3>3, SlotsKept
  <2>8. CASE p.ok /\ ~allocated
    <3> DEFINE z == Resize(p.ledger, T[c][k], held, "current")
               back == Abstract!ResizeSlot(View(p.ledger, T), c, k, held)
    <3>1. a = Abstract!Deny(Abstract!Hold(taken.budget, c, k, held))
      BY <2>2, <2>3, <2>8 DEF Abstract!SettleResponse
    <3>2. r.ledger = z.ledger /\ r.slots = T[c]
      BY <1>0, <1>1, <1>2, <2>5, <2>8 DEF RollbackResponse, Result
    <3>3. Good(z.ledger, T) /\ View(z.ledger, T) = back.budget
      BY <1>0, <1>2, <2>3, ResizeDoes
    <3>4. back.budget = Abstract!Hold(View(p.ledger, T), c, k, held)
      <4> DEFINE V == View(p.ledger, T)
      <4>1. V.used = (L.used - held) + n /\ V.held[c][k] = n
        BY <1>0, <2>3, <2>4, <2>8, HoldFields
      <4>2. held # 0 /\ ~((V.used - V.held[c][k]) + held > Limit)
        BY <1>0, <1>2, <4>1, LimitAssumption
      <4> HIDE DEF V
      <4> QED
        BY <4>2 DEF V, Abstract!ResizeSlot, Abstract!Grant
    <3>5. a.budget = View(z.ledger, T)
      BY <2>3, <3>1, <3>3, <3>4 DEF Abstract!Deny
    <3> HIDE DEF z
    <3> QED
      BY <3>2, <3>3, <3>5, SlotsKept
  <2> QED
    BY <2>6, <2>7, <2>8
<1>3. CASE T[c][k] = NoId
  <2> DEFINE p == Reserve(L, c, ClassOf[k], n, "current")
             taken == Abstract!TakeSlot(B, c, k, n)
             U == SetSlot(T, c, k, p.id)
  <2>1. x = Install(p, T[c], k)
    BY <1>3 DEF PrepareResponse
  <2>2. a = Abstract!SettleResponse(taken, c, 0, allocated) /\ held = 0
    BY <1>0, <1>3 DEF Abstract!BudgetSetResponse
  <2>3. \/ /\ ~p.ok /\ ~taken.ok /\ Good(p.ledger, T) /\ View(p.ledger, T) = taken.budget
        \/ /\ p.ok /\ taken.ok /\ p.id \in Nat \ {NoId} /\ Good(p.ledger, U)
           /\ Fresh(p.ledger) /\ View(p.ledger, U) = taken.budget
           /\ p.ledger.charges[p.id].bytes = n /\ p.ledger.charges[p.id].state = "Granted"
    BY <1>0, <1>3, TakeDoes
  <2> HIDE DEF p, taken
  <2>4. CASE ~p.ok
    <3>1. ~x.ok /\ x.ledger = p.ledger /\ x.slots = T[c]
      BY <2>1, <2>4 DEF Install, Result
    <3>2. a = taken /\ r = x
      BY <1>1, <2>2, <2>3, <2>4, <3>1 DEF Abstract!SettleResponse
    <3> QED
      BY <2>3, <2>4, <3>1, <3>2, SlotsKept
  <2>5. CASE p.ok
    <3>1. /\ U[c] = [T[c] EXCEPT ![k] = p.id] /\ U[c][k] = p.id
          /\ Place(T, c, U[c]) = U /\ U[c] \in [Slots -> Nat]
          /\ U \in [Owners -> [Slots -> Nat]]
          /\ \A m \in Slots : m # k => U[c][m] = T[c][m]
          /\ \A S : Place(U, c, S) = Place(T, c, S)
      <4>1. U \in [Owners -> [Slots -> Nat]] /\ U[c] = [T[c] EXCEPT ![k] = p.id]
            /\ Place(T, c, U[c]) = U /\ U[c][k] = p.id
            /\ \A m \in Slots : m # k => U[c][m] = T[c][m]
        BY <1>0, <2>3, <2>5, PlaceIs
      <4> HIDE DEF U
      <4>2. U[c] \in [Slots -> Nat]
        BY <4>1
      <4>3. \A S : Place(Place(T, c, U[c]), c, S) = Place(T, c, S)
        BY <1>0, PlaceTwice
      <4> QED
        BY <4>1, <4>2, <4>3
    <3>2. x.ok /\ x.ledger = p.ledger /\ x.slots = U[c]
      BY <2>1, <2>5, <3>1 DEF Install, Result
    <3>0. /\ taken.ok /\ Good(p.ledger, U) /\ Fresh(p.ledger)
          /\ View(p.ledger, U) = taken.budget /\ U[c][k] # NoId
          /\ p.ledger.charges[U[c][k]].bytes = n
          /\ p.ledger.charges[U[c][k]].state = "Granted"
      BY <2>3, <2>5, <3>1
    <3> HIDE DEF U
    <3>3. CASE allocated
      <4> DEFINE q == Commit(p.ledger, U[c][k], n, "current")
      <4>1. q.ok /\ Good(q.ledger, U) /\ View(q.ledger, U) = taken.budget
        BY <1>0, <3>0, CommitDoes
      <4>0. r = CommitResponse(p.ledger, U[c], held, n)
        BY <1>1, <3>2, <3>3
      <4>2. r.ledger = q.ledger /\ r.slots = U[c]
        BY <2>2, <4>0 DEF CommitResponse, Result
      <4>3. a = taken
        BY <2>2, <2>3, <2>5, <3>3 DEF Abstract!SettleResponse
      <4> HIDE DEF q
      <4> QED
        BY <1>0, <3>1, <4>1, <4>2, <4>3 DEF Keeps
    <3>4. CASE ~allocated
      <4> DEFINE z == ReleaseSlot(p.ledger, U[c], k)
      <4>1. a = Abstract!Deny(Abstract!Hold(taken.budget, c, k, 0))
        BY <2>2, <2>3, <2>5, <3>4 DEF Abstract!SettleResponse
      <4>2. r = [z EXCEPT !.ok = FALSE]
        BY <1>1, <2>2, <3>2, <3>4 DEF RollbackResponse
      <4>3. r.ledger = z.ledger /\ r.slots = z.slots
        BY <4>2, ReleaseRecord
      <4>4. /\ z.slots = [U[c] EXCEPT ![k] = NoId]
            /\ Keeps(z, U, c, Abstract!DropSlot(View(p.ledger, U), c, k).budget)
        <5>1. z = ReleaseSlot(p.ledger, U[c], k)
          OBVIOUS
        <5>2. k \in Slots
          BY <1>0
        <5> HIDE DEF z, k
        <5> QED
          BY <3>0, <5>1, <5>2, ReleaseSlotDoes
      <4>5. Abstract!DropSlot(View(p.ledger, U), c, k).budget =
               Abstract!Hold(View(p.ledger, U), c, k, 0)
        BY <1>0, <3>0, ReleaseDoes
      <4> HIDE DEF z
      <4>6. Keeps(z, U, c, a.budget)
        BY <2>3, <2>5, <4>1, <4>4, <4>5 DEF Abstract!Deny
      <4>7. Keeps(r, T, c, a.budget)
        BY <3>1, <4>3, <4>6 DEF Keeps
      <4> QED
        BY <1>0, <3>1, <4>3, <4>4, <4>7
    <3> QED
      BY <3>3, <3>4
  <2> QED
    BY <2>4, <2>5
<1> QED
  BY <1>2, <1>3

(* The charges of a routed request: both are taken, or none. *)
LEMMA TakePairDoes ==
    ASSUME NEW L, NEW T, Good(L, T), NEW c \in Owners,
           NEW u \in 0 .. MaxRequest, NEW t \in 0 .. MaxRequest,
           NEW allocated \in BOOLEAN, L.nextId + 2 <= IdMax, Paired(T[c]),
           NEW r, r = TakePair(L, T[c], c, u, t, allocated)
    PROVE  /\ Keeps(r, T, c, Abstract!BudgetTakePair(View(L, T), c, u, t, allocated).budget)
           /\ Paired(r.slots)
<1> DEFINE B == View(L, T)
           up == "upstream"
           rt == "retry"
           a == Abstract!BudgetTakePair(B, c, u, t, allocated)
           x == ReservePair(L, T[c], c, u, t)
           p == Reserve(L, c, ClassOf[up], u, "current")
           first == Abstract!TakeSlot(B, c, up, u)
           U == SetSlot(T, c, up, p.id)
<1>0. /\ up \in Slots /\ rt \in Slots /\ up # rt /\ u \in Nat /\ t \in Nat /\ NoId \in Nat
      /\ T \in [Owners -> [Slots -> Nat]]
      /\ (T[c][up] = NoId => B.held[c][up] = 0) /\ (T[c][up] # NoId => B.held[c][up] # 0)
      /\ (T[c][rt] = NoId => B.held[c][rt] = 0) /\ (T[c][rt] # NoId => B.held[c][rt] # 0)
      /\ L.nextId \in Nat /\ L.nextId # IdMax /\ L.nextId + 1 # IdMax
  <2>1. up \in Slots /\ rt \in Slots /\ up # rt
    BY DEF Slots
  <2>2. u \in Nat /\ t \in Nat /\ NoId \in Nat /\ IdMax \in Nat
    BY LedgerAssumption DEF NoId
  <2>3. L.nextId \in Nat /\ L.nextId # IdMax /\ L.nextId + 1 # IdMax
    BY <2>2, ViewIs
  <2> QED
    BY <2>1, <2>2, <2>3, ViewIs
<1>1. /\ ~x.ok => r = x
      /\ x.ok /\ allocated => r = CommitPair(x.ledger, x.slots, u, t)
      /\ x.ok /\ ~allocated => r = ReleasePair(x.ledger, x.slots)
  BY DEF TakePair
<1>2. CASE T[c][up] # NoId \/ T[c][rt] # NoId
  <2>1. ~x.ok /\ x.ledger = FailAccounting(L).ledger /\ x.slots = T[c]
    BY <1>2 DEF ReservePair, Result
  <2>2. a = Abstract!DenyBroken(B)
    BY <1>0, <1>2 DEF Abstract!BudgetTakePair
  <2>3. r = x
    BY <1>1, <2>1
  <2> HIDE DEF x
  <2> QED
    BY <2>1, <2>2, <2>3, RefusedView, SlotsKept
<1>3. CASE T[c][up] = NoId /\ T[c][rt] = NoId
  <2> DEFINE q == Reserve(p.ledger, c, ClassOf[rt], t, "current")
             second == Abstract!TakeSlot(first.budget, c, rt, t)
             V == SetSlot(U, c, rt, q.id)
  <2>1. /\ ~p.ok => ~x.ok /\ x.ledger = p.ledger /\ x.slots = T[c]
        /\ p.ok /\ ~q.ok => /\ ~x.ok /\ x.slots = T[c]
                            /\ x.ledger = Release(q.ledger, p.id, "current").ledger
        /\ p.ok /\ q.ok => /\ x.ok /\ x.ledger = q.ledger
                           /\ x.slots = [T[c] EXCEPT ![up] = p.id, ![rt] = q.id]
    BY <1>3 DEF ReservePair, Result
  <2>2. a = Abstract!TakeSecond(first, c, t, allocated)
    BY <1>0, <1>3 DEF Abstract!BudgetTakePair
  <2>3. \/ /\ ~p.ok /\ ~first.ok /\ Good(p.ledger, T) /\ View(p.ledger, T) = first.budget
        \/ /\ p.ok /\ first.ok /\ p.id \in Nat \ {NoId} /\ Good(p.ledger, U)
           /\ Fresh(p.ledger) /\ View(p.ledger, U) = first.budget
           /\ p.id \in DOMAIN p.ledger.charges /\ p.ledger.nextId = L.nextId + 1
           /\ p.ledger.charges[p.id].bytes = u /\ p.ledger.charges[p.id].state = "Granted"
    BY <1>0, <1>3, TakeDoes
  <2> HIDE DEF p, first, x
  <2>4. CASE ~p.ok
    <3>1. a = first
      BY <2>2, <2>3, <2>4 DEF Abstract!TakeSecond
    <3> QED
      BY <1>1, <2>1, <2>3, <2>4, <3>1, SlotsKept
  <2>5. CASE p.ok
    <3>0. /\ first.ok /\ p.id \in Nat \ {NoId} /\ Good(p.ledger, U)
          /\ Fresh(p.ledger) /\ View(p.ledger, U) = first.budget
          /\ p.id \in DOMAIN p.ledger.charges /\ p.ledger.nextId # IdMax
          /\ p.ledger.charges[p.id].bytes = u /\ p.ledger.charges[p.id].state = "Granted"
      BY <1>0, <2>3, <2>5
    <3>1. /\ U[c] = [T[c] EXCEPT ![up] = p.id] /\ U[c][up] = p.id /\ U[c][rt] = NoId
          /\ Place(T, c, U[c]) = U
          /\ U \in [Owners -> [Slots -> Nat]]
      BY <1>0, <1>3, <3>0, PlaceIs
    <3>2. SetSlot(U, c, up, NoId) = T
      BY <1>0, <1>3, <3>0 DEF SetSlot
    <3>3. a = Abstract!SettlePair(second, c, allocated)
      BY <2>2, <3>0 DEF Abstract!TakeSecond
    <3> HIDE DEF U
    <3>4. \/ /\ ~q.ok /\ ~second.ok /\ Good(q.ledger, U) /\ View(q.ledger, U) = second.budget
          \/ /\ q.ok /\ second.ok /\ q.id \in Nat \ {NoId} /\ Good(q.ledger, V)
             /\ Fresh(q.ledger) /\ View(q.ledger, V) = second.budget
             /\ q.id \in DOMAIN q.ledger.charges /\ q.id # p.id
             /\ q.ledger.charges[q.id].bytes = t /\ q.ledger.charges[q.id].state = "Granted"
             /\ q.ledger.charges[p.id] = p.ledger.charges[p.id]
      <4>1. q = Reserve(p.ledger, c, ClassOf[rt], t, "current")
        OBVIOUS
      <4>2. second = Abstract!TakeSlot(View(p.ledger, U), c, rt, t)
        BY <3>0
      <4>3. rt \in Slots
        BY <1>0
      <4> HIDE DEF q, second, rt
      <4> QED
        BY <3>0, <3>1, <4>1, <4>2, <4>3, TakeDoes
    <3> HIDE DEF q, second
    <3>5. CASE ~q.ok
      <4> DEFINE y == Release(q.ledger, U[c][up], "current")
      <4>0. Good(q.ledger, U) /\ View(q.ledger, U) = second.budget /\ ~second.ok
        BY <3>4, <3>5
      <4>1. /\ Good(y.ledger, T)
            /\ View(y.ledger, T) = Abstract!DropSlot(second.budget, c, up).budget
        BY <1>0, <3>0, <3>1, <3>2, <4>0, ReleaseDoes
      <4>2. r.ledger = y.ledger /\ r.slots = T[c]
        BY <1>1, <2>1, <2>5, <3>1, <3>5
      <4>3. a.budget = Abstract!DropSlot(View(y.ledger, T), c, rt).budget
        BY <3>3, <4>0, <4>1 DEF Abstract!SettlePair, Abstract!DropPair, Abstract!Deny
      <4> HIDE DEF y
      <4>4. View(y.ledger, T).held[c][rt] = 0
        BY <1>0, <1>3, <4>1, ViewIs
      <4>5. a.budget = View(y.ledger, T)
        BY <4>3, <4>4 DEF Abstract!DropSlot, Abstract!Grant
      <4> QED
        BY <4>1, <4>2, <4>5, SlotsKept
    <3>6. CASE q.ok
      <4>0. /\ second.ok /\ q.id \in Nat \ {NoId} /\ Good(q.ledger, V)
            /\ Fresh(q.ledger) /\ View(q.ledger, V) = second.budget
            /\ q.id \in DOMAIN q.ledger.charges /\ q.id # p.id
        BY <3>4, <3>6
      <4>1. /\ V[c] = [T[c] EXCEPT ![up] = p.id, ![rt] = q.id]
            /\ V[c][up] = p.id /\ V[c][rt] = q.id
            /\ V \in [Owners -> [Slots -> Nat]] /\ V = Place(U, c, V[c])
        <5>1. /\ V[c] = [U[c] EXCEPT ![rt] = q.id] /\ V \in [Owners -> [Slots -> Nat]]
              /\ V = Place(U, c, V[c])
          BY <1>0, <3>1, <4>0 DEF SetSlot, Place
        <5> HIDE DEF V
        <5>2. V[c] = [T[c] EXCEPT ![up] = p.id, ![rt] = q.id]
          BY <3>1, <5>1
        <5>3. V[c][up] = p.id /\ V[c][rt] = q.id
          BY <1>0, <3>1, <5>1
        <5> QED
          BY <5>1, <5>2, <5>3
      <4>2. V = Place(T, c, V[c])
        BY <1>0, <3>1, <4>1, PlaceTwice
      <4>3. /\ V[c][up] # NoId /\ V[c][rt] # NoId
            /\ q.ledger.charges[V[c][up]].bytes = u
            /\ q.ledger.charges[V[c][up]].state = "Granted"
            /\ q.ledger.charges[V[c][rt]].bytes = t
            /\ q.ledger.charges[V[c][rt]].state = "Granted"
        BY <3>0, <3>4, <3>6, <4>0, <4>1
      <4> HIDE DEF V
      <4>4. x.ok /\ x.ledger = q.ledger /\ x.slots = V[c]
        BY <2>1, <2>5, <3>6, <4>1
      <4>5. CASE allocated
        <5> DEFINE m == Commit(q.ledger, V[c][up], u, "current")
                   z == Commit(m.ledger, V[c][rt], t, "current")
        <5>1. /\ m.ok /\ Good(m.ledger, V) /\ View(m.ledger, V) = second.budget
              /\ Fresh(m.ledger)
              /\ \A i \in DOMAIN q.ledger.charges :
                    i # V[c][up] => m.ledger.charges[i] = q.ledger.charges[i]
          BY <1>0, <4>0, <4>3, CommitDoes
        <5>2. r = CommitPair(q.ledger, V[c], u, t)
          BY <1>1, <4>4, <4>5
        <5>3. r.ledger = z.ledger /\ r.slots = V[c]
          BY <5>1, <5>2 DEF CommitPair, Result
        <5> HIDE DEF m
        <5>4. /\ m.ledger.charges[V[c][rt]].bytes = t
              /\ m.ledger.charges[V[c][rt]].state = "Granted"
          BY <4>0, <4>1, <4>3, <5>1
        <5>5. Good(z.ledger, V) /\ View(z.ledger, V) = second.budget
          BY <1>0, <4>3, <5>1, <5>4, CommitDoes
        <5> HIDE DEF z
        <5>6. a = second
          BY <3>3, <4>0, <4>5 DEF Abstract!SettlePair
        <5> QED
          BY <4>2, <4>3, <5>3, <5>5, <5>6 DEF Keeps, Paired
      <4>6. CASE ~allocated
        <5> DEFINE m == ReleaseSlot(q.ledger, V[c], up)
                   W == Place(V, c, m.slots)
                   z == ReleaseSlot(m.ledger, W[c], rt)
        <5>1. /\ m.ok /\ m.slots = [V[c] EXCEPT ![up] = NoId] /\ m.slots \in [Slots -> Nat]
              /\ Keeps(m, V, c, Abstract!DropSlot(second.budget, c, up).budget)
          <6>1. m = ReleaseSlot(q.ledger, V[c], up)
            OBVIOUS
          <6>2. up \in Slots
            BY <1>0
          <6> HIDE DEF m, up
          <6> QED
            BY <4>0, <6>1, <6>2, ReleaseSlotDoes
        <5>2. r = ReleasePair(q.ledger, V[c])
          BY <1>1, <4>4, <4>6
        <5>3. W[c] = m.slots /\ W \in [Owners -> [Slots -> Nat]]
          <6> HIDE DEF m
          <6> QED
            BY <4>1, <5>1 DEF Place
        <5>4. r = [z EXCEPT !.ok = FALSE]
          BY <5>1, <5>2, <5>3 DEF ReleasePair
        <5>5. /\ Good(m.ledger, W)
              /\ View(m.ledger, W) = Abstract!DropSlot(second.budget, c, up).budget
          BY <5>1 DEF Keeps
        <5> HIDE DEF m, W
        <5>6. r.ledger = z.ledger /\ r.slots = z.slots
          BY <5>4, ReleaseRecord
        <5>7. /\ z.slots = [W[c] EXCEPT ![rt] = NoId]
              /\ Keeps(z, W, c, Abstract!DropSlot(View(m.ledger, W), c, rt).budget)
          <6>1. z = ReleaseSlot(m.ledger, W[c], rt)
            OBVIOUS
          <6>2. rt \in Slots
            BY <1>0
          <6> HIDE DEF z, rt
          <6> QED
            BY <5>5, <6>1, <6>2, ReleaseSlotDoes
        <5>8. a.budget = Abstract!DropSlot(View(m.ledger, W), c, rt).budget
          BY <3>3, <4>6, <5>5 DEF Abstract!SettlePair, Abstract!DropPair, Abstract!Deny
        <5> HIDE DEF z
        <5>9. Place(W, c, z.slots) = Place(T, c, z.slots)
          <6>1. Place(W, c, z.slots) = Place(V, c, z.slots)
            BY <4>1, PlaceTwice DEF W
          <6>2. Place(V, c, z.slots) = Place(T, c, z.slots)
            BY <1>0, <4>2, PlaceTwice
          <6> QED
            BY <6>1, <6>2
        <5>10. Keeps(r, T, c, a.budget)
          BY <5>6, <5>7, <5>8, <5>9 DEF Keeps
        <5>11. z.slots[up] = NoId /\ z.slots[rt] = NoId
          BY <1>0, <4>1, <5>1, <5>3, <5>7
        <5> QED
          BY <5>6, <5>10, <5>11 DEF Paired
      <4> QED
        BY <4>5, <4>6
    <3> QED
      BY <3>5, <3>6
  <2> QED
    BY <2>4, <2>5
<1> QED
  BY <1>2, <1>3

LEMMA HoldRecord ==
    ASSUME NEW X, NEW c, NEW k, NEW n, NEW u, u = (X.used - X.held[c][k]) + n
    PROVE  Abstract!Hold(X, c, k, n) =
              [used |-> u, pressure |-> RefreshPressure(X.pressure, u),
               held |-> SetHeld(X.held, c, k, n)]
  BY SameRefresh DEF Abstract!Hold, SetHeld

LEMMA HeldTwice ==
    ASSUME NEW t, NEW T, NEW c \in Owners, NEW k \in Slots, NEW m, NEW n
    PROVE  /\ SetHeld(SetHeld(Bytes(t, T), c, k, m), c, k, n) = SetHeld(Bytes(t, T), c, k, n)
           /\ SetHeld(Bytes(t, T), c, k, m)[c][k] = m
           /\ n = Bytes(t, T)[c][k] => SetHeld(Bytes(t, T), c, k, n) = Bytes(t, T)
<1>1. /\ SetHeld(SetHeld(Bytes(t, T), c, k, m), c, k, n) = SetHeld(Bytes(t, T), c, k, n)
      /\ SetHeld(Bytes(t, T), c, k, m)[c][k] = m
  BY DEF SetHeld, Bytes
<1>2. n = Bytes(t, T)[c][k] => SetHeld(Bytes(t, T), c, k, n) = Bytes(t, T)
  BY BytesAre
<1> QED
  BY <1>1, <1>2

(* The table of a replacement: the new charge comes before the old one goes. *)
LEMMA TablesAre ==
    ASSUME NEW t, t = [j \in DOMAIN t |-> t[j]], NEW i, i \notin DOMAIN t, NEW o \in DOMAIN t,
           NEW g, NEW h
    PROVE  /\ DropCharge(PutCharge(t, i, g), i) = t
           /\ PutCharge(PutCharge(t, i, g), i, h) = PutCharge(t, i, h)
           /\ DropCharge(PutCharge(t, i, h), o) = PutCharge(DropCharge(t, o), i, h)
           /\ i \in DOMAIN PutCharge(t, i, g) /\ PutCharge(t, i, g)[i] = g
           /\ o \in DOMAIN PutCharge(t, i, g) /\ PutCharge(t, i, g)[o] = t[o]
           /\ i \notin DOMAIN DropCharge(t, o)
<1>1. DropCharge(PutCharge(t, i, g), i) = t
  BY DEF PutCharge, DropCharge
<1>2. PutCharge(PutCharge(t, i, g), i, h) = PutCharge(t, i, h)
  BY DEF PutCharge
<1>3. DropCharge(PutCharge(t, i, h), o) = PutCharge(DropCharge(t, o), i, h)
  <2>1. (DOMAIN t \cup {i}) \ {o} = (DOMAIN t \ {o}) \cup {i}
    OBVIOUS
  <2> QED
    BY <2>1 DEF PutCharge, DropCharge
<1>4. /\ i \in DOMAIN PutCharge(t, i, g) /\ PutCharge(t, i, g)[i] = g
      /\ o \in DOMAIN PutCharge(t, i, g) /\ PutCharge(t, i, g)[o] = t[o]
      /\ i \notin DOMAIN DropCharge(t, o)
  BY DEF PutCharge, DropCharge
<1> QED
  BY <1>1, <1>2, <1>3, <1>4

(* The upstream charge of a retry: charged next to the old one, then the old *)
(* one is given back, or the new one when the attempt cannot start.          *)
LEMMA ReplaceUpstreamDoes ==
    ASSUME NEW L, NEW T, Good(L, T), NEW c \in Owners,
           NEW u \in 0 .. MaxRequest, NEW allocated \in BOOLEAN, L.nextId # IdMax,
           Paired(T[c]),
           NEW r, r = ReplaceUpstream(L, T[c], c, u, allocated)
    PROVE  /\ Keeps(r, T, c, Abstract!BudgetReplaceUpstream(View(L, T), c, u, allocated).budget)
           /\ Paired(r.slots)
<1> DEFINE B == View(L, T)
           k == "upstream"
           t == L.charges
           o == T[c][k]
           n == Bytes(t, T)[c][k]
           a == Abstract!BudgetReplaceUpstream(B, c, u, allocated)
           p == Reserve(L, c, ClassOf[k], u, "current")
           taken == Abstract!TakeSlot(B, c, k, u)
           both == Abstract!Hold(B, c, k, n + u)
           g == [owner |-> c, class |-> ClassOf[k], bytes |-> u, state |-> "Granted"]
<1>0. /\ k \in Slots /\ "retry" \in Slots /\ k # "retry" /\ u \in Nat /\ NoId \in Nat
      /\ T \in [Owners -> [Slots -> Nat]]
      /\ B.used = L.used /\ B.pressure = L.pressure /\ B.held = Bytes(t, T)
      /\ (o = NoId => n = 0)
      /\ (o # NoId => o \in DOMAIN t /\ n = t[o].bytes /\ n \in 1 .. L.used)
      /\ L.used \in 0 .. Limit /\ L.used \in Nat /\ L.pressure \in PressureStates
  <2>1. k \in Slots /\ "retry" \in Slots /\ k # "retry"
    BY DEF Slots
  <2>2. u \in Nat /\ NoId \in Nat
    BY LedgerAssumption DEF NoId
  <2> QED
    BY <2>1, <2>2, ViewIs, LimitAssumption
<1>1. CASE o = NoId
  <2>1. r.ledger = FailAccounting(L).ledger /\ r.slots = T[c]
    BY <1>1 DEF ReplaceUpstream, Result
  <2>2. a = Abstract!DenyBroken(B)
    BY <1>0, <1>1 DEF Abstract!BudgetReplaceUpstream
  <2> QED
    BY <2>1, <2>2, RefusedView, SlotsKept
<1>2. CASE o # NoId
  <2>0. n \in Nat /\ n # 0 /\ n <= L.used /\ o \in DOMAIN t /\ t[o].bytes = n
    BY <1>0, <1>2
  <2>1. /\ ~p.ok => r.ledger = p.ledger /\ r.slots = T[c]
        /\ p.ok /\ allocated => r = CommitReplacement(p.ledger, T[c], p.id, u)
        /\ p.ok /\ ~allocated => /\ r.ledger = Release(p.ledger, p.id, "current").ledger
                                 /\ r.slots = T[c]
    BY <1>2 DEF ReplaceUpstream, Result
  <2>2. /\ ~taken.ok => a = taken
        /\ taken.ok /\ allocated => a.budget = Abstract!Hold(both, c, k, u)
        /\ taken.ok /\ ~allocated => a.budget = Abstract!Hold(both, c, k, n)
    BY <1>0, <2>0 DEF Abstract!BudgetReplaceUpstream, Abstract!Grant, Abstract!Deny
  <2> DEFINE Refusal == ~p.ok /\ ~taken.ok /\ Good(p.ledger, T) /\ View(p.ledger, T) = taken.budget
             Added == /\ p.ok /\ taken.ok /\ L.used + u <= Limit
                      /\ p.id \in Nat \ {NoId} /\ p.id \notin DOMAIN t
                      /\ Sound(p.ledger) /\ p.ledger.used = L.used + u
                      /\ p.ledger.charges = PutCharge(t, p.id, g)
                      /\ p.ledger.pressure = RefreshPressure(L.pressure, L.used + u)
                      /\ Fresh(p.ledger) /\ u # 0
  <2>3. Refusal \/ Added
    BY <1>0, ReserveDoes
  <2> HIDE DEF p, taken
  <2>4. CASE Refusal
    BY <2>1, <2>2, <2>4, SlotsKept
  <2>5. CASE Added
    <3> DEFINE f == p.ledger
               w == L.used + u
               pr == RefreshPressure(L.pressure, w)
    <3>1. t = [j \in DOMAIN t |-> t[j]]
      BY DEF Good, Sound, WellTyped
    <3>2. both = [used |-> w, pressure |-> pr, held |-> SetHeld(Bytes(t, T), c, k, n + u)]
      <4>1. w = (B.used - B.held[c][k]) + (n + u)
        BY <1>0, <2>0
      <4> QED
        BY <1>0, <4>1, HoldRecord
    <3>3. both.held[c][k] = n + u /\ both.used = w /\ both.pressure = pr
      <4>1. /\ both.held = SetHeld(Bytes(t, T), c, k, n + u)
            /\ both.used = w /\ both.pressure = pr
        BY <3>2
      <4>2. SetHeld(Bytes(t, T), c, k, n + u)[c][k] = n + u
        <5>1. \A z : SetHeld(Bytes(t, T), c, k, z)[c][k] = z
          BY <1>0 DEF SetHeld, Bytes
        <5> QED
          BY <5>1
      <4> QED
        BY <4>1, <4>2
    <3>4. pr \in PressureStates /\ w \in Nat
      BY <1>0, <2>5 DEF Sound, WellTyped
    <3> HIDE DEF g, both, pr
    <3>5. g.owner = c /\ g.class = ClassOf[k] /\ g.bytes = u /\ g.state = "Granted"
          /\ g = [owner |-> c, class |-> ClassOf[k], bytes |-> u, state |-> "Granted"]
      BY DEF g
    <3>6. p.id \in DOMAIN f.charges /\ f.charges[p.id] = g
      BY <2>0, <2>5, <3>1, TablesAre
    <3>7. CASE ~allocated
      <4> DEFINE y == Release(f, p.id, "current")
                 W == WithUsage(f, w - u, DropCharge(f.charges, p.id), f.nextId)
      <4>1. y.ledger = W
        BY <1>0, <2>5, <3>5, <3>6 DEF Release, IsLive, Done
      <4>2. Sound(y.ledger)
        BY <2>5, ReleaseSound
      <4>3. W.used = w - u /\ W.charges = t /\ W.pressure = RefreshPressure(pr, w - u)
        <5>1. DropCharge(f.charges, p.id) = t
          BY <2>0, <2>5, <3>1, TablesAre
        <5>2. f.pressure = pr
          BY <2>5 DEF pr
        <5> QED
          BY <5>1, <5>2 DEF WithUsage
      <4>4. w - u = L.used
        BY <1>0
      <4> HIDE DEF y, W
      <4>5. Good(y.ledger, T)
        BY <4>1, <4>2, <4>3 DEF Good
      <4>6. a.budget = [used |-> L.used, pressure |-> RefreshPressure(pr, L.used),
                        held |-> Bytes(t, T)]
        <5>1. a.budget = Abstract!Hold(both, c, k, n)
          BY <2>2, <2>5, <3>7
        <5>2. L.used = (both.used - both.held[c][k]) + n
          BY <1>0, <2>0, <3>3
        <5>3. SetHeld(both.held, c, k, n) = Bytes(t, T)
          BY <1>0, <3>2, HeldTwice
        <5> QED
          BY <3>3, <5>1, <5>2, <5>3, HoldRecord
      <4>7. View(y.ledger, T) = a.budget
        BY <4>1, <4>3, <4>4, <4>6 DEF View
      <4>8. r.ledger = y.ledger /\ r.slots = T[c]
        BY <2>1, <2>5, <3>7 DEF y
      <4> QED
        BY <4>5, <4>7, <4>8, SlotsKept
    <3>8. CASE allocated
      <4> DEFINE h == [g EXCEPT !.bytes = u, !.state = "InUse"]
                 m == Commit(f, p.id, u, "current")
                 M == WithUsage(f, (w - u) + u, PutCharge(f.charges, p.id, h), f.nextId)
                 q == Release(m.ledger, o, "current")
                 U == SetSlot(T, c, k, p.id)
      <4>1. m = Done(M, p.id)
        <5>1. ~(u > w) /\ ~((w - u) + u > Limit) /\ u # 0
          BY <1>0, <2>5, LimitAssumption
        <5>2. m = ReplaceChargeBytes(f, p.id, u, "InUse")
          BY <3>5, <3>6 DEF Commit, IsLive
        <5> QED
          BY <2>5, <3>5, <3>6, <5>1, <5>2 DEF ReplaceChargeBytes
      <4>2. m.ok /\ m.ledger = M
        BY <4>1 DEF Done
      <4>3. Sound(m.ledger)
        BY <1>0, <2>5, ResizeSound
      <4>4. M.used = w /\ M.pressure = pr /\ M.charges = PutCharge(t, p.id, h)
        <5>1. PutCharge(f.charges, p.id, h) = PutCharge(t, p.id, h)
          BY <2>0, <2>5, <3>1, TablesAre
        <5>2. (w - u) + u = w
          BY <1>0
        <5>3. RefreshPressure(f.pressure, w) = pr
          BY <2>5 DEF Fresh, pr
        <5> QED
          BY <5>1, <5>2, <5>3 DEF WithUsage
      <4>5. h.owner = c /\ h.class = ClassOf[k] /\ h.bytes = u
        BY <3>5
      <4> HIDE DEF h, M, m
      <4>6. /\ o \in DOMAIN M.charges /\ M.charges[o].bytes = n
            /\ DropCharge(M.charges, o) = PutCharge(DropCharge(t, o), p.id, h)
            /\ p.id \notin DOMAIN DropCharge(t, o)
        BY <2>0, <2>5, <3>1, <4>4, TablesAre
      <4>7. q = Done(WithUsage(M, w - n, DropCharge(M.charges, o), M.nextId), o)
        <5>1. ~(n > w)
          BY <1>0, <2>0
        <5> QED
          BY <4>2, <4>4, <4>6, <5>1 DEF Release, IsLive
      <4>8. /\ q.ok /\ q.ledger.used = w - n
            /\ q.ledger.charges = PutCharge(DropCharge(t, o), p.id, h)
            /\ q.ledger.pressure = RefreshPressure(pr, w - n)
        BY <4>4, <4>6, <4>7 DEF Done, WithUsage
      <4>9. Sound(q.ledger)
        BY <4>3, ReleaseSound
      <4> HIDE DEF q
      <4> DEFINE E == SetSlot(T, c, k, NoId)
      <4>10. /\ Owns(DropCharge(t, o), E)
             /\ Bytes(DropCharge(t, o), E) = SetHeld(Bytes(t, T), c, k, 0)
        BY <1>0, <1>2, OwnsDropped, BytesDropped DEF Good
      <4>11. E[c][k] = NoId /\ SetSlot(E, c, k, p.id) = U
        BY <1>0, <2>5 DEF SetSlot
      <4> HIDE DEF E
      <4>12. Owns(q.ledger.charges, U)
        <5>1. k \in Slots /\ p.id \in Nat \ {NoId}
          BY <1>0, <2>5
        <5> DEFINE d == DropCharge(t, o)
        <5>2. Owns(d, E) /\ p.id \notin DOMAIN d
          BY <4>6, <4>10
        <5> HIDE DEF d, k
        <5>3. Owns(PutCharge(d, p.id, h), SetSlot(E, c, k, p.id))
          BY <4>5, <4>11, <5>1, <5>2, OwnsNew
        <5> QED
          BY <4>8, <4>11, <5>3 DEF d
      <4>13. Bytes(q.ledger.charges, U) = SetHeld(Bytes(t, T), c, k, u)
        <5>1. Bytes(q.ledger.charges, U) = SetHeld(SetHeld(Bytes(t, T), c, k, 0), c, k, u)
          BY <1>0, <2>5, <4>5, <4>6, <4>8, <4>10, <4>11, BytesNew
        <5> QED
          BY <1>0, <5>1, HeldTwice
      <4>14. a.budget = [used |-> w - n, pressure |-> RefreshPressure(pr, w - n),
                         held |-> SetHeld(Bytes(t, T), c, k, u)]
        <5>1. a.budget = Abstract!Hold(both, c, k, u)
          BY <2>2, <2>5, <3>8
        <5>2. w - n = (both.used - both.held[c][k]) + u
          BY <1>0, <2>0, <3>3
        <5>3. SetHeld(both.held, c, k, u) = SetHeld(Bytes(t, T), c, k, u)
          BY <1>0, <3>2, HeldTwice
        <5> QED
          BY <3>3, <5>1, <5>2, <5>3, HoldRecord
      <4>15. View(q.ledger, U) = a.budget
        BY <4>8, <4>13, <4>14 DEF View
      <4>16. Good(q.ledger, U)
        BY <4>9, <4>12 DEF Good
      <4>17. r = CommitReplacement(f, T[c], p.id, u)
        BY <2>1, <2>5, <3>8
      <4>18. r.ledger = q.ledger /\ r.slots = [T[c] EXCEPT ![k] = p.id]
        BY <4>2, <4>8, <4>17 DEF CommitReplacement, Result, m, q
      <4>19. Place(T, c, r.slots) = U /\ r.slots[k] = p.id /\ r.slots["retry"] = T[c]["retry"]
        BY <1>0, <2>5, <4>18 DEF Place, SetSlot
      <4>20. Paired(r.slots)
        BY <1>2, <2>5, <4>19 DEF Paired
      <4> HIDE DEF U
      <4> QED
        BY <4>15, <4>16, <4>18, <4>19, <4>20 DEF Keeps
    <3> QED
      BY <3>7, <3>8
  <2> QED
    BY <2>3, <2>4, <2>5
<1> QED
  BY <1>1, <1>2

(* Below a usage at which admission was consistent, only the last refresh of *)
(* a falling usage counts.                                                   *)
LEMMA RefreshFalling ==
    ASSUME NEW p \in PressureStates, NEW u \in Int, NEW v \in Int, v <= u,
           p = "Normal" => u < HighWatermark
    PROVE  RefreshPressure(RefreshPressure(p, u), v) = RefreshPressure(p, v)
  BY Watermarks DEF RefreshPressure, PressureStates

(* release_all has given back the slots in D, x bytes of them. *)
Stage(r, L, T, c, D, x) ==
    LET U == Place(T, c, r.slots) IN
    /\ r.ok /\ r.slots \in [Slots -> Nat] /\ Good(r.ledger, U)
    /\ \A k \in Slots : r.slots[k] = IF k \in D THEN NoId ELSE T[c][k]
    /\ \A d \in Owners, m \in Slots :
          Bytes(r.ledger.charges, U)[d][m] =
             IF d = c /\ m \in D THEN 0 ELSE Bytes(L.charges, T)[d][m]
    /\ x \in Nat /\ r.ledger.used = L.used - x
    /\ r.ledger.pressure = IF x = 0 THEN L.pressure
                           ELSE RefreshPressure(L.pressure, L.used - x)

LEMMA StageNext ==
    ASSUME NEW L, NEW T, Good(L, T), NEW c \in Owners, NEW D, NEW x, NEW r,
           Stage(r, L, T, c, D, x), NEW k \in Slots, k \notin D,
           NEW q, q = ReleaseAfter(r, k)
    PROVE  Stage(q, L, T, c, D \cup {k}, x + Bytes(L.charges, T)[c][k])
<1> DEFINE U == Place(T, c, r.slots)
           n == Bytes(L.charges, T)[c][k]
           h == Bytes(L.charges, T)
<1>0. /\ T \in [Owners -> [Slots -> Nat]] /\ NoId \in Nat
      /\ L.used \in 0 .. Limit /\ L.used \in Int /\ L.pressure \in PressureStates
      /\ L.pressure = "Normal" => L.used < HighWatermark
      /\ HighWatermark \in Nat
  <2>1. L.pressure = "Normal" => L.used < HighWatermark
    BY DEF Good, Sound, Hysteresis
  <2>2. HighWatermark \in Nat /\ NoId \in Nat
    BY Watermarks DEF NoId
  <2> QED
    BY <2>1, <2>2, ViewIs, LimitAssumption
<1>1. /\ r.ok /\ r.slots \in [Slots -> Nat] /\ Good(r.ledger, U)
      /\ \A m \in Slots : r.slots[m] = IF m \in D THEN NoId ELSE T[c][m]
      /\ \A d \in Owners, m \in Slots :
            Bytes(r.ledger.charges, U)[d][m] = IF d = c /\ m \in D THEN 0 ELSE h[d][m]
      /\ x \in Nat /\ r.ledger.used = L.used - x
      /\ r.ledger.pressure = IF x = 0 THEN L.pressure
                             ELSE RefreshPressure(L.pressure, L.used - x)
  BY DEF Stage
<1>2. U[c] = r.slots /\ U \in [Owners -> [Slots -> Nat]]
  BY <1>0, <1>1 DEF Place
<1> HIDE DEF U
<1>3. q = ReleaseSlot(r.ledger, U[c], k)
  BY <1>1, <1>2 DEF ReleaseAfter
<1>4. U[c][k] = T[c][k] /\ Bytes(r.ledger.charges, U)[c][k] = n
  BY <1>1, <1>2
<1>5. Place(T, c, q.slots) = Place(U, c, q.slots)
  BY <1>0, PlaceTwice DEF U
<1>6. CASE T[c][k] = NoId
  <2>1. n = 0
    BY <1>6, ViewIs
  <2>2. q.ok /\ q.ledger = r.ledger /\ q.slots = r.slots
    BY <1>2, <1>3, <1>4, <1>6 DEF ReleaseSlot, Result
  <2>3. Place(T, c, q.slots) = U
    BY <2>2 DEF U
  <2>4. x + n = x
    BY <1>1, <2>1
  <2>5. \A m \in Slots : q.slots[m] = IF m \in D \cup {k} THEN NoId ELSE T[c][m]
    BY <1>1, <1>6, <2>2
  <2>6. \A d \in Owners, m \in Slots :
            Bytes(q.ledger.charges, U)[d][m] = IF d = c /\ m \in D \cup {k} THEN 0 ELSE h[d][m]
    BY <1>1, <2>1, <2>2
  <2> HIDE DEF n, h
  <2> QED
    BY <1>1, <2>2, <2>3, <2>4, <2>5, <2>6 DEF Stage, n, h
<1>7. CASE T[c][k] # NoId
  <2> DEFINE y == Release(r.ledger, U[c][k], "current")
             V == SetSlot(U, c, k, NoId)
  <2>1. n \in 1 .. r.ledger.used /\ r.ledger.used \in Int /\ n \in Nat /\ n # 0
    BY <1>1, <1>4, <1>7, ViewIs, LimitAssumption
  <2>2. /\ y.ok /\ Good(y.ledger, V) /\ y.ledger.charges = DropCharge(r.ledger.charges, U[c][k])
        /\ y.ledger.used = r.ledger.used - r.ledger.charges[U[c][k]].bytes
        /\ y.ledger.pressure = RefreshPressure(r.ledger.pressure, y.ledger.used)
    BY <1>1, <1>4, <1>7, ReleaseDoes
  <2>3. q.ok /\ q.ledger = y.ledger /\ q.slots = [r.slots EXCEPT ![k] = NoId]
    BY <1>2, <1>3, <1>4, <1>7, <2>2 DEF ReleaseSlot, Result
  <2>4. r.ledger.charges[U[c][k]].bytes = n
    BY <1>1, <1>4, <1>7, ViewIs
  <2>5. Bytes(y.ledger.charges, V) = SetHeld(Bytes(r.ledger.charges, U), c, k, 0)
    BY <1>1, <1>4, <1>7, <2>2, BytesDropped DEF Good
  <2>6. Place(T, c, q.slots) = V /\ q.slots \in [Slots -> Nat]
    BY <1>0, <1>1, <1>2, <1>5, <2>3 DEF SetSlot, Place
  <2> HIDE DEF y, V
  <2>7. \A d \in Owners, m \in Slots :
           Bytes(q.ledger.charges, V)[d][m] = IF d = c /\ m \in D \cup {k} THEN 0 ELSE h[d][m]
    <3> DEFINE g == Bytes(r.ledger.charges, U)
    <3>1. \A d \in Owners, m \in Slots :
             SetHeld(g, c, k, 0)[d][m] = IF d = c /\ m = k THEN 0 ELSE g[d][m]
      BY DEF SetHeld, Bytes
    <3> HIDE DEF g
    <3> QED
      BY <1>1, <2>3, <2>5, <3>1 DEF g
  <2>8. \A m \in Slots : q.slots[m] = IF m \in D \cup {k} THEN NoId ELSE T[c][m]
    BY <1>1, <2>3
  <2>9. x + n \in Nat /\ x + n # 0 /\ q.ledger.used = L.used - (x + n)
    BY <1>0, <1>1, <2>1, <2>2, <2>3, <2>4
  <2>10. q.ledger.pressure = RefreshPressure(L.pressure, L.used - (x + n))
    <3>1. CASE x = 0
      BY <1>1, <2>2, <2>3, <2>9, <3>1
    <3>2. CASE x # 0
      <4>1. /\ L.used - (x + n) \in Int /\ L.used - x \in Int
            /\ L.used - (x + n) <= L.used - x
            /\ L.pressure = "Normal" => L.used - x < HighWatermark
        BY <1>0, <1>1, <2>1
      <4>2. RefreshPressure(RefreshPressure(L.pressure, L.used - x), L.used - (x + n))
               = RefreshPressure(L.pressure, L.used - (x + n))
        <5> DEFINE v == L.used - (x + n)
                   u == L.used - x
        <5> HIDE DEF v, u
        <5>1. u \in Int /\ v \in Int /\ v <= u /\ (L.pressure = "Normal" => u < HighWatermark)
          BY <4>1 DEF u, v
        <5>2. RefreshPressure(RefreshPressure(L.pressure, u), v) = RefreshPressure(L.pressure, v)
          BY <1>0, <5>1, RefreshFalling
        <5> QED
          BY <5>2 DEF u, v
      <4> QED
        BY <1>1, <2>2, <2>3, <2>9, <3>2, <4>2
    <3> QED
      BY <3>1, <3>2
  <2>11. Good(q.ledger, V)
    BY <2>2, <2>3
  <2> HIDE DEF n, h
  <2> QED
    BY <2>3, <2>6, <2>7, <2>8, <2>9, <2>10, <2>11 DEF Stage, n, h
<1> QED
  BY <1>6, <1>7

(* release_all *)
LEMMA ReleaseAllDoes ==
    ASSUME NEW L, NEW T, Good(L, T), NEW c \in Owners, NEW r, r = ReleaseAll(L, T[c])
    PROVE  Keeps(r, T, c, Abstract!BudgetDropAll(View(L, T), c)) /\ Paired(r.slots)
<1> DEFINE B == View(L, T)
           h == Bytes(L.charges, T)
           mine == Abstract!BytesOf(h[c])
           r1 == ReleaseAfter(Result(TRUE, L, T[c]), "request")
           r2 == ReleaseAfter(r1, "upstream")
           r3 == ReleaseAfter(r2, "retry")
           r4 == ReleaseAfter(r3, "response")
           r5 == ReleaseAfter(r4, "tls")
           r6 == ReleaseAfter(r5, "wsUp")
           r7 == ReleaseAfter(r6, "wsDown")
<1>0. /\ T \in [Owners -> [Slots -> Nat]] /\ T[c] \in [Slots -> Nat]
      /\ L.used \in Int
      /\ B.used = L.used /\ B.pressure = L.pressure /\ B.held = h
  BY ViewIs, LimitAssumption
<1>1. \A k \in Slots : h[c][k] \in Nat
  BY ViewIs, LimitAssumption
<1>2. r = r7
  <2>1. r1 = ReleaseSlot(L, T[c], "request")
    BY DEF ReleaseAfter, Result
  <2> HIDE DEF r1
  <2> QED
    BY <2>1 DEF ReleaseAll
<1>3. Stage(Result(TRUE, L, T[c]), L, T, c, {}, 0)
  <2> DEFINE s == Result(TRUE, L, T[c])
  <2>1. s.ok /\ s.ledger = L /\ s.slots = T[c]
    BY DEF Result
  <2>2. Place(T, c, T[c]) = T
    BY <1>0 DEF Place
  <2> HIDE DEF s
  <2>3. Stage(s, L, T, c, {}, 0)
    BY <1>0, <2>1, <2>2 DEF Stage
  <2> QED
    BY <2>3 DEF s
<1> DEFINE x1 == 0 + h[c]["request"]
           x2 == x1 + h[c]["upstream"]
           x3 == x2 + h[c]["retry"]
           x4 == x3 + h[c]["response"]
           x5 == x4 + h[c]["tls"]
           x6 == x5 + h[c]["wsUp"]
           x7 == x6 + h[c]["wsDown"]
           D1 == {} \cup {"request"}
           D2 == D1 \cup {"upstream"}
           D3 == D2 \cup {"retry"}
           D4 == D3 \cup {"response"}
           D5 == D4 \cup {"tls"}
           D6 == D5 \cup {"wsUp"}
           D7 == D6 \cup {"wsDown"}
<1>4. /\ "upstream" \notin D1 /\ "retry" \notin D2 /\ "response" \notin D3
      /\ "tls" \notin D4 /\ "wsUp" \notin D5 /\ "wsDown" \notin D6
      /\ D7 = Slots /\ {"request", "upstream", "retry", "response", "tls", "wsUp", "wsDown"} = Slots
  BY DEF Slots
<1>5. mine = x7 /\ mine \in Nat
  <2>1. /\ h[c]["request"] \in Nat /\ h[c]["upstream"] \in Nat /\ h[c]["retry"] \in Nat
        /\ h[c]["response"] \in Nat /\ h[c]["tls"] \in Nat /\ h[c]["wsUp"] \in Nat
        /\ h[c]["wsDown"] \in Nat
    BY <1>1, <1>4
  <2> HIDE DEF h
  <2> QED
    BY <2>1 DEF Abstract!BytesOf
<1>6. Stage(r1, L, T, c, D1, x1)
  BY <1>3, <1>4, StageNext
<1>7. Stage(r2, L, T, c, D2, x2)
  <2> HIDE DEF r1, D1, x1
  <2> QED BY <1>4, <1>6, StageNext
<1>8. Stage(r3, L, T, c, D3, x3)
  <2> HIDE DEF r2, D2, x2
  <2> QED BY <1>4, <1>7, StageNext
<1>9. Stage(r4, L, T, c, D4, x4)
  <2> HIDE DEF r3, D3, x3
  <2> QED BY <1>4, <1>8, StageNext
<1>10. Stage(r5, L, T, c, D5, x5)
  <2> HIDE DEF r4, D4, x4
  <2> QED BY <1>4, <1>9, StageNext
<1>11. Stage(r6, L, T, c, D6, x6)
  <2> HIDE DEF r5, D5, x5
  <2> QED BY <1>4, <1>10, StageNext
<1>12. Stage(r7, L, T, c, D7, x7)
  <2> HIDE DEF r6, D6, x6
  <2> QED BY <1>4, <1>11, StageNext
<1>13. Stage(r, L, T, c, Slots, mine)
  BY <1>2, <1>4, <1>5, <1>12
<1> HIDE DEF r7, D7, x7
<1> DEFINE U == Place(T, c, r.slots)
           z == Bytes(r.ledger.charges, U)
<1>14. /\ Good(r.ledger, U) /\ \A k \in Slots : r.slots[k] = NoId
       /\ \A d \in Owners, m \in Slots : z[d][m] = IF d = c THEN 0 ELSE h[d][m]
       /\ r.ledger.used = L.used - mine
       /\ r.ledger.pressure = IF mine = 0 THEN L.pressure
                              ELSE RefreshPressure(L.pressure, L.used - mine)
  BY <1>13 DEF Stage
<1>15. View(r.ledger, U) = Abstract!BudgetDropAll(B, c)
  <2>1. CASE mine = 0
    <3>1. \A k \in Slots : h[c][k] = 0
      <4>1. /\ h[c]["request"] = 0 /\ h[c]["upstream"] = 0 /\ h[c]["retry"] = 0
            /\ h[c]["response"] = 0 /\ h[c]["tls"] = 0 /\ h[c]["wsUp"] = 0
            /\ h[c]["wsDown"] = 0
        <5> DEFINE n1 == h[c]["request"]
                   n2 == h[c]["upstream"]
                   n3 == h[c]["retry"]
                   n4 == h[c]["response"]
                   n5 == h[c]["tls"]
                   n6 == h[c]["wsUp"]
                   n7 == h[c]["wsDown"]
        <5>1. /\ n1 \in Nat /\ n2 \in Nat /\ n3 \in Nat /\ n4 \in Nat
              /\ n5 \in Nat /\ n6 \in Nat /\ n7 \in Nat
          BY <1>1, <1>4
        <5>2. 0 + n1 + n2 + n3 + n4 + n5 + n6 + n7 = 0
          <6>1. x7 = 0
            BY <1>5, <2>1
          <6> QED
            BY <6>1 DEF x7
        <5> HIDE DEF n1, n2, n3, n4, n5, n6, n7
        <5>3. n1 = 0 /\ n2 = 0 /\ n3 = 0 /\ n4 = 0 /\ n5 = 0 /\ n6 = 0 /\ n7 = 0
          BY <5>1, <5>2
        <5> QED
          BY <5>3 DEF n1, n2, n3, n4, n5, n6, n7
      <4> QED
        BY <4>1 DEF Slots
    <3>2. z = h
      <4>1. \A d \in Owners, m \in Slots : z[d][m] = h[d][m]
        BY <1>14, <3>1
      <4> QED
        BY <4>1 DEF Bytes
    <3>3. Abstract!BudgetDropAll(B, c) = B
      BY <1>0, <2>1 DEF Abstract!BudgetDropAll
    <3>4. r.ledger.used = L.used /\ r.ledger.pressure = L.pressure
      BY <1>0, <1>14, <2>1
    <3> QED
      BY <3>2, <3>3, <3>4 DEF View
  <2>2. CASE mine # 0
    <3>1. z = [h EXCEPT ![c] = Abstract!EmptySlots]
      <4>1. Abstract!EmptySlots = [k \in Slots |-> 0]
        BY DEF Abstract!EmptySlots, Abstract!Slots, Slots
      <4>2. \A d \in Owners : z[d] = [h EXCEPT ![c] = [k \in Slots |-> 0]][d]
        <5> SUFFICES ASSUME NEW d \in Owners
                     PROVE  z[d] = [h EXCEPT ![c] = [k \in Slots |-> 0]][d]
          OBVIOUS
        <5>1. CASE d = c
          BY <1>14, <5>1 DEF Bytes
        <5>2. CASE d # c
          BY <1>14, <5>2 DEF Bytes
        <5> QED
          BY <5>1, <5>2
      <4> QED
        BY <4>1, <4>2 DEF Bytes
    <3>2. Abstract!BudgetDropAll(B, c) =
             [used |-> L.used - mine, pressure |-> RefreshPressure(L.pressure, L.used - mine),
              held |-> [h EXCEPT ![c] = Abstract!EmptySlots]]
      BY <1>0, <2>2, SameRefresh DEF Abstract!BudgetDropAll
    <3> QED
      BY <1>14, <2>2, <3>1, <3>2 DEF View
  <2> QED
    BY <2>1, <2>2
<1> QED
  BY <1>4, <1>14, <1>15 DEF Keeps, Paired

-----------------------------------------------------------------------------
(* The specification.                                                      *)

ChargesInv == Good(ledger, slots) /\ \A c \in Owners : Paired(slots[c])

(* The refinement mapping is View. *)
Seen == [used |-> ledger.used, pressure |-> ledger.pressure,
         held |-> [c \in Owners |-> Held(c)]]

LEMMA SeenIsView == Seen = View(ledger, slots)
<1>1. \A c \in Owners : Held(c) = Bytes(ledger.charges, slots)[c]
  BY DEF Held, Bytes, SlotBytes, IsLive
<1>2. [c \in Owners |-> Held(c)] = Bytes(ledger.charges, slots)
  BY <1>1 DEF Bytes
<1> QED
  BY <1>2 DEF Seen, View

LEMMA SeenIsViewNext == Seen' = View(ledger', slots')
<1>1. \A c \in Owners : Held(c)' = Bytes(ledger'.charges, slots')[c]
  BY DEF Held, Bytes, SlotBytes, IsLive
<1>2. [c \in Owners |-> Held(c)'] = Bytes(ledger'.charges, slots')
  BY <1>1 DEF Bytes
<1> QED
  BY <1>2 DEF Seen, View

(* A step that keeps what a transaction keeps. *)
LEMMA StepKeeps ==
    ASSUME ChargesInv, NEW c \in Owners, NEW r, NEW B, Step(c, r), Keeps(r, slots, c, B),
           Paired(r.slots)
    PROVE  ChargesInv' /\ View(ledger', slots') = B
<1>1. slots' = Place(slots, c, r.slots) /\ ledger' = r.ledger
  BY DEF Step, Place
<1>2. Good(ledger', slots') /\ View(ledger', slots') = B
  BY <1>1 DEF Keeps
<1>3. slots \in [Owners -> [Slots -> Nat]]
  BY DEF ChargesInv, Good, Owns
<1>4. \A d \in Owners : slots'[d] = IF d = c THEN r.slots ELSE slots[d]
  BY <1>1, <1>3 DEF Place
<1>5. \A d \in Owners : Paired(slots'[d])
  BY <1>4 DEF ChargesInv
<1> QED
  BY <1>2, <1>5 DEF ChargesInv

LEMMA StepsKeep ==
    ASSUME ChargesInv, ChargesNext
    PROVE  ChargesInv' /\ Abstract!BudgetNext
<1> DEFINE B == View(ledger, slots)
           Sz == 0 .. MaxRequest
<1>1. PICK c \in Owners :
         \/ GrowRequestStep(c) \/ ReleaseRequestStep(c) \/ SyncStep(c)
         \/ SetResponseStep(c) \/ ShrinkResponseStep(c) \/ TakePairStep(c)
         \/ ReplaceUpstreamStep(c) \/ ReleaseAllStep(c)
  BY DEF ChargesNext
<1>2. /\ Good(ledger, slots) /\ Paired(slots[c]) /\ 0 \in Sz
      /\ "upstream" \in Slots /\ "retry" \in Slots /\ "request" \in Slots
  BY LedgerAssumption DEF ChargesInv, Slots
<1>3. IdsLeft => ledger.nextId # IdMax /\ ledger.nextId + 2 <= IdMax
  BY <1>2, ViewIs, LedgerAssumption DEF IdsLeft
<1>4. ASSUME NEW n \in Sz, NEW m \in Sz, NEW allocated \in BOOLEAN,
             \/ View(ledger', slots') = Abstract!BudgetGrowRequest(B, c, n).budget
             \/ View(ledger', slots') = Abstract!DropSlot(B, c, "request").budget
             \/ \E k \in SyncedSlots :
                   View(ledger', slots') = Abstract!BudgetSync(B, c, k, n).budget
             \/ View(ledger', slots') = Abstract!BudgetSetResponse(B, c, n, allocated).budget
             \/ View(ledger', slots') = Abstract!BudgetShrinkResponse(B, c, n).budget
             \/ View(ledger', slots') = Abstract!BudgetTakePair(B, c, n, m, allocated).budget
             \/ View(ledger', slots') = Abstract!BudgetReplaceUpstream(B, c, n, allocated).budget
             \/ View(ledger', slots') = Abstract!BudgetDropAll(B, c)
      PROVE  Abstract!BudgetNext
  BY <1>4, SeenIsView, SeenIsViewNext DEF Abstract!BudgetNext, Seen, SyncedSlots
<1>5. CASE GrowRequestStep(c)
  <2>1. PICK n \in Sz : IdsLeft /\ Step(c, GrowRequest(ledger, slots[c], c, n))
    BY <1>5 DEF GrowRequestStep
  <2> DEFINE r == GrowRequest(ledger, slots[c], c, n)
  <2>2. /\ Keeps(r, slots, c, Abstract!BudgetGrowRequest(B, c, n).budget)
        /\ r.slots["upstream"] = slots[c]["upstream"] /\ r.slots["retry"] = slots[c]["retry"]
    BY <1>2, <1>3, <2>1, GrowRequestDoes
  <2> HIDE DEF r
  <2>3. Paired(r.slots) /\ Step(c, r)
    BY <1>2, <2>1, <2>2 DEF Paired, r
  <2>4. ChargesInv' /\ View(ledger', slots') = Abstract!BudgetGrowRequest(B, c, n).budget
    BY <2>2, <2>3, StepKeeps
  <2> QED
    BY <1>2, <1>4, <2>4
<1>6. CASE ReleaseRequestStep(c)
  <2> DEFINE r == ReleaseSlot(ledger, slots[c], "request")
  <2>1. /\ r.slots = [slots[c] EXCEPT !["request"] = NoId]
        /\ Keeps(r, slots, c, Abstract!DropSlot(B, c, "request").budget)
    BY <1>2, ReleaseSlotDoes
  <2> HIDE DEF r
  <2>2. Paired(r.slots) /\ Step(c, r)
    <3>1. slots[c] \in [Slots -> Nat]
      BY <1>2 DEF Good, Owns
    <3>2. r.slots["upstream"] = slots[c]["upstream"] /\ r.slots["retry"] = slots[c]["retry"]
      BY <1>2, <2>1, <3>1
    <3> QED
      BY <1>2, <1>6, <3>2 DEF ReleaseRequestStep, Paired, r
  <2>3. ChargesInv' /\ View(ledger', slots') = Abstract!DropSlot(B, c, "request").budget
    BY <2>1, <2>2, StepKeeps
  <2> QED
    BY <1>2, <1>4, <2>3
<1>7. CASE SyncStep(c)
  <2>1. PICK k \in SyncedSlots, n \in Sz :
           IdsLeft /\ Step(c, SyncSlot(ledger, slots[c], c, k, n))
    BY <1>7 DEF SyncStep
  <2> DEFINE r == SyncSlot(ledger, slots[c], c, k, n)
  <2>2. /\ Keeps(r, slots, c, Abstract!BudgetSync(B, c, k, n).budget)
        /\ r.slots["upstream"] = slots[c]["upstream"] /\ r.slots["retry"] = slots[c]["retry"]
    BY <1>2, <1>3, <2>1, SyncDoes
  <2> HIDE DEF r
  <2>3. Paired(r.slots) /\ Step(c, r)
    BY <1>2, <2>1, <2>2 DEF Paired, r
  <2>4. ChargesInv' /\ View(ledger', slots') = Abstract!BudgetSync(B, c, k, n).budget
    BY <2>2, <2>3, StepKeeps
  <2> QED
    BY <1>2, <1>4, <2>4
<1>8. CASE SetResponseStep(c)
  <2>1. PICK n \in Sz, a \in BOOLEAN :
           IdsLeft /\ Step(c, SetResponse(ledger, slots[c], c, n, a))
    BY <1>8 DEF SetResponseStep
  <2> DEFINE r == SetResponse(ledger, slots[c], c, n, a)
  <2>2. /\ Keeps(r, slots, c, Abstract!BudgetSetResponse(B, c, n, a).budget)
        /\ r.slots["upstream"] = slots[c]["upstream"] /\ r.slots["retry"] = slots[c]["retry"]
    BY <1>2, <1>3, <2>1, SetResponseDoes
  <2> HIDE DEF r
  <2>3. Paired(r.slots) /\ Step(c, r)
    BY <1>2, <2>1, <2>2 DEF Paired, r
  <2>4. ChargesInv' /\ View(ledger', slots') = Abstract!BudgetSetResponse(B, c, n, a).budget
    BY <2>2, <2>3, StepKeeps
  <2> QED
    BY <1>2, <1>4, <2>4
<1>9. CASE ShrinkResponseStep(c)
  <2>1. PICK n \in Sz : Step(c, ShrinkResponse(ledger, slots[c], n))
    BY <1>9 DEF ShrinkResponseStep
  <2> DEFINE r == ShrinkResponse(ledger, slots[c], n)
  <2>2. /\ Keeps(r, slots, c, Abstract!BudgetShrinkResponse(B, c, n).budget)
        /\ r.slots["upstream"] = slots[c]["upstream"] /\ r.slots["retry"] = slots[c]["retry"]
    BY <1>2, <2>1, ShrinkDoes
  <2> HIDE DEF r
  <2>3. Paired(r.slots) /\ Step(c, r)
    BY <1>2, <2>1, <2>2 DEF Paired, r
  <2>4. ChargesInv' /\ View(ledger', slots') = Abstract!BudgetShrinkResponse(B, c, n).budget
    BY <2>2, <2>3, StepKeeps
  <2> QED
    BY <1>2, <1>4, <2>4
<1>10. CASE TakePairStep(c)
  <2>1. PICK u \in Sz, t \in Sz, a \in BOOLEAN :
           IdsLeft /\ Step(c, TakePair(ledger, slots[c], c, u, t, a))
    BY <1>10 DEF TakePairStep
  <2> DEFINE r == TakePair(ledger, slots[c], c, u, t, a)
  <2>2. /\ Keeps(r, slots, c, Abstract!BudgetTakePair(B, c, u, t, a).budget)
        /\ Paired(r.slots)
    BY <1>2, <1>3, <2>1, TakePairDoes
  <2> HIDE DEF r
  <2>3. ChargesInv' /\ View(ledger', slots') = Abstract!BudgetTakePair(B, c, u, t, a).budget
    BY <2>1, <2>2, StepKeeps DEF r
  <2> QED
    BY <1>4, <2>3
<1>11. CASE ReplaceUpstreamStep(c)
  <2>1. PICK u \in Sz, a \in BOOLEAN :
           IdsLeft /\ Step(c, ReplaceUpstream(ledger, slots[c], c, u, a))
    BY <1>11 DEF ReplaceUpstreamStep
  <2> DEFINE r == ReplaceUpstream(ledger, slots[c], c, u, a)
  <2>2. /\ Keeps(r, slots, c, Abstract!BudgetReplaceUpstream(B, c, u, a).budget)
        /\ Paired(r.slots)
    BY <1>2, <1>3, <2>1, ReplaceUpstreamDoes
  <2> HIDE DEF r
  <2>3. ChargesInv' /\ View(ledger', slots') = Abstract!BudgetReplaceUpstream(B, c, u, a).budget
    BY <2>1, <2>2, StepKeeps DEF r
  <2> QED
    BY <1>2, <1>4, <2>3
<1>12. CASE ReleaseAllStep(c)
  <2> DEFINE r == ReleaseAll(ledger, slots[c])
  <2>1. Keeps(r, slots, c, Abstract!BudgetDropAll(B, c)) /\ Paired(r.slots)
    BY <1>2, ReleaseAllDoes
  <2> HIDE DEF r
  <2>2. ChargesInv' /\ View(ledger', slots') = Abstract!BudgetDropAll(B, c)
    BY <1>12, <2>1, StepKeeps DEF ReleaseAllStep, r
  <2> QED
    BY <1>2, <1>4, <2>2
<1> QED
  BY <1>1, <1>5, <1>6, <1>7, <1>8, <1>9, <1>10, <1>11, <1>12

LEMMA ChargesBegin == ChargesInit => ChargesInv /\ Abstract!BudgetInit
<1> SUFFICES ASSUME ChargesInit PROVE ChargesInv /\ Abstract!BudgetInit
  OBVIOUS
<1>1. /\ ledger = NewLedger /\ slots = [c \in Owners |-> NoSlots] /\ Sound(ledger)
      /\ ledger.charges = << >> /\ ledger.used = 0 /\ ledger.pressure = "Normal"
  BY NewLedgerSound DEF ChargesInit, NewLedger
<1>2. DOMAIN ledger.charges = {} /\ NoId \in Nat
  BY <1>1 DEF NoId
<1>3. /\ slots \in [Owners -> [Slots -> Nat]]
      /\ \A c \in Owners, k \in Slots : slots[c][k] = NoId
  BY <1>1, <1>2 DEF NoSlots
<1>4. Owns(ledger.charges, slots)
  BY <1>2, <1>3 DEF Owns
<1>5. \A c \in Owners : Paired(slots[c])
  BY <1>3 DEF Paired, Slots
<1>6. [c \in Owners |-> Held(c)] = [c \in Owners |-> Abstract!EmptySlots]
  BY <1>2, <1>3 DEF Held, SlotBytes, IsLive, Abstract!EmptySlots, Abstract!Slots, Slots
<1>7. Abstract!BudgetInit
  BY <1>1, <1>6 DEF Abstract!BudgetInit, Abstract!NewBudget
<1> QED
  BY <1>1, <1>4, <1>5, <1>7 DEF ChargesInv, Good

LEMMA ChargesStep == ChargesInv /\ [ChargesNext]_chargeVars => ChargesInv'
<1> SUFFICES ASSUME ChargesInv, [ChargesNext]_chargeVars PROVE ChargesInv'
  OBVIOUS
<1>1. CASE ChargesNext
  BY <1>1, StepsKeep
<1>2. CASE UNCHANGED chargeVars
  BY <1>2 DEF chargeVars, ChargesInv
<1> QED
  BY <1>1, <1>2

THEOREM ChargesInvariant == ChargesSpec => []ChargesInv
  BY ChargesBegin, ChargesStep, PTL DEF ChargesSpec

(* After every transaction that succeeded, was refused or was rolled back,  *)
(* the slots own exactly the live charges, the upstream and retry charges   *)
(* come and go together, the running total is their sum and the pressure    *)
(* follows it, whatever the limit, the connections and the sizes.           *)
THEOREM ChargesAlwaysExact == ChargesSpec => []ChargesAreExact
<1>1. ChargesInv => ChargesAreExact
  <2> SUFFICES ASSUME ChargesInv PROVE ChargesAreExact
    OBVIOUS
  <2>1. SlotsOwnCharges
    BY DEF ChargesInv, Good, Owns, SlotsOwnCharges, IsLive
  <2>2. PairIsWhole
    BY DEF ChargesInv, Paired, PairIsWhole
  <2>3. UsedIsSumOfCharges /\ PressureHysteresis /\ PressureRecoverable
    BY DEF ChargesInv, Good, Sound, Counted, UsedIsSumOfCharges, PressureHysteresis,
           PressureRecoverable
  <2> QED
    BY <2>1, <2>2, <2>3 DEF ChargesAreExact
<1> QED
  BY <1>1, ChargesInvariant, PTL

(* Seen as bytes per slot, every transaction on the identified charges of   *)
(* the ledger is one operation of the abstract budget, or changes nothing   *)
(* of it: what DataPlane assumes of payload accounting holds of the code's  *)
(* ledger, for every limit, any connections and any sizes.                  *)
THEOREM BudgetImplemented == ChargesSpec => ImplementsBudget
<1>1. ChargesInv /\ [ChargesNext]_chargeVars => [Abstract!BudgetNext]_Seen
  <2> SUFFICES ASSUME ChargesInv, [ChargesNext]_chargeVars PROVE [Abstract!BudgetNext]_Seen
    OBVIOUS
  <2>1. CASE ChargesNext
    BY <2>1, StepsKeep
  <2>2. CASE UNCHANGED chargeVars
    BY <2>2, SeenIsView, SeenIsViewNext DEF chargeVars
  <2> QED
    BY <2>1, <2>2
<1> QED
  BY <1>1, ChargesBegin, ChargesInvariant, PTL
     DEF ChargesSpec, ImplementsBudget, Abstract!BudgetSpec, Seen

=============================================================================

------------------------- MODULE ObservabilityProofs -------------------------
(***************************************************************************)
(* Theorems about Observability, for channels, buffers and a sampler of    *)
(* any capacity, any number of events and any set of TLS failures.         *)
(*                                                                         *)
(* What the operator reads lags behind the loop by what is waiting in the  *)
(* channels, so the inductive invariant speaks of both: as long as nothing *)
(* was dropped, the latest waiting event of a gauge, or the registry when  *)
(* none waits, has the value the loop told last; the registry's count and  *)
(* the waiting requests add up to the requests; the feed and what waits    *)
(* for it are the newest requests in order; and the latest waiting         *)
(* pressure record, or the printed one, tells the pressure.  Of the        *)
(* sampler it says that a record whose key was forgotten, or recorded      *)
(* again with the clock set back, has a sampler's worth of other keys      *)
(* behind it.                                                              *)
(***************************************************************************)
EXTENDS Observability, FiniteSetTheorems, SequenceTheorems, TLAPS

-----------------------------------------------------------------------------
(* Types.                                                                  *)

SeriesNames == {"requests", "events", "duration", "payload", "connections", "available"}
Kinds       == {"Counter", "Histogram", "Gauge"}
Metrics     == {m \in [series : SeriesNames, kind : Kinds, value : Nat] :
                   /\ m.kind = KindOf[m.series]
                   /\ m.series = "requests" => m.value = 1}
PressureRecords == {"Pressured", "Exhausted", "FailedClosed", "Recovered"}
ProductRecords  == PressureRecords \cup {"Other"}

EventsOf(c) == IF c = "access" THEN Nat
               ELSE IF c = "metric" THEN Metrics
               ELSE IF c = "product" THEN ProductRecords
               ELSE IF c = "tls" THEN TlsKeys
               ELSE {"failure"}

Outs == [channel : [Channels -> UNION {Seq(EventsOf(c)) : c \in Channels}],
         open : Int, drops : Nat]
IsOut(o) == o \in Outs /\ \A c \in Channels : o.channel[c] \in Seq(EventsOf(c))

-----------------------------------------------------------------------------
(* Handing over.                                                           *)

(* What is emitted, not waiting and not in the drop counter.               *)
Balance(o) == o.open - Waiting(o) - o.drops

(* A send leaves the other channels alone, and either queues the event or  *)
(* counts it as dropped.                                                   *)
LEMMA SendCases ==
    ASSUME NEW o, IsOut(o), NEW c \in Channels, NEW e \in EventsOf(c),
           NEW n, n = Send(o, c, e)
    PROVE  /\ IsOut(n)
           /\ n.open = o.open + 1
           /\ \A d \in Channels : d # c => n.channel[d] = o.channel[d]
           /\ \/ n.channel[c] = Append(o.channel[c], e) /\ n.drops = o.drops
              \/ n.channel[c] = o.channel[c] /\ n.drops = o.drops + 1
<1> DEFINE q == o.channel[c]
<1>1. q \in Seq(EventsOf(c)) /\ Append(q, e) \in Seq(EventsOf(c))
  BY DEF IsOut
<1>2. o \in Outs
  BY DEF IsOut
<1>3. CASE Len(q) < Capacity[c]
  <2>1. n = [o EXCEPT !.channel = [o.channel EXCEPT ![c] = Append(q, e)], !.open = o.open + 1]
    BY <1>2, <1>3 DEF Send, Outs
  <2>2. /\ n.channel = [o.channel EXCEPT ![c] = Append(q, e)]
        /\ n.open = o.open + 1 /\ n.drops = o.drops
        /\ n = [channel |-> n.channel, open |-> n.open, drops |-> n.drops]
    BY <2>1, <1>2 DEF Outs
  <2>3. \A d \in Channels : n.channel[d] \in Seq(EventsOf(d))
    BY <2>2, <1>1, <1>2 DEF Outs, IsOut
  <2>4. n.channel \in [Channels -> UNION {Seq(EventsOf(d)) : d \in Channels}]
    BY <2>2, <2>3, <1>2 DEF Outs
  <2>5. n.open \in Int /\ n.drops \in Nat
    BY <2>2, <1>2 DEF Outs
  <2>6. n \in Outs
    BY <2>2, <2>4, <2>5 DEF Outs
  <2>7. \A d \in Channels : d # c => n.channel[d] = o.channel[d]
    BY <2>2, <1>2 DEF Outs
  <2>8. n.channel[c] = Append(o.channel[c], e)
    BY <2>2, <1>2 DEF Outs
  <2> QED BY <2>2, <2>3, <2>6, <2>7, <2>8 DEF IsOut
<1>4. CASE ~(Len(q) < Capacity[c])
  <2>1. n = [o EXCEPT !.open = o.open + 1, !.drops = o.drops + 1]
    BY <1>2, <1>4 DEF Send, Outs
  <2>2. /\ n.channel = o.channel /\ n.open = o.open + 1 /\ n.drops = o.drops + 1
        /\ n = [channel |-> n.channel, open |-> n.open, drops |-> n.drops]
    BY <2>1, <1>2 DEF Outs
  <2>3. o.channel \in [Channels -> UNION {Seq(EventsOf(d)) : d \in Channels}]
        /\ n.open \in Int /\ n.drops \in Nat
    BY <2>2, <1>2 DEF Outs
  <2>4. n \in Outs
    BY <2>2, <2>3 DEF Outs
  <2> QED BY <2>2, <2>4 DEF IsOut
<1> QED BY <1>3, <1>4

(* A send is accounted for.                                                *)
LEMMA SendBalances ==
    ASSUME NEW o, IsOut(o), NEW c \in Channels, NEW e \in EventsOf(c),
           NEW n, n = Send(o, c, e)
    PROVE  Balance(n) = Balance(o)
<1>1. /\ IsOut(n)
      /\ n.open = o.open + 1
      /\ \A d \in Channels : d # c => n.channel[d] = o.channel[d]
      /\ \/ n.channel[c] = Append(o.channel[c], e) /\ n.drops = o.drops
         \/ n.channel[c] = o.channel[c] /\ n.drops = o.drops + 1
  BY SendCases
<1>2. \A d \in Channels : Len(o.channel[d]) \in Nat /\ Len(n.channel[d]) \in Nat
  BY <1>1 DEF IsOut
<1>3. \A d \in Channels : d # c => Len(n.channel[d]) = Len(o.channel[d])
  BY <1>1
<1>4. \/ Len(n.channel[c]) = Len(o.channel[c]) + 1 /\ n.drops = o.drops
      \/ Len(n.channel[c]) = Len(o.channel[c]) /\ n.drops = o.drops + 1
  BY <1>1 DEF IsOut
<1>5. o.open \in Int /\ o.drops \in Nat
  BY DEF IsOut, Outs
<1>6. /\ Waiting(o) \in Nat
      /\ \/ Waiting(n) = Waiting(o) + 1 /\ n.drops = o.drops
         \/ Waiting(n) = Waiting(o) /\ n.drops = o.drops + 1
  <2> DEFINE x(d) == Len(o.channel[d])
             y(d) == Len(n.channel[d])
  <2>1. /\ \A d \in Channels : x(d) \in Nat /\ y(d) \in Nat
        /\ \A d \in Channels : d # c => y(d) = x(d)
        /\ \/ y(c) = x(c) + 1 /\ n.drops = o.drops
           \/ y(c) = x(c) /\ n.drops = o.drops + 1
    BY <1>2, <1>3, <1>4
  <2>2. /\ Waiting(o) = x("access") + x("error") + x("metric") + x("product") + x("tls")
        /\ Waiting(n) = y("access") + y("error") + y("metric") + y("product") + y("tls")
    BY DEF Waiting
  <2> HIDE DEF x, y
  <2>3. c \in {"access", "error", "metric", "product", "tls"}
    BY DEF Channels
  <2> QED BY <2>1, <2>2, <2>3 DEF Channels
<1> QED BY <1>1, <1>5, <1>6 DEF Balance

(* The number of waiting events.                                           *)
LEMMA WaitingTyped ==
    ASSUME NEW o, IsOut(o)
    PROVE  Waiting(o) \in Nat
<1> DEFINE x(c) == Len(o.channel[c])
<1>1. \A c \in Channels : x(c) \in Nat
  BY DEF IsOut
<1>2. Waiting(o) = x("access") + x("error") + x("metric") + x("product") + x("tls")
  BY DEF Waiting
<1> HIDE DEF x
<1> QED BY <1>1, <1>2 DEF Channels

-----------------------------------------------------------------------------
(* What waits in a channel and what its collector already has.             *)

ReadsOf(r, s) == IF s \in DOMAIN r.series THEN r.series[s].value ELSE 0

(* The value of a gauge, once everything that waits is collected.          *)
GaugeTold(q, r, s, v) ==
    /\ \A i \in DOMAIN q :
          q[i].series = s /\ (\A j \in DOMAIN q : j > i => q[j].series # s) => q[i].value = v
    /\ (\A i \in DOMAIN q : q[i].series # s) => ReadsOf(r, s) = v

(* The count of requests.                                                  *)
RequestsIn(q) == {i \in DOMAIN q : q[i].series = "requests"}
CountTold(q, r, n) == ReadsOf(r, "requests") + Cardinality(RequestsIn(q)) = n

(* The newest requests: those of the buffer and those that wait for it.    *)
FeedTold(a, b, n) ==
    /\ \A i \in DOMAIN a : a[i] = n - Len(a) - Len(b) + i
    /\ \A i \in DOMAIN b : b[i] = n - Len(b) + i

(* What a pressure record says of the pressure.                            *)
Tells(record, p) == /\ p = "Normal" <=> record = "Recovered"
                    /\ p = "FailedClosed" => record = "FailedClosed"
LogTold(q, record, p) ==
    /\ \A i \in DOMAIN q :
          q[i] # "Other" /\ (\A j \in DOMAIN q : j > i => q[j] = "Other") => Tells(q[i], p)
    /\ (\A i \in DOMAIN q : q[i] = "Other") => Tells(record, p)

(* Appending an event of another series changes nothing, one of the series *)
(* sets it.                                                                *)
LEMMA GaugeAppended ==
    ASSUME NEW q \in Seq(Metrics), NEW r, NEW s, NEW v, NEW e \in Metrics
    PROVE  /\ e.series # s /\ GaugeTold(q, r, s, v) => GaugeTold(Append(q, e), r, s, v)
           /\ e.series = s => GaugeTold(Append(q, e), r, s, e.value)
<1> DEFINE n == Append(q, e)
<1>1. /\ DOMAIN n = 1 .. Len(q) + 1 /\ DOMAIN q = 1 .. Len(q) /\ Len(q) \in Nat
      /\ \A i \in 1 .. Len(q) : n[i] = q[i]
      /\ n[Len(q) + 1] = e
  BY AppendProperties
<1> HIDE DEF n
<1>2. ASSUME e.series # s, GaugeTold(q, r, s, v)
      PROVE  GaugeTold(n, r, s, v)
  BY <1>1, <1>2 DEF GaugeTold
<1>3. ASSUME e.series = s
      PROVE  GaugeTold(n, r, s, e.value)
  BY <1>1, <1>3 DEF GaugeTold
<1> QED BY <1>2, <1>3 DEF n

(* The same for the records of the product log.                            *)
LEMMA LogAppended ==
    ASSUME NEW q \in Seq(ProductRecords), NEW record, NEW p, NEW p2, NEW e \in ProductRecords
    PROVE  /\ e = "Other" /\ LogTold(q, record, p) => LogTold(Append(q, e), record, p)
           /\ e # "Other" /\ Tells(e, p2) => LogTold(Append(q, e), record, p2)
<1> DEFINE n == Append(q, e)
<1>1. /\ DOMAIN n = 1 .. Len(q) + 1 /\ DOMAIN q = 1 .. Len(q) /\ Len(q) \in Nat
      /\ \A i \in 1 .. Len(q) : n[i] = q[i]
      /\ n[Len(q) + 1] = e
  BY AppendProperties
<1> HIDE DEF n
<1>2. ASSUME e = "Other", LogTold(q, record, p)
      PROVE  LogTold(n, record, p)
  BY <1>1, <1>2 DEF LogTold
<1>3. ASSUME e # "Other", Tells(e, p2)
      PROVE  LogTold(n, record, p2)
  BY <1>1, <1>3 DEF LogTold
<1> QED BY <1>2, <1>3 DEF n

(* The requests in a channel are finitely many, and an append adds one or  *)
(* none.                                                                   *)
LEMMA RequestsAppended ==
    ASSUME NEW q \in Seq(Metrics), NEW e \in Metrics
    PROVE  /\ IsFiniteSet(RequestsIn(q)) /\ Cardinality(RequestsIn(q)) \in Nat
           /\ Cardinality(RequestsIn(Append(q, e)))
                = Cardinality(RequestsIn(q)) + (IF e.series = "requests" THEN 1 ELSE 0)
<1> DEFINE n == Append(q, e)
<1>1. /\ DOMAIN n = 1 .. Len(q) + 1 /\ DOMAIN q = 1 .. Len(q) /\ Len(q) \in Nat
      /\ \A i \in 1 .. Len(q) : n[i] = q[i]
      /\ n[Len(q) + 1] = e
  BY AppendProperties
<1> HIDE DEF n
<1>2. IsFiniteSet(RequestsIn(q))
  <2>1. IsFiniteSet(1 .. Len(q))
    BY <1>1, FS_Interval
  <2>2. RequestsIn(q) \in SUBSET (1 .. Len(q))
    BY <1>1 DEF RequestsIn
  <2> QED BY <2>1, <2>2, FS_Subset
<1>3. Cardinality(RequestsIn(q)) \in Nat
  BY <1>2, FS_CardinalityType
<1>4. CASE e.series = "requests"
  <2>1. RequestsIn(n) = RequestsIn(q) \cup {Len(q) + 1} /\ Len(q) + 1 \notin RequestsIn(q)
    BY <1>1, <1>4 DEF RequestsIn
  <2>2. Cardinality(RequestsIn(n)) = Cardinality(RequestsIn(q)) + 1
    BY <2>1, <1>2, FS_AddElement
  <2> QED BY <2>2, <1>2, <1>3, <1>4 DEF n
<1>5. CASE e.series # "requests"
  <2>1. RequestsIn(n) = RequestsIn(q)
    BY <1>1, <1>5 DEF RequestsIn
  <2> QED BY <2>1, <1>2, <1>3, <1>5 DEF n
<1> QED BY <1>4, <1>5

(* Taking the head takes a request away when it is one.                    *)
LEMMA RequestsTaken ==
    ASSUME NEW q \in Seq(Metrics), q # <<>>
    PROVE  /\ Cardinality(RequestsIn(q)) \in Nat /\ Cardinality(RequestsIn(Tail(q))) \in Nat
           /\ Cardinality(RequestsIn(q))
                = Cardinality(RequestsIn(Tail(q))) + (IF Head(q).series = "requests" THEN 1 ELSE 0)
<1> DEFINE t == Tail(q)
           A == RequestsIn(q) \ {1}
           B == RequestsIn(t)
           f == [i \in B |-> i + 1]
<1>1. /\ DOMAIN q = 1 .. Len(q) /\ Len(q) \in Nat /\ Len(q) > 0 /\ Head(q) = q[1]
      /\ t \in Seq(Metrics) /\ DOMAIN t = 1 .. Len(q) - 1
      /\ \A i \in 1 .. Len(q) - 1 : t[i] = q[i + 1]
  BY HeadTailProperties
<1> HIDE DEF t
<1>2. IsFiniteSet(RequestsIn(q)) /\ IsFiniteSet(B)
  <2>1. IsFiniteSet(1 .. Len(q))
    BY <1>1, FS_Interval
  <2>2. RequestsIn(q) \in SUBSET (1 .. Len(q)) /\ B \in SUBSET (1 .. Len(q))
    BY <1>1 DEF RequestsIn
  <2> QED BY <2>1, <2>2, FS_Subset
<1>3. B = {i \in 1 .. Len(q) - 1 : q[i + 1].series = "requests"}
  BY <1>1 DEF RequestsIn
<1>4. A = {i \in 2 .. Len(q) : q[i].series = "requests"}
  BY <1>1 DEF RequestsIn
<1>5. f \in Bijection(B, A)
  <2>1. f \in [B -> A]
    BY <1>1, <1>3, <1>4
  <2>2. \A i, j \in B : f[i] = f[j] => i = j
    BY <1>1, <1>3
  <2>3. ASSUME NEW a \in A PROVE \E i \in B : f[i] = a
    <3>1. a - 1 \in B /\ f[a - 1] = a
      BY <1>1, <1>3, <1>4
    <3> QED BY <3>1
  <2> HIDE DEF f, A, B
  <2> QED BY <2>1, <2>2, <2>3 DEF Bijection, Injection, Surjection, IsInjective
<1>6. ExistsBijection(B, A)
  BY <1>5 DEF ExistsBijection
<1>7. IsFiniteSet(A) /\ Cardinality(A) = Cardinality(B)
  BY <1>2, <1>6, FS_Bijection
<1>8. Cardinality(A) = IF 1 \in RequestsIn(q) THEN Cardinality(RequestsIn(q)) - 1
                       ELSE Cardinality(RequestsIn(q))
  BY <1>2, FS_RemoveElement
<1>9. 1 \in RequestsIn(q) <=> Head(q).series = "requests"
  BY <1>1 DEF RequestsIn
<1>10. Cardinality(RequestsIn(q)) \in Nat /\ Cardinality(B) \in Nat
  BY <1>2, FS_CardinalityType
<1> HIDE DEF A, B, f
<1>11. Cardinality(RequestsIn(q)) = Cardinality(B) + (IF Head(q).series = "requests" THEN 1 ELSE 0)
  BY <1>7, <1>8, <1>9, <1>10
<1> QED BY <1>10, <1>11 DEF B, t

-----------------------------------------------------------------------------
(* What a collector does with the head of its channel.                     *)

Registries(r) ==
    /\ r = [series |-> r.series, refused |-> r.refused]
    /\ r.refused \in Nat
    /\ r.series = [s \in DOMAIN r.series |-> r.series[s]]
    /\ \A s \in DOMAIN r.series : r.series[s].value \in Nat

(* An observation is refused, or changes its own series only: it sets a    *)
(* gauge and adds to a counter.                                            *)
LEMMA ObserveCases ==
    ASSUME NEW r, Registries(r), NEW e \in Metrics, NEW n, n = RegistryObserve(r, e)
    PROVE  /\ Registries(n)
           /\ \/ n.refused = r.refused + 1
              \/ /\ n.refused = r.refused
                 /\ \A s : s # e.series => ReadsOf(n, s) = ReadsOf(r, s)
                 /\ ReadsOf(n, e.series)
                      = IF e.kind = "Gauge" THEN e.value ELSE ReadsOf(r, e.series) + e.value
<1>1. CASE ~Known(r, e) /\ SeriesRefused(r, e)
  <2>1. n = [series |-> r.series, refused |-> r.refused + 1]
    BY <1>1 DEF RegistryObserve, Registries
  <2>2. n.series = r.series /\ n.refused = r.refused + 1
    BY <2>1
  <2> QED BY <2>1, <2>2 DEF Registries
<1>2. CASE ~(~Known(r, e) /\ SeriesRefused(r, e))
  <2> DEFINE D == DOMAIN r.series \cup {e.series}
             g == [s \in D |-> IF s = e.series THEN Applied(r, e) ELSE r.series[s]]
  <2>1. n = [series |-> g, refused |-> r.refused]
    BY <1>2 DEF RegistryObserve, Registries
  <2>2. n.series = g /\ n.refused = r.refused
    BY <2>1
  <2>3. e.value \in Nat
    BY DEF Metrics
  <2>4. ReadsOf(r, e.series) \in Nat
    BY DEF ReadsOf, Registries, Metrics
  <2>5. Applied(r, e).value = IF e.kind = "Gauge" THEN e.value ELSE ReadsOf(r, e.series) + e.value
    BY DEF Applied, Known, ReadsOf
  <2>6. DOMAIN g = D /\ g = [s \in D |-> g[s]]
        /\ \A s \in D : g[s] = IF s = e.series THEN Applied(r, e) ELSE r.series[s]
    OBVIOUS
  <2> HIDE DEF g
  <2>7. ASSUME NEW s \in D PROVE g[s].value \in Nat
    <3>1. CASE s = e.series
      <4>1. g[s].value = Applied(r, e).value
        BY <2>6, <3>1
      <4> QED BY <2>3, <2>4, <2>5, <4>1
    <3>2. CASE s # e.series
      BY <2>6, <3>2 DEF Registries
    <3> QED BY <3>1, <3>2
  <2>8. Registries(n)
    BY <2>1, <2>2, <2>6, <2>7 DEF Registries
  <2>9. \A s : s # e.series => ReadsOf(n, s) = ReadsOf(r, s)
    BY <2>2, <2>6 DEF ReadsOf
  <2>10. ReadsOf(n, e.series) = Applied(r, e).value
    BY <2>2, <2>6 DEF ReadsOf
  <2> QED BY <2>2, <2>5, <2>8, <2>9, <2>10
<1> QED BY <1>1, <1>2

(* Observing the head of the channel leaves what a gauge will read.        *)
LEMMA GaugeTaken ==
    ASSUME NEW q \in Seq(Metrics), q # <<>>, NEW r, Registries(r), NEW n,
           n = RegistryObserve(r, Head(q)), n.refused = r.refused,
           NEW s \in {"payload", "connections"}, NEW v, GaugeTold(q, r, s, v)
    PROVE  GaugeTold(Tail(q), n, s, v)
<1> DEFINE t == Tail(q)
           e == Head(q)
<1>1. /\ DOMAIN q = 1 .. Len(q) /\ Len(q) \in Nat /\ Len(q) > 0 /\ e = q[1] /\ e \in Metrics
      /\ DOMAIN t = 1 .. Len(q) - 1
      /\ \A i \in 1 .. Len(q) - 1 : t[i] = q[i + 1]
  BY HeadTailProperties
<1>2. /\ Registries(n)
      /\ \A x : x # e.series => ReadsOf(n, x) = ReadsOf(r, x)
      /\ ReadsOf(n, e.series) = IF e.kind = "Gauge" THEN e.value ELSE ReadsOf(r, e.series) + e.value
  <2>1. n = RegistryObserve(r, e) /\ r.refused \in Nat
    BY DEF Registries
  <2>2. r.refused # r.refused + 1
    BY <2>1
  <2> HIDE DEF e
  <2> QED BY <1>1, <2>1, <2>2, ObserveCases
<1>3. e.series = s => e.kind = "Gauge"
  BY <1>1 DEF Metrics, KindOf
<1> HIDE DEF t, e
<1>4. \A i \in DOMAIN t : t[i].series = s /\ (\A j \in DOMAIN t : j > i => t[j].series # s)
         => t[i].value = v
  <2> SUFFICES ASSUME NEW i \in DOMAIN t, t[i].series = s,
                      \A j \in DOMAIN t : j > i => t[j].series # s
               PROVE  t[i].value = v
    OBVIOUS
  <2>1. i + 1 \in DOMAIN q /\ q[i + 1] = t[i]
    BY <1>1
  <2>2. ASSUME NEW j \in DOMAIN q, j > i + 1 PROVE q[j].series # s
    <3>1. j - 1 \in DOMAIN t /\ j - 1 > i /\ t[j - 1] = q[j]
      BY <1>1, <2>2
    <3> QED BY <3>1
  <2> QED BY <2>1, <2>2 DEF GaugeTold
<1>5. ASSUME \A i \in DOMAIN t : t[i].series # s
      PROVE  ReadsOf(n, s) = v
  <2>1. \A j \in DOMAIN q : j > 1 => q[j].series # s
    <3> SUFFICES ASSUME NEW j \in DOMAIN q, j > 1 PROVE q[j].series # s
      OBVIOUS
    <3>1. j - 1 \in DOMAIN t /\ t[j - 1] = q[j]
      BY <1>1
    <3> QED BY <3>1, <1>5
  <2>2. CASE e.series = s
    BY <1>1, <1>2, <1>3, <2>1, <2>2 DEF GaugeTold
  <2>3. CASE e.series # s
    <3>1. \A j \in DOMAIN q : q[j].series # s
      BY <1>1, <2>1, <2>3
    <3> QED BY <1>2, <2>3, <3>1 DEF GaugeTold
  <2> QED BY <2>2, <2>3
<1> QED BY <1>4, <1>5 DEF GaugeTold, t

(* The same for the number of requests.                                    *)
LEMMA CountTaken ==
    ASSUME NEW q \in Seq(Metrics), q # <<>>, NEW r, Registries(r), NEW n,
           n = RegistryObserve(r, Head(q)), n.refused = r.refused,
           NEW v, CountTold(q, r, v)
    PROVE  CountTold(Tail(q), n, v)
<1> DEFINE e == Head(q)
           c == Cardinality(RequestsIn(q))
           d == Cardinality(RequestsIn(Tail(q)))
<1>1. e \in Metrics
  BY HeadTailProperties
<1>2. /\ \A x : x # e.series => ReadsOf(n, x) = ReadsOf(r, x)
      /\ ReadsOf(n, e.series) = IF e.kind = "Gauge" THEN e.value ELSE ReadsOf(r, e.series) + e.value
  <2>1. n = RegistryObserve(r, e) /\ r.refused \in Nat
    BY DEF Registries
  <2>2. r.refused # r.refused + 1
    BY <2>1
  <2> HIDE DEF e
  <2> QED BY <1>1, <2>1, <2>2, ObserveCases
<1>3. e.series = "requests" => e.kind # "Gauge" /\ e.value = 1
  BY <1>1 DEF Metrics, KindOf
<1>4. ReadsOf(r, "requests") \in Nat
  BY DEF ReadsOf, Registries
<1>5. c \in Nat /\ d \in Nat /\ c = d + (IF e.series = "requests" THEN 1 ELSE 0)
  BY RequestsTaken
<1>6. ReadsOf(r, "requests") + c = v
  BY DEF CountTold
<1> HIDE DEF c, d, e
<1>7. ReadsOf(n, "requests") + d = v
  BY <1>2, <1>3, <1>4, <1>5, <1>6
<1> QED BY <1>7 DEF CountTold, d

(* The collector of the product log.                                       *)
LEMMA LogTaken ==
    ASSUME NEW q \in Seq(ProductRecords), q # <<>>, NEW record, NEW p, LogTold(q, record, p)
    PROVE  LogTold(Tail(q), IF Head(q) = "Other" THEN record ELSE Head(q), p)
<1> DEFINE t == Tail(q)
           e == Head(q)
           n == IF e = "Other" THEN record ELSE e
<1>1. /\ DOMAIN q = 1 .. Len(q) /\ Len(q) \in Nat /\ Len(q) > 0 /\ e = q[1]
      /\ DOMAIN t = 1 .. Len(q) - 1
      /\ \A i \in 1 .. Len(q) - 1 : t[i] = q[i + 1]
  BY HeadTailProperties
<1> HIDE DEF t, e
<1>4. \A i \in DOMAIN t : t[i] # "Other" /\ (\A j \in DOMAIN t : j > i => t[j] = "Other")
         => Tells(t[i], p)
  <2> SUFFICES ASSUME NEW i \in DOMAIN t, t[i] # "Other",
                      \A j \in DOMAIN t : j > i => t[j] = "Other"
               PROVE  Tells(t[i], p)
    OBVIOUS
  <2>1. i + 1 \in DOMAIN q /\ q[i + 1] = t[i]
    BY <1>1
  <2>2. ASSUME NEW j \in DOMAIN q, j > i + 1 PROVE q[j] = "Other"
    <3>1. j - 1 \in DOMAIN t /\ j - 1 > i /\ t[j - 1] = q[j]
      BY <1>1, <2>2
    <3> QED BY <3>1
  <2> QED BY <2>1, <2>2 DEF LogTold
<1>5. ASSUME \A i \in DOMAIN t : t[i] = "Other"
      PROVE  Tells(n, p)
  <2>1. \A j \in DOMAIN q : j > 1 => q[j] = "Other"
    <3> SUFFICES ASSUME NEW j \in DOMAIN q, j > 1 PROVE q[j] = "Other"
      OBVIOUS
    <3>1. j - 1 \in DOMAIN t /\ t[j - 1] = q[j]
      BY <1>1
    <3> QED BY <3>1, <1>5
  <2>2. CASE e # "Other"
    BY <1>1, <2>1, <2>2 DEF LogTold
  <2>3. CASE e = "Other"
    <3>1. ASSUME NEW j \in DOMAIN q PROVE q[j] = "Other"
      <4>1. j = 1 \/ j > 1
        BY <1>1
      <4> QED BY <1>1, <2>1, <2>3, <4>1
    <3> QED BY <2>3, <3>1 DEF LogTold
  <2> QED BY <2>2, <2>3
<1> QED BY <1>4, <1>5 DEF LogTold, t, e

(* A request that is answered goes to the back of the feed.                *)
LEMMA FeedAppended ==
    ASSUME NEW a \in Seq(Nat), NEW b \in Seq(Nat), NEW n \in Nat, FeedTold(a, b, n)
    PROVE  FeedTold(a, Append(b, n + 1), n + 1)
<1> DEFINE d == Append(b, n + 1)
<1>1. /\ DOMAIN d = 1 .. Len(b) + 1 /\ DOMAIN b = 1 .. Len(b) /\ Len(b) \in Nat
      /\ Len(d) = Len(b) + 1
      /\ \A i \in 1 .. Len(b) : d[i] = b[i]
      /\ d[Len(b) + 1] = n + 1
  BY AppendProperties
<1>2. Len(a) \in Nat /\ DOMAIN a = 1 .. Len(a)
  BY LenProperties
<1> HIDE DEF d
<1> QED BY <1>1, <1>2 DEF FeedTold, d

(* Collecting a request moves it to the buffer, which may drop its oldest. *)
LEMMA FeedTaken ==
    ASSUME NEW a \in Seq(Nat), NEW b \in Seq(Nat), NEW n \in Nat, FeedTold(a, b, n), b # <<>>
    PROVE  FeedTold(Push(a, Head(b)), Tail(b), n) /\ Push(a, Head(b)) \in Seq(Nat)
<1> DEFINE k == IF Len(a) >= RecentCapacity THEN Tail(a) ELSE a
           c == Append(k, Head(b))
           t == Tail(b)
<1>1. /\ DOMAIN b = 1 .. Len(b) /\ Len(b) \in Nat /\ Len(b) > 0 /\ Head(b) = b[1]
      /\ Head(b) \in Nat /\ DOMAIN t = 1 .. Len(b) - 1 /\ Len(t) = Len(b) - 1
      /\ \A i \in 1 .. Len(b) - 1 : t[i] = b[i + 1]
  BY HeadTailProperties
<1>2. Len(a) \in Nat /\ DOMAIN a = 1 .. Len(a)
  BY LenProperties
<1>3. k \in Seq(Nat) /\ Len(k) \in Nat /\ DOMAIN k = 1 .. Len(k)
      /\ \A i \in 1 .. Len(k) : k[i] = n - Len(k) - Len(b) + i
  <2>1. CASE Len(a) >= RecentCapacity
    <3>1. a # <<>>
      BY <1>2, <2>1, ObservabilityAssumption
    <3>2. k \in Seq(Nat) /\ Len(k) = Len(a) - 1 /\ DOMAIN k = 1 .. Len(k)
          /\ \A i \in 1 .. Len(k) : k[i] = a[i + 1]
      BY <2>1, <3>1, HeadTailProperties
    <3> HIDE DEF k
    <3>3. ASSUME NEW i \in 1 .. Len(k) PROVE k[i] = n - Len(k) - Len(b) + i
      <4>1. i + 1 \in DOMAIN a /\ k[i] = a[i + 1]
        BY <1>2, <3>2
      <4>2. a[i + 1] = n - Len(a) - Len(b) + (i + 1)
        BY <4>1 DEF FeedTold
      <4> QED BY <1>1, <1>2, <3>2, <4>1, <4>2
    <3> QED BY <1>2, <3>2, <3>3
  <2>2. CASE ~(Len(a) >= RecentCapacity)
    BY <1>2, <2>2 DEF FeedTold
  <2> QED BY <2>1, <2>2
<1> HIDE DEF k
<1>4. /\ c \in Seq(Nat) /\ DOMAIN c = 1 .. Len(k) + 1 /\ Len(c) = Len(k) + 1
      /\ \A i \in 1 .. Len(k) : c[i] = k[i]
      /\ c[Len(k) + 1] = Head(b)
  BY <1>1, <1>3, AppendProperties
<1>5. c = Push(a, Head(b))
  BY DEF Push, k
<1> HIDE DEF c, t
<1>6. FeedTold(c, t, n)
  <2>1. ASSUME NEW i \in DOMAIN c PROVE c[i] = n - Len(c) - Len(t) + i
    <3>1. CASE i \in 1 .. Len(k)
      BY <1>1, <1>3, <1>4, <3>1
    <3>2. CASE i = Len(k) + 1
      <4>1. b[1] = n - Len(b) + 1
        <5>1. 1 \in DOMAIN b
          BY <1>1
        <5> QED BY <5>1 DEF FeedTold
      <4> QED BY <1>1, <1>3, <1>4, <3>2, <4>1
    <3> QED BY <1>3, <1>4, <3>1, <3>2
  <2>2. ASSUME NEW i \in DOMAIN t PROVE t[i] = n - Len(t) + i
    <3>1. i + 1 \in DOMAIN b /\ t[i] = b[i + 1]
      BY <1>1
    <3>2. b[i + 1] = n - Len(b) + (i + 1)
      BY <3>1 DEF FeedTold
    <3> QED BY <1>1, <3>1, <3>2
  <2> QED BY <2>1, <2>2 DEF FeedTold
<1> QED BY <1>4, <1>5, <1>6 DEF t

-----------------------------------------------------------------------------
(* The loop tells.                                                         *)

Decisions == {"RejectedFailedClosed", "RejectedPayloadPressure", "RejectedConnectionLimit"}
DrainStates == {"Active", "Draining", "Drained"}
Statuses  == [revision : Int, used : Nat, connections : Nat, pressure : PressureStates]
Loops     == [used : Nat, pressure : PressureStates, connections : Nat, revision : Int,
              drain : DrainStates]
Lasts     == [bytes : Nat, pressure : PressureStates, status : Statuses,
              rejections : SUBSET Decisions]
Mirrors   == [resource : Statuses, drain : DrainStates]
Tallies   == [events : Nat, requests : Nat, missed : Nat, twice : Nat]

(* What the collectors will know of the loop when they have caught up,     *)
(* unless something was dropped or refused.                                *)
Gauge(o, s, v) == o.drops = 0 /\ registry.refused = 0
                     => GaugeTold(o.channel["metric"], registry, s, v)
Counts(o, n)   == o.drops = 0 /\ registry.refused = 0
                     => CountTold(o.channel["metric"], registry, n)
Feeds(o, n)    == o.drops = 0 => FeedTold(recent.access, o.channel["access"], n)
Logs(o, p)     == o.drops = 0 => LogTold(o.channel["product"], printed.pressure, p)

Informed(o, bytes, conns, counted, fed, p) ==
    /\ Gauge(o, "payload", bytes) /\ Gauge(o, "connections", conns)
    /\ Counts(o, counted) /\ Feeds(o, fed) /\ Logs(o, p)

Collected == /\ Registries(registry)
             /\ recent \in [access : Seq(Nat), error : Seq({"failure"})]

(* Events of which nothing above speaks.                                   *)
Silently(c, e) == \/ c \in {"error", "tls"}
                  \/ c = "product" /\ e = "Other"
                  \/ c = "metric" /\ e.series \in {"events", "duration", "available"}

(* A send changes what the collectors will know by the event it sends.     *)
LEMMA SendGauge ==
    ASSUME NEW o, IsOut(o), NEW c \in Channels, NEW e \in EventsOf(c),
           NEW n, n = Send(o, c, e), NEW s, NEW v
    PROVE  /\ (c = "metric" => e.series # s) /\ Gauge(o, s, v) => Gauge(n, s, v)
           /\ c = "metric" /\ e.series = s => Gauge(n, s, e.value)
<1>1. /\ o.drops \in Nat
      /\ o.channel["metric"] \in Seq(Metrics)
      /\ c = "metric" => e \in Metrics
  BY DEF IsOut, Outs, EventsOf, Channels
<1>2. /\ c # "metric" => n.channel["metric"] = o.channel["metric"]
      /\ \/ n.channel[c] = Append(o.channel[c], e) /\ n.drops = o.drops
         \/ n.drops = o.drops + 1
  <2>1. {"access", "metric", "product"} \subseteq Channels
    BY DEF Channels
  <2> QED BY <2>1, SendCases
<1>3. n.drops = 0 => o.drops = 0 /\ n.channel[c] = Append(o.channel[c], e)
  BY <1>1, <1>2
<1>4. ASSUME c = "metric" => e.series # s, Gauge(o, s, v), n.drops = 0, registry.refused = 0
      PROVE  GaugeTold(n.channel["metric"], registry, s, v)
  <2>1. GaugeTold(o.channel["metric"], registry, s, v)
    BY <1>3, <1>4 DEF Gauge
  <2> QED BY <1>1, <1>2, <1>3, <1>4, <2>1, GaugeAppended
<1>5. ASSUME c = "metric", e.series = s, n.drops = 0
      PROVE  GaugeTold(n.channel["metric"], registry, s, e.value)
  BY <1>1, <1>3, <1>5, GaugeAppended
<1> QED BY <1>4, <1>5 DEF Gauge

(* The number of requests.                                                 *)
LEMMA SendCount ==
    ASSUME NEW o, IsOut(o), NEW c \in Channels, NEW e \in EventsOf(c), Collected,
           NEW n, n = Send(o, c, e), NEW v \in Nat, Counts(o, v)
    PROVE  Counts(n, IF c = "metric" /\ e.series = "requests" THEN v + 1 ELSE v)
<1> DEFINE w == IF c = "metric" /\ e.series = "requests" THEN v + 1 ELSE v
<1>1. /\ o.drops \in Nat
      /\ o.channel["metric"] \in Seq(Metrics)
      /\ c = "metric" => e \in Metrics
  BY DEF IsOut, Outs, EventsOf, Channels
<1>2. /\ c # "metric" => n.channel["metric"] = o.channel["metric"]
      /\ \/ n.channel[c] = Append(o.channel[c], e) /\ n.drops = o.drops
         \/ n.drops = o.drops + 1
  <2>1. {"access", "metric", "product"} \subseteq Channels
    BY DEF Channels
  <2> QED BY <2>1, SendCases
<1>3. n.drops = 0 => o.drops = 0 /\ n.channel[c] = Append(o.channel[c], e)
  BY <1>1, <1>2
<1>4. ASSUME n.drops = 0, registry.refused = 0
      PROVE  CountTold(n.channel["metric"], registry, w)
  <2> DEFINE q == o.channel["metric"]
             k == Cardinality(RequestsIn(q))
             x == ReadsOf(registry, "requests")
  <2>1. x + k = v
    BY <1>3, <1>4 DEF Counts, CountTold
  <2>2. x \in Nat
    BY DEF ReadsOf, Registries, Collected
  <2>3. CASE c # "metric"
    BY <1>2, <2>1, <2>3 DEF CountTold
  <2>4. CASE c = "metric"
    <3>1. n.channel["metric"] = Append(q, e)
      BY <1>3, <1>4, <2>4
    <3>2. k \in Nat /\ Cardinality(RequestsIn(Append(q, e)))
                          = k + (IF e.series = "requests" THEN 1 ELSE 0)
      BY <1>1, <2>4, RequestsAppended
    <3> DEFINE m == Cardinality(RequestsIn(n.channel["metric"]))
    <3>3. m = k + (IF e.series = "requests" THEN 1 ELSE 0)
      BY <3>1, <3>2
    <3> HIDE DEF k, x, q, m
    <3>4. CASE e.series = "requests"
      <4>1. x + m = v + 1 /\ w = v + 1
        BY <2>1, <2>2, <2>4, <3>2, <3>3, <3>4
      <4> QED BY <4>1 DEF CountTold, x, m
    <3>5. CASE e.series # "requests"
      <4>1. x + m = v /\ w = v
        BY <2>1, <2>2, <2>4, <3>2, <3>3, <3>5
      <4> QED BY <4>1 DEF CountTold, x, m
    <3> QED BY <3>4, <3>5
  <2> QED BY <2>3, <2>4
<1> QED BY <1>4 DEF Counts

(* The feed.                                                               *)
LEMMA SendFeed ==
    ASSUME NEW o, IsOut(o), NEW c \in Channels, NEW e \in EventsOf(c), Collected,
           NEW n, n = Send(o, c, e), NEW v \in Nat, Feeds(o, v)
    PROVE  /\ c # "access" => Feeds(n, v)
           /\ c = "access" /\ e = v + 1 => Feeds(n, v + 1)
<1>1. /\ o.drops \in Nat
      /\ o.channel["access"] \in Seq(Nat)
  BY DEF IsOut, Outs, EventsOf, Channels
<1>2. /\ c # "access" => n.channel["access"] = o.channel["access"]
      /\ \/ n.channel[c] = Append(o.channel[c], e) /\ n.drops = o.drops
         \/ n.drops = o.drops + 1
  <2>1. {"access", "metric", "product"} \subseteq Channels
    BY DEF Channels
  <2> QED BY <2>1, SendCases
<1>3. n.drops = 0 => o.drops = 0 /\ n.channel[c] = Append(o.channel[c], e)
  BY <1>1, <1>2
<1>4. recent.access \in Seq(Nat)
  BY DEF Collected
<1>5. ASSUME n.drops = 0, c # "access"
      PROVE  FeedTold(recent.access, n.channel["access"], v)
  BY <1>2, <1>3, <1>5 DEF Feeds
<1>6. ASSUME n.drops = 0, c = "access", e = v + 1
      PROVE  FeedTold(recent.access, n.channel["access"], v + 1)
  <2>1. FeedTold(recent.access, o.channel["access"], v)
    BY <1>3, <1>6 DEF Feeds
  <2>2. n.channel["access"] = Append(o.channel["access"], v + 1)
    BY <1>3, <1>6
  <2> QED BY <1>1, <1>4, <2>1, <2>2, FeedAppended
<1> QED BY <1>5, <1>6 DEF Feeds

(* The pressure records.                                                   *)
LEMMA SendLog ==
    ASSUME NEW o, IsOut(o), NEW c \in Channels, NEW e \in EventsOf(c),
           NEW n, n = Send(o, c, e), NEW p, NEW p2
    PROVE  /\ (c = "product" => e = "Other") /\ Logs(o, p) => Logs(n, p)
           /\ c = "product" /\ e # "Other" /\ Tells(e, p2) => Logs(n, p2)
<1>1. /\ o.drops \in Nat
      /\ o.channel["product"] \in Seq(ProductRecords)
      /\ c = "product" => e \in ProductRecords
  BY DEF IsOut, Outs, EventsOf, Channels
<1>2. /\ c # "product" => n.channel["product"] = o.channel["product"]
      /\ \/ n.channel[c] = Append(o.channel[c], e) /\ n.drops = o.drops
         \/ n.drops = o.drops + 1
  <2>1. {"access", "metric", "product"} \subseteq Channels
    BY DEF Channels
  <2> QED BY <2>1, SendCases
<1>3. n.drops = 0 => o.drops = 0 /\ n.channel[c] = Append(o.channel[c], e)
  BY <1>1, <1>2
<1>4. ASSUME c = "product" => e = "Other", Logs(o, p), n.drops = 0
      PROVE  LogTold(n.channel["product"], printed.pressure, p)
  <2>1. LogTold(o.channel["product"], printed.pressure, p)
    BY <1>3, <1>4 DEF Logs
  <2> QED BY <1>1, <1>2, <1>3, <1>4, <2>1, LogAppended
<1>5. ASSUME c = "product", e # "Other", Tells(e, p2), n.drops = 0
      PROVE  LogTold(n.channel["product"], printed.pressure, p2)
  BY <1>1, <1>3, <1>5, LogAppended
<1> QED BY <1>4, <1>5 DEF Logs

(* Events of which the invariant does not speak are accounted for and      *)
(* leave the rest as it was.                                               *)
LEMMA SendSilently ==
    ASSUME NEW o, IsOut(o), NEW c \in Channels, NEW e \in EventsOf(c), Silently(c, e), Collected,
           NEW n, n = Send(o, c, e), NEW bytes, NEW conns, NEW k \in Nat, NEW f \in Nat, NEW p,
           Informed(o, bytes, conns, k, f, p)
    PROVE  IsOut(n) /\ Balance(n) = Balance(o) /\ Informed(n, bytes, conns, k, f, p)
<1>1. IsOut(n) /\ Balance(n) = Balance(o)
  BY SendCases, SendBalances
<1>2. /\ c = "metric" => e.series \notin {"payload", "connections", "requests"}
      /\ c = "product" => e = "Other"
      /\ c # "access"
  BY DEF Silently
<1>3. Gauge(n, "payload", bytes) /\ Gauge(n, "connections", conns)
  BY <1>2, SendGauge DEF Informed
<1>4. Counts(n, k)
  BY <1>2, SendCount DEF Informed
<1>5. Feeds(n, f)
  BY <1>2, SendFeed DEF Informed
<1>6. Logs(n, p)
  BY <1>2, SendLog DEF Informed
<1> QED BY <1>1, <1>3, <1>4, <1>5, <1>6 DEF Informed

-----------------------------------------------------------------------------
(* What the loop believes it has told, and what it tells.                  *)

Tellings == [last : Lasts, out : Outs, mirror : Mirrors, tally : Tallies]

(* What the loop believes is true of the collectors and the mirror, and    *)
(* everything it emitted is accounted for.                                 *)
Accounted(s) == Balance(s.out) + s.tally.missed = s.tally.twice
Honest(s, conns) ==
    /\ s \in Tellings /\ IsOut(s.out) /\ Accounted(s)
    /\ Informed(s.out, s.last.bytes, conns, s.tally.requests, s.tally.requests, s.last.pressure)
    /\ s.out.drops = 0 => s.mirror.resource = s.last.status

(* The parts of a telling.                                                 *)
LEMMA TellingParts ==
    ASSUME NEW s \in Tellings
    PROVE  /\ s = [last |-> s.last, out |-> s.out, mirror |-> s.mirror, tally |-> s.tally]
           /\ s.last = [bytes |-> s.last.bytes, pressure |-> s.last.pressure,
                        status |-> s.last.status, rejections |-> s.last.rejections]
           /\ s.mirror = [resource |-> s.mirror.resource, drain |-> s.mirror.drain]
           /\ s.tally = [events |-> s.tally.events, requests |-> s.tally.requests,
                         missed |-> s.tally.missed, twice |-> s.tally.twice]
           /\ s.out = [channel |-> s.out.channel, open |-> s.out.open, drops |-> s.out.drops]
           /\ s.last \in Lasts /\ s.out \in Outs /\ s.mirror \in Mirrors /\ s.tally \in Tallies
  BY DEF Tellings, Lasts, Outs, Mirrors, Tallies

(* The status of a loop.                                                   *)
LEMMA StatusTyped ==
    ASSUME NEW l \in Loops
    PROVE  StatusOf(l) \in Statuses
  BY DEF StatusOf, Loops, Statuses

(* Once something was dropped, nothing is promised of the collectors.      *)
LEMMA DroppedInforms ==
    ASSUME NEW o, o.drops # 0, NEW a, NEW b, NEW c, NEW d, NEW e
    PROVE  Informed(o, a, b, c, d, e)
  BY DEF Informed, Gauge, Counts, Feeds, Logs

(* A refusal raises the drop counter.                                      *)
LEMMA DropWritten ==
    ASSUME NEW C, NEW o \in [channel : C, open : Int, drops : Nat]
    PROVE  [o EXCEPT !.drops = o.drops + 1]
             = [channel |-> o.channel, open |-> o.open, drops |-> o.drops + 1]
  OBVIOUS

(* The records they write to.                                              *)
LEMMA PartsWritten ==
    ASSUME NEW s \in Tellings, NEW x
    PROVE  /\ [s.last EXCEPT !.status = x]
                = [bytes |-> s.last.bytes, pressure |-> s.last.pressure,
                   status |-> x, rejections |-> s.last.rejections]
           /\ [s.out EXCEPT !.drops = s.out.drops + 1]
                = [channel |-> s.out.channel, open |-> s.out.open, drops |-> s.out.drops + 1]
           /\ [s.tally EXCEPT !.missed = s.tally.missed + 1]
                = [events |-> s.tally.events, requests |-> s.tally.requests,
                   missed |-> s.tally.missed + 1, twice |-> s.tally.twice]
           /\ [s.mirror EXCEPT !.resource = x] = [resource |-> x, drain |-> s.mirror.drain]
<1>1. s.last \in Lasts /\ s.out \in Outs /\ s.mirror \in Mirrors /\ s.tally \in Tallies
  BY DEF Tellings
<1>2. [s.last EXCEPT !.status = x]
        = [bytes |-> s.last.bytes, pressure |-> s.last.pressure,
           status |-> x, rejections |-> s.last.rejections]
  BY <1>1 DEF Lasts
<1>3. [s.out EXCEPT !.drops = s.out.drops + 1]
        = [channel |-> s.out.channel, open |-> s.out.open, drops |-> s.out.drops + 1]
  BY <1>1, DropWritten DEF Outs
<1>4. [s.tally EXCEPT !.missed = s.tally.missed + 1]
        = [events |-> s.tally.events, requests |-> s.tally.requests,
           missed |-> s.tally.missed + 1, twice |-> s.tally.twice]
  BY <1>1 DEF Tallies
<1>5. [s.mirror EXCEPT !.resource = x] = [resource |-> x, drain |-> s.mirror.drain]
  BY <1>1 DEF Mirrors
<1> QED BY <1>2, <1>3, <1>4, <1>5

(* emit_resource_status_if_changed.                                        *)
LEMMA StatusEmitted ==
    ASSUME NEW conns, NEW s, Honest(s, conns), NEW l \in Loops, NEW busy \in BOOLEAN,
           NEW t, t = EmitStatus(s, l, busy)
    PROVE  /\ Honest(t, conns)
           /\ t.last.status = StatusOf(l)
           /\ t.last.bytes = s.last.bytes /\ t.last.pressure = s.last.pressure
           /\ t.tally.requests = s.tally.requests
<1>1. CASE s.last.status = StatusOf(l)
  BY <1>1 DEF EmitStatus, StatusUnchanged
<1>2. CASE s.last.status # StatusOf(l) /\ busy
  <2> DEFINE a == [bytes |-> s.last.bytes, pressure |-> s.last.pressure,
                   status |-> StatusOf(l), rejections |-> s.last.rejections]
             o == [channel |-> s.out.channel, open |-> s.out.open, drops |-> s.out.drops + 1]
             y == [events |-> s.tally.events, requests |-> s.tally.requests,
                   missed |-> s.tally.missed + 1, twice |-> s.tally.twice]
  <2>1. t = [last |-> a, out |-> o, mirror |-> s.mirror, tally |-> y]
    <3>1. s \in Tellings
      BY DEF Honest
    <3>2. t = [s EXCEPT !.last.status = StatusOf(l), !.out.drops = @ + 1, !.tally.missed = @ + 1]
      BY <1>2 DEF EmitStatus, StatusUnchanged
    <3>3. /\ t.last = [s.last EXCEPT !.status = StatusOf(l)]
          /\ t.out = [s.out EXCEPT !.drops = s.out.drops + 1]
          /\ t.mirror = s.mirror
          /\ t.tally = [s.tally EXCEPT !.missed = s.tally.missed + 1]
          /\ t = [last |-> t.last, out |-> t.out, mirror |-> t.mirror, tally |-> t.tally]
      BY <3>1, <3>2 DEF Tellings
    <3>4. /\ [s.last EXCEPT !.status = StatusOf(l)] = a
          /\ [s.out EXCEPT !.drops = s.out.drops + 1] = o
          /\ [s.tally EXCEPT !.missed = s.tally.missed + 1] = y
      BY <3>1, PartsWritten, Zenon
    <3> HIDE DEF a, o, y
    <3> QED BY <3>3, <3>4, Zenon
  <2>2. a \in Lasts
    BY StatusTyped, TellingParts DEF Lasts, Honest
  <2>3. o \in Outs /\ IsOut(o)
    <3>1. s.out \in Outs
      BY DEF IsOut, Honest
    <3>2. s.out.channel \in [Channels -> UNION {Seq(EventsOf(c)) : c \in Channels}]
          /\ s.out.open \in Int /\ s.out.drops + 1 \in Nat
      BY <3>1 DEF Outs
    <3>3. o \in Outs
      BY <3>2 DEF Outs
    <3> QED BY <3>3 DEF IsOut, Honest
  <2>4. y \in Tallies
    <3>1. s.tally \in Tallies
      BY DEF Honest, Tellings
    <3> QED BY <3>1 DEF Tallies
  <2>5. t.last = a /\ t.out = o /\ t.mirror = s.mirror /\ t.tally = y
    BY <2>1
  <2>6. t \in Tellings
    BY <2>1, <2>2, <2>3, <2>4, TellingParts DEF Tellings, Honest
  <2>7. o.drops # 0
    <3>1. s.out.drops \in Nat
      BY DEF Honest, IsOut, Outs
    <3> QED BY <3>1
  <2>8. Balance(o) + y.missed = y.twice
    <3>1. Waiting(o) = Waiting(s.out)
      BY DEF Waiting
    <3>2. /\ o.open = s.out.open /\ o.drops = s.out.drops + 1 /\ s.out.drops \in Nat
          /\ s.out.open \in Int /\ y.missed = s.tally.missed + 1 /\ s.tally.missed \in Nat
          /\ y.twice = s.tally.twice
      BY TellingParts DEF Outs, Tallies, Honest
    <3>3. Waiting(s.out) \in Int
      <4>1. \A c \in Channels : Len(s.out.channel[c]) \in Nat
        BY DEF Honest, IsOut
      <4> DEFINE x(c) == Len(s.out.channel[c])
      <4>2. \A c \in Channels : x(c) \in Nat
        BY <4>1
      <4>3. Waiting(s.out) = x("access") + x("error") + x("metric") + x("product") + x("tls")
        BY DEF Waiting
      <4> HIDE DEF x
      <4> QED BY <4>2, <4>3 DEF Channels
    <3>4. s.out.open - Waiting(s.out) - s.out.drops + s.tally.missed = s.tally.twice
      BY DEF Honest, Accounted, Balance
    <3> HIDE DEF o, y
    <3> QED BY <3>1, <3>2, <3>3, <3>4 DEF Balance
  <2> HIDE DEF o, y
  <2>9. Honest(t, conns)
    BY <2>3, <2>5, <2>6, <2>7, <2>8, DroppedInforms DEF Honest, Accounted
  <2> QED BY <2>5, <2>9 DEF y
<1>3. CASE s.last.status # StatusOf(l) /\ ~busy
  <2> DEFINE a == [bytes |-> s.last.bytes, pressure |-> s.last.pressure,
                   status |-> StatusOf(l), rejections |-> s.last.rejections]
             m == [resource |-> StatusOf(l), drain |-> s.mirror.drain]
  <2>1. t = [last |-> a, out |-> s.out, mirror |-> m, tally |-> s.tally]
    <3>1. s \in Tellings
      BY DEF Honest
    <3>2. t = [s EXCEPT !.last.status = StatusOf(l), !.mirror.resource = StatusOf(l)]
      BY <1>3 DEF EmitStatus, StatusUnchanged
    <3>3. /\ t.last = [s.last EXCEPT !.status = StatusOf(l)]
          /\ t.out = s.out
          /\ t.mirror = [s.mirror EXCEPT !.resource = StatusOf(l)]
          /\ t.tally = s.tally
          /\ t = [last |-> t.last, out |-> t.out, mirror |-> t.mirror, tally |-> t.tally]
      BY <3>1, <3>2 DEF Tellings
    <3>4. /\ [s.last EXCEPT !.status = StatusOf(l)] = a
          /\ [s.mirror EXCEPT !.resource = StatusOf(l)] = m
      BY <3>1, PartsWritten, Zenon
    <3> HIDE DEF a, m
    <3> QED BY <3>3, <3>4, Zenon
  <2>2. a \in Lasts /\ m \in Mirrors
    BY StatusTyped, TellingParts DEF Lasts, Mirrors, Honest
  <2>3. t.last = a /\ t.out = s.out /\ t.mirror = m /\ t.tally = s.tally
    BY <2>1
  <2>4. t \in Tellings
    BY <2>1, <2>2, TellingParts DEF Tellings, Honest
  <2>5. a.bytes = s.last.bytes /\ a.pressure = s.last.pressure /\ a.status = StatusOf(l)
        /\ m.resource = StatusOf(l)
    OBVIOUS
  <2> HIDE DEF a, m
  <2> QED BY <2>3, <2>4, <2>5 DEF Honest, Accounted
<1> QED BY <1>1, <1>2, <1>3

(* A telling whose channels alone change.                                  *)
LEMMA OutReplaced ==
    ASSUME NEW s \in Tellings, NEW o \in Outs, NEW t, t = [s EXCEPT !.out = o]
    PROVE  /\ t \in Tellings /\ t.out = o
           /\ t.last = s.last /\ t.mirror = s.mirror /\ t.tally = s.tally
  BY DEF Tellings

(* emit_active_connection_metric.                                          *)
LEMMA ConnectionsEmitted ==
    ASSUME NEW conns, NEW s, Honest(s, conns), NEW l \in Loops, Collected,
           NEW t, t = EmitConnections(s, l)
    PROVE  /\ Honest(t, l.connections)
           /\ t.last = s.last /\ t.tally = s.tally
<1> DEFINE e == ActiveConnectionMetric(l.connections)
           o == Send(s.out, "metric", e)
           k == s.tally.requests
<1>1. e \in EventsOf("metric") /\ e.series = "connections" /\ e.value = l.connections
      /\ "metric" \in Channels
  BY DEF ActiveConnectionMetric, Metric, KindOf, EventsOf, Metrics, SeriesNames, Kinds, Loops,
         Channels
<1>2. IsOut(s.out) /\ s \in Tellings /\ k \in Nat
  BY TellingParts DEF Honest, Tallies
<1> HIDE DEF e
<1>3. t = [s EXCEPT !.out = o]
  BY DEF EmitConnections, SendMetric, e
<1>4. IsOut(o) /\ Balance(o) = Balance(s.out)
  BY <1>1, <1>2, SendCases, SendBalances
<1>5. /\ t \in Tellings /\ t.out = o
      /\ t.last = s.last /\ t.mirror = s.mirror /\ t.tally = s.tally
  BY <1>2, <1>3, <1>4, OutReplaced DEF IsOut
<1>6. Gauge(o, "connections", l.connections)
  BY <1>1, <1>2, SendGauge
<1>7. Gauge(o, "payload", s.last.bytes)
  BY <1>1, <1>2, SendGauge DEF Honest, Informed
<1>8. Counts(o, k)
  BY <1>1, <1>2, SendCount DEF Honest, Informed
<1>9. Feeds(o, k)
  BY <1>1, <1>2, SendFeed DEF Honest, Informed
<1>10. Logs(o, s.last.pressure)
  BY <1>1, <1>2, SendLog DEF Honest, Informed
<1>11. Accounted(t)
  BY <1>4, <1>5 DEF Accounted, Honest
<1>12. o.drops = 0 => s.out.drops = 0
  <2>1. s.out.drops \in Nat
    BY <1>2 DEF IsOut, Outs
  <2>2. o.drops \in {s.out.drops, s.out.drops + 1}
    BY <1>1, <1>2, SendCases
  <2> QED BY <2>1, <2>2
<1> HIDE DEF o
<1> QED BY <1>4, <1>5, <1>6, <1>7, <1>8, <1>9, <1>10, <1>11, <1>12 DEF Honest, Informed

(* What emit_resource_pressure_transition_if_changed logs tells the new    *)
(* level, and when it logs nothing the last record still does.  A ledger   *)
(* that failed closed never becomes normal again at once.                  *)
LEMMA TransitionTells ==
    ASSUME NEW from \in PressureStates, NEW to \in PressureStates,
           ~(from = "FailedClosed" /\ to = "Normal"),
           NEW x, x = PressureTransition(from, to)
    PROVE  /\ x # "Nothing" => x \in PressureRecords /\ Tells(x, to)
           /\ x = "Nothing" => \A r \in PressureRecords : Tells(r, from) => Tells(r, to)
  BY DEF PressureTransition, PressureStates, Active, PressureRecords, Tells

(* The latest record of the log keeps telling the level when the log is    *)
(* left alone.                                                             *)
LEMMA LogStays ==
    ASSUME NEW q \in Seq(ProductRecords), NEW r \in PressureRecords, NEW p, NEW p2,
           \A x \in PressureRecords : Tells(x, p) => Tells(x, p2), LogTold(q, r, p)
    PROVE  LogTold(q, r, p2)
<1>1. \A i \in DOMAIN q : q[i] \in ProductRecords
  BY LenProperties, ElementOfSeq
<1> QED BY <1>1 DEF LogTold, ProductRecords

(* What the printed log holds.                                             *)
Printed == printed.pressure \in PressureRecords

(* emit_resource_payload_metric_if_changed before the status: the gauge.   *)
LEMMA PayloadGauge ==
    ASSUME NEW o, IsOut(o), NEW bytes \in Nat, NEW conns, NEW k \in Nat, NEW p, Collected,
           Informed(o, bytes, conns, k, k, p), NEW used \in Nat,
           NEW n, n = (IF bytes = used THEN o
                       ELSE SendMetric(o, ResourcePayloadBytesMetric(used)))
    PROVE  /\ IsOut(n) /\ Balance(n) = Balance(o) /\ n.drops >= o.drops
           /\ Informed(n, used, conns, k, k, p)
<1>1. CASE bytes = used
  BY <1>1 DEF IsOut, Outs
<1>2. CASE bytes # used
  <2> DEFINE e == ResourcePayloadBytesMetric(used)
  <2>1. n = Send(o, "metric", e)
    BY <1>2 DEF SendMetric
  <2>2. e \in EventsOf("metric") /\ e.series = "payload" /\ e.value = used /\ "metric" \in Channels
    BY DEF ResourcePayloadBytesMetric, Metric, KindOf, EventsOf, Metrics, SeriesNames, Kinds, Channels
  <2> HIDE DEF e
  <2>3. IsOut(n) /\ Balance(n) = Balance(o)
    BY <2>1, <2>2, SendCases, SendBalances
  <2>4. Gauge(n, "payload", used)
    BY <2>1, <2>2, SendGauge
  <2>5. Gauge(n, "connections", conns)
    BY <2>1, <2>2, SendGauge DEF Informed
  <2>6. Counts(n, k)
    BY <2>1, <2>2, SendCount DEF Informed
  <2>7. Feeds(n, k)
    BY <2>1, <2>2, SendFeed DEF Informed
  <2>8. Logs(n, p)
    BY <2>1, <2>2, SendLog DEF Informed
  <2>9. o.drops \in Nat /\ n.drops \in {o.drops, o.drops + 1}
    <3>1. o.drops \in Nat
      BY DEF IsOut, Outs
    <3> QED BY <2>1, <2>2, <3>1, SendCases
  <2> QED BY <2>3, <2>4, <2>5, <2>6, <2>7, <2>8, <2>9 DEF Informed
<1> QED BY <1>1, <1>2

(* ... and the pressure record.                                            *)
LEMMA PressureEmitted ==
    ASSUME NEW o, IsOut(o), NEW bytes, NEW conns, NEW k \in Nat, Collected, Printed,
           NEW from \in PressureStates, NEW to \in PressureStates,
           ~(from = "FailedClosed" /\ to = "Normal"),
           Informed(o, bytes, conns, k, k, from),
           NEW n, n = EmitPressure(o, from, to)
    PROVE  /\ IsOut(n) /\ Balance(n) = Balance(o) /\ n.drops >= o.drops
           /\ Informed(n, bytes, conns, k, k, to)
<1> DEFINE x == PressureTransition(from, to)
<1>1. /\ x # "Nothing" => x \in PressureRecords /\ Tells(x, to)
      /\ x = "Nothing" => \A r \in PressureRecords : Tells(r, from) => Tells(r, to)
  BY TransitionTells
<1>2. o.drops \in Nat /\ o.channel["product"] \in Seq(ProductRecords) /\ "product" \in Channels
  BY DEF IsOut, Outs, EventsOf, Channels
<1> HIDE DEF x
<1>3. CASE x = "Nothing"
  <2>1. n = o
    BY <1>3 DEF EmitPressure, x
  <2>2. Logs(o, to)
    BY <1>1, <1>2, <1>3, LogStays DEF Logs, Informed, Printed
  <2> QED BY <1>2, <2>1, <2>2 DEF Informed
<1>4. CASE x # "Nothing"
  <2>1. n = Send(o, "product", x)
    BY <1>4 DEF EmitPressure, x
  <2>2. x \in EventsOf("product") /\ x # "Other" /\ Tells(x, to)
    BY <1>1, <1>4 DEF EventsOf, ProductRecords, PressureRecords
  <2>3. IsOut(n) /\ Balance(n) = Balance(o)
    BY <1>2, <2>1, <2>2, SendCases, SendBalances
  <2>4. Gauge(n, "payload", bytes) /\ Gauge(n, "connections", conns)
    BY <1>2, <2>1, <2>2, SendGauge DEF Informed
  <2>5. Counts(n, k)
    BY <1>2, <2>1, <2>2, SendCount DEF Informed
  <2>6. Feeds(n, k)
    BY <1>2, <2>1, <2>2, SendFeed DEF Informed
  <2>7. Logs(n, to)
    BY <1>2, <2>1, <2>2, SendLog DEF Informed
  <2>8. n.drops \in {o.drops, o.drops + 1}
    BY <1>2, <2>1, <2>2, SendCases
  <2> QED BY <1>2, <2>3, <2>4, <2>5, <2>6, <2>7, <2>8 DEF Informed
<1> QED BY <1>3, <1>4

(* emit_resource_payload_metric_if_changed.                                *)
LEMMA PayloadEmitted ==
    ASSUME NEW conns, NEW s, Honest(s, conns), NEW l \in Loops, NEW busy \in BOOLEAN,
           Collected, Printed, ~(s.last.pressure = "FailedClosed" /\ l.pressure = "Normal"),
           NEW t, t = EmitPayload(s, l, busy)
    PROVE  /\ Honest(t, conns)
           /\ t.last.status = StatusOf(l)
           /\ t.last.bytes = l.used /\ t.last.pressure = l.pressure
           /\ t.tally.requests = s.tally.requests
<1> DEFINE g == IF s.last.bytes = l.used THEN s.out
                ELSE SendMetric(s.out, ResourcePayloadBytesMetric(l.used))
           o == EmitPressure(g, s.last.pressure, l.pressure)
           k == s.tally.requests
           b == [s.last EXCEPT !.bytes = l.used, !.pressure = l.pressure]
           u == [s EXCEPT !.out = o, !.last = b]
<1>1. /\ s \in Tellings /\ IsOut(s.out) /\ s.last \in Lasts /\ s.mirror \in Mirrors
      /\ s.tally \in Tallies /\ s.out \in Outs
  BY DEF Honest, Tellings
<1>2. /\ s.last.bytes \in Nat /\ s.last.pressure \in PressureStates /\ k \in Nat
      /\ l.used \in Nat /\ l.pressure \in PressureStates /\ s.out.drops \in Nat
  BY <1>1 DEF Lasts, Tallies, Loops, Outs
<1>3. Informed(s.out, s.last.bytes, conns, k, k, s.last.pressure)
  BY DEF Honest
<1>4. /\ IsOut(g) /\ Balance(g) = Balance(s.out) /\ g.drops >= s.out.drops
      /\ Informed(g, l.used, conns, k, k, s.last.pressure)
  <2> HIDE DEF k
  <2> QED BY <1>1, <1>2, <1>3, PayloadGauge
<1> HIDE DEF g
<1>5. /\ IsOut(o) /\ Balance(o) = Balance(g) /\ o.drops >= g.drops
      /\ Informed(o, l.used, conns, k, k, l.pressure)
  <2> HIDE DEF k
  <2> QED BY <1>2, <1>4, PressureEmitted
<1>6. o \in Outs /\ o.drops \in Nat /\ g.drops \in Nat
  BY <1>4, <1>5 DEF IsOut, Outs
<1>7. t = EmitStatus(u, l, busy)
  BY DEF EmitPayload, g
<1> HIDE DEF o, b
<1>8. b \in Lasts /\ b.bytes = l.used /\ b.pressure = l.pressure /\ b.status = s.last.status
  BY <1>1, <1>2 DEF Lasts, b
<1>9. /\ u \in Tellings /\ u.out = o
      /\ u.last = b /\ u.mirror = s.mirror /\ u.tally = s.tally
  <2>1. u = [s EXCEPT !.out = o, !.last = b]
    OBVIOUS
  <2> HIDE DEF u
  <2> QED BY <1>1, <1>6, <1>8, <2>1 DEF Tellings
<1> HIDE DEF u
<1>11. Honest(u, conns)
  <2>1. Accounted(u)
    BY <1>4, <1>5, <1>9 DEF Accounted, Honest
  <2>2. u.out.drops = 0 => s.out.drops = 0
    BY <1>2, <1>4, <1>5, <1>6, <1>9
  <2> QED BY <1>5, <1>8, <1>9, <2>1, <2>2 DEF Honest
<1>12. /\ Honest(t, conns) /\ t.last.status = StatusOf(l)
       /\ t.last.bytes = u.last.bytes /\ t.last.pressure = u.last.pressure
       /\ t.tally.requests = u.tally.requests
  BY <1>7, <1>11, StatusEmitted
<1> QED BY <1>8, <1>9, <1>12

-----------------------------------------------------------------------------
(* The sampler.                                                            *)

TlsRecords == [key : TlsKeys, at : Int]
KeysAfter(tls, i) == {tls[k].key : k \in i + 1 .. Len(tls)}
Window(tls) ==
    \A i, j \in DOMAIN tls :
        i < j /\ tls[i].key = tls[j].key /\ Elapsed(tls[j].at, tls[i].at) < Ttl
            => Cardinality({tls[k].key : k \in i + 1 .. j - 1}) >= SamplerCapacity

(* The order has every remembered key once.                                *)
Remembers(s) ==
    /\ s.order \in Seq(TlsKeys) /\ Len(s.order) <= SamplerCapacity
    /\ \A p, q \in DOMAIN s.order : s.order[p] = s.order[q] => p = q
    /\ DOMAIN s.at = {s.order[i] : i \in DOMAIN s.order}
    /\ \A k \in DOMAIN s.at : s.at[k] \in Int

(* Every record of a key is older than the last record of a key behind it  *)
(* in the order; and a record is the last of a key that is remembered, or  *)
(* an earlier one, or a sampler's worth of keys was recorded after it.     *)
SamplerSound(s, tls) ==
    /\ Remembers(s)
    /\ tls \in Seq(TlsRecords)
    /\ \A i \in DOMAIN tls, p, q \in DOMAIN s.order :
          p < q /\ tls[i].key = s.order[p] => s.order[q] \in KeysAfter(tls, i)
    /\ \A i \in DOMAIN tls :
          \/ tls[i].key \in DOMAIN s.at /\ tls[i].at <= s.at[tls[i].key]
          \/ Cardinality(KeysAfter(tls, i)) >= SamplerCapacity
    /\ Window(tls)

(* What is left of the order without a key keeps its order.                *)
LEMMA OthersIndexed ==
    ASSUME NEW s, Remembers(s), NEW key \in TlsKeys, NEW o, o = Others(s, key)
    PROVE  /\ o \in Seq(TlsKeys) /\ Len(o) <= SamplerCapacity
           /\ key \in DOMAIN s.at => Len(o) < SamplerCapacity
           /\ \E f \in [DOMAIN o -> DOMAIN s.order] :
                 /\ \A i \in DOMAIN o : o[i] = s.order[f[i]] /\ o[i] # key
                 /\ \A i, j \in DOMAIN o : i < j => f[i] < f[j]
                 /\ \A p \in DOMAIN s.order : s.order[p] # key => \E i \in DOMAIN o : f[i] = p
<1> DEFINE d == s.order
           n == Len(d)
<1>1. d \in Seq(TlsKeys) /\ n \in Nat /\ DOMAIN d = 1 .. n /\ n <= SamplerCapacity
      /\ SamplerCapacity \in Nat
  BY ObservabilityAssumption DEF Remembers
<1>2. CASE key \notin DOMAIN s.at
  <2>1. o = d
    BY <1>2 DEF Others
  <2> DEFINE f == [i \in DOMAIN d |-> i]
  <2>2. \A i \in DOMAIN d : d[i] # key
    BY <1>2 DEF Remembers
  <2>3. f \in [DOMAIN d -> DOMAIN d] /\ \A i \in DOMAIN d : f[i] = i
    OBVIOUS
  <2> HIDE DEF f
  <2>4. /\ f \in [DOMAIN o -> DOMAIN s.order]
        /\ \A i \in DOMAIN o : o[i] = s.order[f[i]] /\ o[i] # key
        /\ \A i, j \in DOMAIN o : i < j => f[i] < f[j]
        /\ \A p \in DOMAIN s.order : s.order[p] # key => \E i \in DOMAIN o : f[i] = p
    BY <2>1, <2>2, <2>3
  <2>5. \E g \in [DOMAIN o -> DOMAIN s.order] :
           /\ \A i \in DOMAIN o : o[i] = s.order[g[i]] /\ o[i] # key
           /\ \A i, j \in DOMAIN o : i < j => g[i] < g[j]
           /\ \A p \in DOMAIN s.order : s.order[p] # key => \E i \in DOMAIN o : g[i] = p
    BY <2>4, Zenon
  <2> QED BY <1>1, <1>2, <2>1, <2>5
<1>3. CASE key \in DOMAIN s.at
  <2> DEFINE at == CHOOSE i \in DOMAIN s.order : s.order[i] = key
             a == SubSeq(d, 1, at - 1)
             b == SubSeq(d, at + 1, n)
  <2>1. at \in 1 .. n /\ d[at] = key
    <3>1. \E i \in DOMAIN d : d[i] = key
      BY <1>3 DEF Remembers
    <3> QED BY <1>1, <3>1
  <2>2. o = a \o b
    BY <1>3 DEF Others
  <2> HIDE DEF at
  <2>3. \A i \in 1 .. n : d[i] \in TlsKeys
    BY <1>1, ElementOfSeq
  <2>4. a \in Seq(TlsKeys) /\ Len(a) = at - 1 /\ \A i \in 1 .. at - 1 : a[i] = d[i]
    <3>1. \A i \in 1 .. at - 1 : d[i] \in TlsKeys
      BY <1>1, <2>1, <2>3
    <3>2. /\ a \in Seq(TlsKeys)
          /\ Len(a) = IF 1 <= at - 1 THEN (at - 1) - 1 + 1 ELSE 0
          /\ \A i \in 1 .. (at - 1) - 1 + 1 : a[i] = d[1 + i - 1]
      BY <1>1, <2>1, <3>1, SubSeqProperties
    <3> HIDE DEF a
    <3> QED BY <1>1, <2>1, <3>2
  <2>5. b \in Seq(TlsKeys) /\ Len(b) = n - at /\ \A i \in 1 .. n - at : b[i] = d[at + i]
    <3>1. \A i \in at + 1 .. n : d[i] \in TlsKeys
      BY <1>1, <2>1, <2>3
    <3>2. /\ b \in Seq(TlsKeys)
          /\ Len(b) = IF at + 1 <= n THEN n - (at + 1) + 1 ELSE 0
          /\ \A i \in 1 .. n - (at + 1) + 1 : b[i] = d[(at + 1) + i - 1]
      BY <1>1, <2>1, <3>1, SubSeqProperties
    <3> HIDE DEF b
    <3> QED BY <1>1, <2>1, <3>2
  <2> HIDE DEF a, b
  <2>6. o \in Seq(TlsKeys) /\ Len(o) = n - 1 /\ DOMAIN o = 1 .. n - 1
        /\ \A i \in 1 .. n - 1 : o[i] = IF i < at THEN d[i] ELSE d[i + 1]
    <3>1. /\ a \o b \in Seq(TlsKeys) /\ Len(a \o b) = Len(a) + Len(b)
          /\ \A i \in 1 .. Len(a) + Len(b) : (a \o b)[i] = IF i <= Len(a) THEN a[i] ELSE b[i - Len(a)]
      BY <2>4, <2>5, ConcatProperties
    <3>2. o \in Seq(TlsKeys) /\ Len(o) = n - 1
      BY <1>1, <2>1, <2>2, <2>4, <2>5, <3>1
    <3>3. ASSUME NEW i \in 1 .. n - 1 PROVE o[i] = IF i < at THEN d[i] ELSE d[i + 1]
      <4>1. o[i] = IF i <= Len(a) THEN a[i] ELSE b[i - Len(a)]
        BY <1>1, <2>1, <2>2, <2>4, <2>5, <3>1
      <4>2. CASE i < at
        BY <1>1, <2>1, <2>4, <4>1, <4>2
      <4>3. CASE ~(i < at)
        <5>1. i - (at - 1) \in 1 .. n - at /\ at + (i - (at - 1)) = i + 1
          BY <1>1, <2>1, <4>3
        <5> QED BY <1>1, <2>1, <2>4, <2>5, <4>1, <4>3, <5>1
      <4> QED BY <4>2, <4>3
    <3> QED BY <3>2, <3>3, LenProperties
  <2> DEFINE f == [i \in 1 .. n - 1 |-> IF i < at THEN i ELSE i + 1]
  <2>7. f \in [1 .. n - 1 -> 1 .. n] /\ \A i \in 1 .. n - 1 : f[i] = IF i < at THEN i ELSE i + 1
    BY <1>1, <2>1
  <2>8. ASSUME NEW p \in 1 .. n, d[p] # key PROVE \E i \in 1 .. n - 1 : f[i] = p
    <3>1. CASE p < at
      BY <1>1, <2>1, <2>7, <3>1
    <3>2. CASE p > at
      <4>1. p - 1 \in 1 .. n - 1 /\ f[p - 1] = p
        BY <1>1, <2>1, <2>7, <3>2
      <4> QED BY <4>1
    <3>3. p # at
      BY <2>1, <2>8
    <3>4. p < at \/ p > at
      BY <1>1, <2>1, <3>3
    <3> QED BY <3>1, <3>2, <3>4, Zenon
  <2> HIDE DEF f
  <2>9. \A i \in 1 .. n - 1 : o[i] = d[f[i]] /\ f[i] # at
    BY <1>1, <2>1, <2>6, <2>7
  <2>10. \A i \in 1 .. n - 1 : o[i] # key
    <3>1. \A p, q \in 1 .. n : d[p] = d[q] => p = q
      BY <1>1 DEF Remembers
    <3> QED BY <2>1, <2>7, <2>9, <3>1
  <2>11. \A i, j \in 1 .. n - 1 : i < j => f[i] < f[j]
    BY <1>1, <2>1, <2>7
  <2>12. /\ f \in [DOMAIN o -> DOMAIN s.order]
         /\ \A i \in DOMAIN o : o[i] = s.order[f[i]] /\ o[i] # key
         /\ \A i, j \in DOMAIN o : i < j => f[i] < f[j]
         /\ \A p \in DOMAIN s.order : s.order[p] # key => \E i \in DOMAIN o : f[i] = p
    BY <1>1, <2>6, <2>7, <2>8, <2>9, <2>10, <2>11
  <2>13. \E g \in [DOMAIN o -> DOMAIN s.order] :
           /\ \A i \in DOMAIN o : o[i] = s.order[g[i]] /\ o[i] # key
           /\ \A i, j \in DOMAIN o : i < j => g[i] < g[j]
           /\ \A p \in DOMAIN s.order : s.order[p] # key => \E i \in DOMAIN o : g[i] = p
    BY <2>12, Zenon
  <2>14. Len(o) <= SamplerCapacity /\ Len(o) < SamplerCapacity
    BY <1>1, <2>1, <2>6
  <2> QED BY <2>6, <2>13, <2>14
<1> QED BY <1>2, <1>3

(* What is left of the order when the oldest make room, in its order: a key *)
(* is left out only when it is the one sampled, or when the sampler is full *)
(* and everything kept is newer.                                            *)
KeptOf(o) == IF Len(o) >= SamplerCapacity
             THEN SubSeq(o, Len(o) - SamplerCapacity + 2, Len(o)) ELSE o
IsKept(k, s, key) ==
    /\ k \in Seq(TlsKeys) /\ Len(k) < SamplerCapacity
    /\ \E g \in [DOMAIN k -> DOMAIN s.order] :
          /\ \A i \in DOMAIN k : k[i] = s.order[g[i]] /\ k[i] # key
          /\ \A i, j \in DOMAIN k : i < j => g[i] < g[j]
          /\ \A p \in DOMAIN s.order :
                \/ s.order[p] = key
                \/ \E i \in DOMAIN k : g[i] = p
                \/ /\ key \notin DOMAIN s.at
                   /\ Len(k) = SamplerCapacity - 1
                   /\ \A i \in DOMAIN k : p < g[i]

(* The keys that stay when a key is sampled: those behind the ones that    *)
(* make room.                                                              *)
LEMMA KeptIndexed ==
    ASSUME NEW s, Remembers(s), NEW key \in TlsKeys, NEW o, o = Others(s, key),
           NEW k, k = KeptOf(o)
    PROVE  IsKept(k, s, key)
<1> SUFFICES /\ k \in Seq(TlsKeys) /\ Len(k) < SamplerCapacity
             /\ \E g \in [DOMAIN k -> DOMAIN s.order] :
                   /\ \A i \in DOMAIN k : k[i] = s.order[g[i]] /\ k[i] # key
                   /\ \A i, j \in DOMAIN k : i < j => g[i] < g[j]
                   /\ \A p \in DOMAIN s.order :
                         \/ s.order[p] = key
                         \/ \E i \in DOMAIN k : g[i] = p
                         \/ /\ key \notin DOMAIN s.at
                            /\ Len(k) = SamplerCapacity - 1
                            /\ \A i \in DOMAIN k : p < g[i]
  BY DEF IsKept
<1> USE DEF KeptOf
<1> DEFINE c == SamplerCapacity
           Good(g) == /\ \A i \in DOMAIN k : k[i] = s.order[g[i]] /\ k[i] # key
                      /\ \A i, j \in DOMAIN k : i < j => g[i] < g[j]
                      /\ \A p \in DOMAIN s.order :
                            \/ s.order[p] = key
                            \/ \E i \in DOMAIN k : g[i] = p
                            \/ /\ key \notin DOMAIN s.at
                               /\ Len(k) = SamplerCapacity - 1
                               /\ \A i \in DOMAIN k : p < g[i]
<1>1. c \in Nat /\ c > 0
  BY ObservabilityAssumption
<1>2. /\ o \in Seq(TlsKeys) /\ Len(o) <= c
      /\ key \in DOMAIN s.at => Len(o) < c
      /\ \E f \in [DOMAIN o -> DOMAIN s.order] :
            /\ \A i \in DOMAIN o : o[i] = s.order[f[i]] /\ o[i] # key
            /\ \A i, j \in DOMAIN o : i < j => f[i] < f[j]
            /\ \A p \in DOMAIN s.order : s.order[p] # key => \E i \in DOMAIN o : f[i] = p
  BY OthersIndexed
<1>3. PICK f \in [DOMAIN o -> DOMAIN s.order] :
            /\ \A i \in DOMAIN o : o[i] = s.order[f[i]] /\ o[i] # key
            /\ \A i, j \in DOMAIN o : i < j => f[i] < f[j]
            /\ \A p \in DOMAIN s.order : s.order[p] # key => \E i \in DOMAIN o : f[i] = p
  BY <1>2
<1>4. Len(o) \in Nat /\ DOMAIN o = 1 .. Len(o)
  BY <1>2, LenProperties
<1>5. CASE ~(Len(o) >= c)
  <2>1. k = o
    BY <1>5
  <2>2. Good(f) /\ f \in [DOMAIN k -> DOMAIN s.order]
    BY <1>3, <2>1
  <2>3. k \in Seq(TlsKeys) /\ Len(k) < c
    BY <1>1, <1>2, <1>4, <1>5, <2>1
  <2> QED BY <2>2, <2>3
<1>6. CASE Len(o) >= c
  <2>1. Len(o) = c /\ key \notin DOMAIN s.at
    <3>1. Len(o) <= c /\ (key \in DOMAIN s.at => Len(o) < c)
      BY <1>2
    <3>2. Len(o) = c
      <4> DEFINE n == Len(o)
      <4>1. n \in Nat /\ n <= c /\ n >= c /\ c \in Nat
        BY <1>1, <1>4, <1>6, <3>1
      <4> HIDE DEF n, c
      <4>2. n = c
        BY <4>1
      <4> QED BY <4>2 DEF n
    <3>3. ~(Len(o) < c)
      BY <1>1, <3>2
    <3> QED BY <3>1, <3>2, <3>3
  <2>2. k = SubSeq(o, 2, c)
    BY <1>1, <1>6, <2>1
  <2>3. \A i \in 2 .. c : o[i] \in TlsKeys
    BY <1>1, <1>2, <2>1, ElementOfSeq
  <2>4. /\ k \in Seq(TlsKeys) /\ Len(k) = c - 1 /\ DOMAIN k = 1 .. c - 1
        /\ \A i \in 1 .. c - 1 : k[i] = o[i + 1]
    <3>1. /\ k \in Seq(TlsKeys)
          /\ Len(k) = IF 2 <= c THEN c - 2 + 1 ELSE 0
          /\ \A i \in 1 .. c - 2 + 1 : k[i] = o[2 + i - 1]
      <4>1. 2 \in Int /\ c \in Int
        BY <1>1
      <4> DEFINE z == SubSeq(o, 2, c)
      <4>2. /\ z \in Seq(TlsKeys)
            /\ Len(z) = IF 2 <= c THEN c - 2 + 1 ELSE 0
            /\ \A i \in 1 .. c - 2 + 1 : z[i] = o[2 + i - 1]
        BY <1>1, <2>3, <4>1, SubSeqProperties
      <4>3. k = z
        BY <2>2
      <4> HIDE DEF z
      <4> QED BY <4>2, <4>3
    <3>2. Len(k) = c - 1 /\ DOMAIN k = 1 .. c - 1
      BY <1>1, <3>1
    <3>3. ASSUME NEW i \in 1 .. c - 1 PROVE k[i] = o[i + 1]
      <4>1. i \in 1 .. c - 2 + 1 /\ 2 + i - 1 = i + 1
        BY <1>1
      <4> QED BY <3>1, <4>1
    <3> QED BY <3>1, <3>2, <3>3
  <2> DEFINE g == [i \in 1 .. c - 1 |-> f[i + 1]]
  <2>5. g \in [DOMAIN k -> DOMAIN s.order] /\ \A i \in 1 .. c - 1 : g[i] = f[i + 1]
    BY <1>1, <1>3, <1>4, <2>1, <2>4
  <2> HIDE DEF g
  <2>6. \A i \in DOMAIN k : k[i] = s.order[g[i]] /\ k[i] # key
    BY <1>1, <1>3, <1>4, <2>1, <2>4, <2>5
  <2>7. ASSUME NEW i \in DOMAIN k, NEW j \in DOMAIN k, i < j PROVE g[i] < g[j]
    <3>1. i + 1 \in DOMAIN o /\ j + 1 \in DOMAIN o /\ i + 1 < j + 1
          /\ g[i] = f[i + 1] /\ g[j] = f[j + 1]
      BY <1>1, <1>4, <2>1, <2>4, <2>5, <2>7
    <3> QED BY <1>3, <3>1
  <2>8. ASSUME NEW p \in DOMAIN s.order, s.order[p] # key, ~(\E i \in DOMAIN k : g[i] = p)
        PROVE  \A i \in DOMAIN k : p < g[i]
    <3>1. PICK j \in DOMAIN o : f[j] = p
      BY <1>3, <2>8
    <3>2. j = 1
      <4>1. ASSUME j > 1 PROVE FALSE
        <5>1. j - 1 \in DOMAIN k /\ g[j - 1] = f[j]
          BY <1>1, <1>4, <2>1, <2>4, <2>5, <4>1
        <5> QED BY <2>8, <3>1, <5>1
      <4> QED BY <1>4, <4>1
    <3>3. \A i \in DOMAIN k : 1 \in DOMAIN o /\ i + 1 \in DOMAIN o /\ 1 < i + 1 /\ g[i] = f[i + 1]
      BY <1>1, <1>4, <2>1, <2>4, <2>5
    <3> QED BY <1>3, <3>1, <3>2, <3>3
  <2>9. Good(g)
    BY <2>1, <2>4, <2>6, <2>7, <2>8
  <2>10. Len(k) < c
    BY <1>1, <2>4
  <2> HIDE DEF Good
  <2>11. \E h \in [DOMAIN k -> DOMAIN s.order] : Good(h)
    BY <2>5, <2>9
  <2> QED BY <2>4, <2>10, <2>11 DEF Good
<1> QED BY <1>5, <1>6

(* What was recorded after a record: finitely many keys, and one more when *)
(* a record is appended.                                                   *)
LEMMA KeysAppended ==
    ASSUME NEW tls \in Seq(TlsRecords), NEW r \in TlsRecords, NEW i \in DOMAIN tls,
           NEW m, m = Append(tls, r)
    PROVE  /\ KeysAfter(m, i) = KeysAfter(tls, i) \cup {r.key}
           /\ IsFiniteSet(KeysAfter(tls, i)) /\ IsFiniteSet(KeysAfter(m, i))
           /\ Cardinality(KeysAfter(tls, i)) \in Nat
           /\ Cardinality(KeysAfter(m, i)) >= Cardinality(KeysAfter(tls, i))
<1> DEFINE n == Len(tls)
           D == i + 1 .. n
           f == [k \in D |-> tls[k].key]
           A == KeysAfter(tls, i)
           B == KeysAfter(m, i)
<1>1. /\ n \in Nat /\ DOMAIN tls = 1 .. n /\ Len(m) = n + 1
      /\ \A k \in 1 .. n : m[k] = tls[k]
      /\ m[n + 1] = r
  BY AppendProperties
<1>2. B = A \cup {r.key}
  BY <1>1 DEF KeysAfter
<1>3. IsFiniteSet(D)
  BY <1>1, FS_Interval
<1>4. f \in Surjection(D, A)
  <2>1. f \in [D -> A]
    BY DEF KeysAfter
  <2>2. \A a \in A : \E k \in D : f[k] = a
    BY DEF KeysAfter
  <2> QED BY <2>1, <2>2 DEF Surjection
<1>5. IsFiniteSet(A)
  BY <1>3, <1>4, FS_Surjection
<1>6. IsFiniteSet(B) /\ Cardinality(B) = IF r.key \in A THEN Cardinality(A) ELSE Cardinality(A) + 1
  BY <1>2, <1>5, FS_AddElement
<1>7. Cardinality(A) \in Nat
  BY <1>5, FS_CardinalityType
<1> HIDE DEF A, B
<1>8. Cardinality(B) >= Cardinality(A)
  BY <1>6, <1>7
<1> QED BY <1>2, <1>5, <1>6, <1>7, <1>8 DEF A, B

(* A key that is recorded again keeps the window.                          *)
LEMMA WindowKept ==
    ASSUME NEW s, NEW tls, SamplerSound(s, tls), NEW key \in TlsKeys, NEW now \in Nat,
           ~Silent(s, key, now),
           NEW m, m = Append(tls, [key |-> key, at |-> now])
    PROVE  Window(m)
<1> DEFINE n == Len(tls)
           r == [key |-> key, at |-> now]
<1>1. r \in TlsRecords /\ tls \in Seq(TlsRecords) /\ r.key = key /\ r.at = now
  BY DEF TlsRecords, SamplerSound
<1> HIDE DEF r
<1>2. /\ n \in Nat /\ DOMAIN tls = 1 .. n /\ DOMAIN m = 1 .. n + 1
      /\ \A k \in 1 .. n : m[k] = tls[k]
      /\ m[n + 1] = r
  BY <1>1, AppendProperties DEF r
<1> SUFFICES ASSUME NEW i \in DOMAIN m, NEW j \in DOMAIN m, i < j, m[i].key = m[j].key,
                    Elapsed(m[j].at, m[i].at) < Ttl
             PROVE  Cardinality({m[k].key : k \in i + 1 .. j - 1}) >= SamplerCapacity
  BY DEF Window
<1>3. i \in 1 .. n
  BY <1>2
<1>4. {m[k].key : k \in i + 1 .. j - 1} = {tls[k].key : k \in i + 1 .. j - 1}
  BY <1>2, <1>3
<1>5. CASE j \in 1 .. n
  BY <1>2, <1>3, <1>4, <1>5 DEF SamplerSound, Window
<1>6. CASE j = n + 1
  <2>1. {tls[k].key : k \in i + 1 .. j - 1} = KeysAfter(tls, i)
    BY <1>2, <1>6 DEF KeysAfter
  <2>2. tls[i].key = key /\ Elapsed(now, tls[i].at) < Ttl
    BY <1>1, <1>2, <1>3, <1>6
  <2>3. tls[i] \in TlsRecords
    BY <1>1, <1>2, <1>3, ElementOfSeq
  <2>4. tls[i].at \in Int /\ Ttl \in Nat
    BY <2>3, ObservabilityAssumption DEF TlsRecords
  <2>5. ~(key \in DOMAIN s.at /\ tls[i].at <= s.at[key])
    <3> SUFFICES ASSUME key \in DOMAIN s.at, tls[i].at <= s.at[key] PROVE FALSE
      OBVIOUS
    <3>1. s.at[key] \in Int
      BY DEF SamplerSound, Remembers
    <3>2. ~(Elapsed(now, s.at[key]) < Ttl)
      BY DEF Silent
    <3> QED BY <2>2, <2>4, <3>1, <3>2 DEF Elapsed
  <2> QED BY <1>2, <1>3, <1>4, <2>1, <2>2, <2>5 DEF SamplerSound
<1>7. j \in 1 .. n \/ j = n + 1
  BY <1>2
<1> QED BY <1>5, <1>6, <1>7

(* TlsFailureProductSampler::observe keeps the sampler sound.              *)
LEMMA SampleKeeps ==
    ASSUME NEW s, NEW tls, SamplerSound(s, tls), NEW key \in TlsKeys, NEW now \in Nat,
           ~Silent(s, key, now), NEW z, z = Sample(s, key, now),
           NEW m, m = Append(tls, [key |-> key, at |-> now])
    PROVE  SamplerSound(z, m)
<1> DEFINE r == [key |-> key, at |-> now]
           n == Len(tls)
           c == SamplerCapacity
<1>a. PICK o : o = Others(s, key)
  OBVIOUS
<1>b. PICK k : k = KeptOf(o)
  OBVIOUS
<1> DEFINE d == Append(k, key)
           D == {k[i] : i \in DOMAIN k} \cup {key}
           a == [x \in D |-> IF x = key THEN now ELSE s.at[x]]
<1>1. r \in TlsRecords /\ tls \in Seq(TlsRecords) /\ r.key = key /\ r.at = now /\ Remembers(s)
  BY DEF TlsRecords, SamplerSound
<1>2. z = [order |-> d, at |-> a] /\ z.order = d /\ z.at = a
  BY <1>a, <1>b DEF Sample, KeptOf
<1>3. c \in Nat /\ c > 0
  BY ObservabilityAssumption
<1>4. /\ k \in Seq(TlsKeys) /\ Len(k) < SamplerCapacity
      /\ \E g \in [DOMAIN k -> DOMAIN s.order] :
            /\ \A i \in DOMAIN k : k[i] = s.order[g[i]] /\ k[i] # key
            /\ \A i, j \in DOMAIN k : i < j => g[i] < g[j]
            /\ \A p \in DOMAIN s.order :
                  \/ s.order[p] = key
                  \/ \E i \in DOMAIN k : g[i] = p
                  \/ /\ key \notin DOMAIN s.at
                     /\ Len(k) = SamplerCapacity - 1
                     /\ \A i \in DOMAIN k : p < g[i]
  <2>1. IsKept(k, s, key)
    BY <1>1, <1>a, <1>b, KeptIndexed
  <2> QED BY <2>1 DEF IsKept
<1>5. PICK g \in [DOMAIN k -> DOMAIN s.order] :
            /\ \A i \in DOMAIN k : k[i] = s.order[g[i]] /\ k[i] # key
            /\ \A i, j \in DOMAIN k : i < j => g[i] < g[j]
            /\ \A p \in DOMAIN s.order :
                  \/ s.order[p] = key
                  \/ \E i \in DOMAIN k : g[i] = p
                  \/ /\ key \notin DOMAIN s.at
                     /\ Len(k) = SamplerCapacity - 1
                     /\ \A i \in DOMAIN k : p < g[i]
  BY <1>4
<1>6. /\ Len(k) \in Nat /\ DOMAIN k = 1 .. Len(k)
      /\ d \in Seq(TlsKeys) /\ Len(d) = Len(k) + 1 /\ DOMAIN d = 1 .. Len(k) + 1
      /\ \A i \in 1 .. Len(k) : d[i] = k[i]
      /\ d[Len(k) + 1] = key
  BY <1>4, AppendProperties
<1>7. /\ n \in Nat /\ DOMAIN tls = 1 .. n /\ DOMAIN m = 1 .. n + 1 /\ Len(m) = n + 1
      /\ \A i \in 1 .. n : m[i] = tls[i]
      /\ m[n + 1] = r /\ m \in Seq(TlsRecords)
  BY <1>1, AppendProperties
<1> HIDE DEF d, r
<1>8. \A i \in DOMAIN k : k[i] \in DOMAIN s.at
  BY <1>1, <1>5 DEF Remembers
<1>9. /\ DOMAIN a = D /\ a[key] = now
      /\ \A i \in DOMAIN k : a[k[i]] = s.at[k[i]]
  BY <1>5
<1> HIDE DEF a
<1>10. \A i, j \in DOMAIN k : k[i] = k[j] => i = j
  <2> SUFFICES ASSUME NEW i \in DOMAIN k, NEW j \in DOMAIN k, k[i] = k[j], i # j PROVE FALSE
    OBVIOUS
  <2>1. g[i] = g[j] /\ g[i] \in Nat
    <3>1. DOMAIN s.order \subseteq Nat
      BY <1>1, LenProperties DEF Remembers
    <3> QED BY <1>1, <1>5, <3>1 DEF Remembers
  <2>2. i < j \/ j < i
    BY <1>6
  <2> QED BY <1>5, <2>1, <2>2
<1>11. Remembers(z)
  <2>1. \A p, q \in DOMAIN d : d[p] = d[q] => p = q
    BY <1>5, <1>6, <1>10
  <2>2. D = {d[i] : i \in DOMAIN d}
    BY <1>6
  <2>3. \A x \in D : a[x] \in Int
    BY <1>1, <1>8, <1>9 DEF Remembers
  <2>4. Len(d) <= c
    BY <1>3, <1>4, <1>6
  <2>5. z.order \in Seq(TlsKeys) /\ Len(z.order) <= SamplerCapacity
    BY <1>2, <1>6, <2>4
  <2> HIDE DEF D
  <2>6. DOMAIN z.at = {z.order[i] : i \in DOMAIN z.order} /\ (\A x \in DOMAIN z.at : z.at[x] \in Int)
    BY <1>2, <1>9, <2>2, <2>3
  <2>7. \A i, j \in DOMAIN z.order : z.order[i] = z.order[j] => i = j
    BY <1>2, <2>1
  <2> QED BY <2>5, <2>6, <2>7 DEF Remembers
<1>12. ASSUME NEW i \in DOMAIN m, NEW p \in DOMAIN d, NEW q \in DOMAIN d, p < q, m[i].key = d[p]
       PROVE  d[q] \in KeysAfter(m, i)
  <2>1. p \in DOMAIN k /\ d[p] = k[p]
    BY <1>6, <1>12
  <2>2. i \in 1 .. n
    <3>1. i # n + 1
      BY <1>1, <1>5, <1>7, <1>12, <2>1
    <3> QED BY <1>7, <3>1
  <2>3. KeysAfter(m, i) = KeysAfter(tls, i) \cup {key}
    <3>1. m = Append(tls, r) /\ i \in DOMAIN tls
      BY <1>7, <2>2 DEF r
    <3> QED BY <1>1, <3>1, KeysAppended
  <2>4. CASE q = Len(k) + 1
    BY <1>6, <2>3, <2>4
  <2>5. CASE q \in DOMAIN k
    <3>1. g[p] \in DOMAIN s.order /\ g[q] \in DOMAIN s.order /\ g[p] < g[q]
      BY <1>5, <1>12, <2>1, <2>5
    <3>2. tls[i].key = s.order[g[p]] /\ d[q] = s.order[g[q]]
      BY <1>5, <1>6, <1>7, <1>12, <2>1, <2>2, <2>5
    <3>3. s.order[g[q]] \in KeysAfter(tls, i)
      BY <1>7, <2>2, <3>1, <3>2 DEF SamplerSound
    <3> QED BY <2>3, <3>2, <3>3
  <2> QED BY <1>6, <2>4, <2>5
<1>13. ASSUME NEW i \in DOMAIN m
       PROVE  \/ m[i].key \in DOMAIN a /\ m[i].at <= a[m[i].key]
              \/ Cardinality(KeysAfter(m, i)) >= c
  <2>1. CASE i = n + 1
    BY <1>1, <1>7, <1>9, <2>1
  <2>2. CASE i \in 1 .. n
    <3> DEFINE A == KeysAfter(tls, i)
               B == KeysAfter(m, i)
    <3>1. /\ B = A \cup {key} /\ IsFiniteSet(B)
          /\ Cardinality(A) \in Nat /\ Cardinality(B) >= Cardinality(A)
      <4>1. m = Append(tls, r) /\ i \in DOMAIN tls
        BY <1>7, <2>2 DEF r
      <4> QED BY <1>1, <4>1, KeysAppended
    <3>2. Cardinality(B) \in Nat
      BY <3>1, FS_CardinalityType
    <3>3. CASE Cardinality(A) >= c
      BY <1>3, <3>1, <3>2, <3>3
    <3>4. CASE ~(Cardinality(A) >= c)
      <4> DEFINE x == tls[i].key
      <4>1. x \in DOMAIN s.at /\ tls[i].at <= s.at[x]
        BY <1>7, <2>2, <3>4 DEF SamplerSound
      <4>2. tls[i].at \in Int /\ s.at[x] \in Int
        <5>1. tls[i] \in TlsRecords
          BY <1>1, <1>7, <2>2, ElementOfSeq
        <5>2. tls[i].at \in Int
          BY <5>1 DEF TlsRecords
        <5>3. s.at[x] \in Int
          BY <1>1, <4>1 DEF Remembers
        <5> QED BY <5>2, <5>3
      <4>3. m[i] = tls[i]
        BY <1>7, <2>2
      <4>4. PICK p \in DOMAIN s.order : s.order[p] = x
        BY <1>1, <4>1 DEF Remembers
      <4>5. CASE x = key
        <5>1. ~(Elapsed(now, s.at[key]) < Ttl) /\ Ttl \in Nat
          BY <4>1, <4>5, ObservabilityAssumption DEF Silent
        <5>2. Ttl > 0
          BY ObservabilityAssumption
        <5>3. s.at[key] <= now
          BY <4>2, <4>5, <5>1, <5>2 DEF Elapsed
        <5> QED BY <1>9, <4>1, <4>2, <4>3, <4>5, <5>3
      <4>6. CASE x # key /\ \E j \in DOMAIN k : g[j] = p
        <5>1. PICK j \in DOMAIN k : g[j] = p
          BY <4>6
        <5>2. k[j] = x
          BY <1>5, <4>4, <5>1
        <5> QED BY <1>9, <4>1, <4>3, <5>2
      <4>7. CASE x # key /\ Len(k) = c - 1 /\ \A j \in DOMAIN k : p < g[j]
        <5>1. Len(d) = c /\ DOMAIN d = 1 .. c
          BY <1>3, <1>6, <4>7
        <5>2. ASSUME NEW q \in DOMAIN d PROVE d[q] \in B
          <6>1. CASE q = Len(k) + 1
            BY <1>6, <3>1, <6>1
          <6>2. CASE q \in DOMAIN k
            <7>1. g[q] \in DOMAIN s.order /\ p < g[q] /\ d[q] = s.order[g[q]]
              BY <1>5, <1>6, <4>7, <6>2
            <7>2. s.order[g[q]] \in A
              BY <1>7, <2>2, <4>4, <7>1 DEF SamplerSound
            <7> QED BY <3>1, <7>1, <7>2
          <6> QED BY <1>6, <6>1, <6>2
        <5>3. \A p1, q1 \in DOMAIN d : d[p1] = d[q1] => p1 = q1
          BY <1>2, <1>11 DEF Remembers
        <5>4. d \in [1 .. c -> B]
          BY <1>6, <5>1, <5>2, LenProperties
        <5>5. d \in Injection(1 .. c, B)
          BY <5>1, <5>3, <5>4 DEF Injection, IsInjective
        <5>6. Cardinality(1 .. c) <= Cardinality(B) /\ Cardinality(1 .. c) = c
          BY <1>3, <3>1, <5>5, FS_Injection, FS_Interval
        <5> QED BY <1>3, <3>2, <5>6
      <4> QED BY <1>5, <4>4, <4>5, <4>6, <4>7
    <3> QED BY <3>3, <3>4
  <2> QED BY <1>7, <2>1, <2>2
<1>14. Window(m)
  BY WindowKept
<1> QED BY <1>2, <1>7, <1>11, <1>12, <1>13, <1>14 DEF SamplerSound

-----------------------------------------------------------------------------
(* The inductive invariant: what the loop remembers as told is what it is  *)
(* now, what it told will be known, and the sampler is sound.              *)
Now == [last |-> last, out |-> out, mirror |-> mirror, tally |-> tally]

LoopTold == /\ loop \in Loops
            /\ last.bytes = loop.used
            /\ last.pressure = loop.pressure
            /\ last.status = StatusOf(loop)

ObsInv == /\ LoopTold
          /\ Honest(Now, loop.connections)
          /\ Collected
          /\ Printed
          /\ printed = [pressure |-> printed.pressure, tls |-> printed.tls]
          /\ SamplerSound(sampler, printed.tls)

(* A telling put together from its parts.                                  *)
LEMMA Rebuilt ==
    ASSUME NEW conns, NEW s, Honest(s, conns), NEW t \in Tellings, IsOut(t.out),
           Balance(t.out) = Balance(s.out), t.out.drops = 0 => s.out.drops = 0,
           t.last.status = s.last.status, t.mirror.resource = s.mirror.resource,
           t.tally.missed = s.tally.missed, t.tally.twice = s.tally.twice,
           NEW c, Informed(t.out, t.last.bytes, c, t.tally.requests, t.tally.requests,
                           t.last.pressure)
    PROVE  Honest(t, c)
<1>1. Accounted(t)
  BY DEF Accounted, Honest
<1> QED BY <1>1 DEF Honest

(* The invariant after a step of the loop or the health thread.            *)
LEMMA Retold ==
    ASSUME ObsInv, OthersUnchanged, loop' \in Loops, NEW t, Told(t),
           Honest(t, loop'.connections), t.last.bytes = loop'.used,
           t.last.pressure = loop'.pressure, t.last.status = StatusOf(loop')
    PROVE  ObsInv'
<1>1. Now' = t
  <2>1. t = [last |-> t.last, out |-> t.out, mirror |-> t.mirror, tally |-> t.tally]
    BY TellingParts DEF Honest
  <2> QED BY <2>1 DEF Now, Told
<1>2. registry' = registry /\ recent' = recent /\ printed' = printed /\ sampler' = sampler
  BY DEF OthersUnchanged, CollectorsUnchanged
<1>3. LoopTold'
  BY DEF LoopTold, Told
<1>4. Honest(Now, loop.connections)'
  BY <1>1, <1>2 DEF Honest, Informed, Gauge, Counts, Feeds, Logs
<1>5. Collected' /\ Printed' /\ (printed = [pressure |-> printed.pressure, tls |-> printed.tls])'
      /\ SamplerSound(sampler, printed.tls)'
  BY <1>2 DEF ObsInv, Collected, Printed
<1> QED BY <1>3, <1>4, <1>5 DEF ObsInv

(* The parts of the state the invariant speaks of.                         *)
LEMMA NowTyped ==
    ASSUME ObsInv
    PROVE  /\ last \in Lasts /\ out \in Outs /\ IsOut(out) /\ mirror \in Mirrors
           /\ tally \in Tallies /\ loop \in Loops /\ tally.requests \in Nat
           /\ Informed(out, last.bytes, loop.connections, tally.requests, tally.requests,
                       last.pressure)
<1>1. Now.last = last /\ Now.out = out /\ Now.mirror = mirror /\ Now.tally = tally
  BY DEF Now
<1>2. Now \in Tellings /\ IsOut(Now.out)
  BY DEF ObsInv, Honest
<1>3. last \in Lasts /\ out \in Outs /\ mirror \in Mirrors /\ tally \in Tallies
  BY <1>1, <1>2 DEF Tellings
<1>4. tally.requests \in Nat
  BY <1>3 DEF Tallies
<1>5. Informed(Now.out, Now.last.bytes, loop.connections, Now.tally.requests,
               Now.tally.requests, Now.last.pressure)
  BY DEF ObsInv, Honest
<1> QED BY <1>1, <1>2, <1>3, <1>4, <1>5 DEF ObsInv, LoopTold

(* A handler that runs counts, and nothing else changes by that.           *)
LEMMA TallyCounts ==
    ASSUME NEW y \in Tallies, NEW z, z = [y EXCEPT !.events = @ + 1]
    PROVE  /\ z \in Tallies /\ z.requests = y.requests
           /\ z.missed = y.missed /\ z.twice = y.twice
  BY DEF Tallies

(* A transition both sinks refused counts as such.                         *)
LEMMA TallyTwice ==
    ASSUME NEW y \in Tallies, NEW z, z = [y EXCEPT !.events = @ + 1, !.twice = y.twice + 1]
    PROVE  /\ z \in Tallies /\ z.requests = y.requests
           /\ z.missed = y.missed /\ z.twice = y.twice + 1
<1>1. /\ y.events \in Nat /\ y.requests \in Nat /\ y.missed \in Nat /\ y.twice \in Nat
      /\ y.events + 1 \in Nat /\ y.twice + 1 \in Nat
  BY DEF Tallies
<1>2. /\ z.requests = y.requests /\ z.missed = y.missed /\ z.twice = y.twice + 1
      /\ z.events = y.events + 1
      /\ z = [events |-> z.events, requests |-> z.requests, missed |-> z.missed, twice |-> z.twice]
  BY DEF Tallies
<1>3. z \in Tallies
  BY <1>1, <1>2 DEF Tallies
<1> QED BY <1>2, <1>3

(* What a handler starts from.                                             *)
LEMMA TellingStarts ==
    ASSUME ObsInv, NEW t, t = Telling
    PROVE  /\ Honest(t, loop.connections)
           /\ t.last = last /\ t.tally.requests = tally.requests
<1>1. PICK y : y = [tally EXCEPT !.events = @ + 1]
  OBVIOUS
<1>2. y \in Tallies /\ y.requests = tally.requests /\ y.missed = tally.missed /\ y.twice = tally.twice
  BY <1>1, NowTyped, TallyCounts
<1>3. t = [last |-> last, out |-> out, mirror |-> mirror, tally |-> y]
  BY <1>1 DEF Telling
<1>4. PICK n : n = Now
  OBVIOUS
<1>5. /\ Honest(n, loop.connections)
      /\ n.last = last /\ n.out = out /\ n.mirror = mirror /\ n.tally = tally
  BY <1>4 DEF ObsInv, Now
<1>6. Honest(t, loop.connections)
  <2>1. t.last = last /\ t.out = out /\ t.mirror = mirror /\ t.tally = y
    BY <1>3
  <2>2. t \in Tellings
    BY <1>2, <1>3, NowTyped DEF Tellings
  <2> QED BY <1>2, <1>5, <2>1, <2>2, NowTyped, Rebuilt
<1> QED BY <1>2, <1>3, <1>6

-----------------------------------------------------------------------------
(* The steps of the loop.                                                  *)

(* accept_ready, admitted.                                                 *)
LEMMA AcceptKeeps ==
    ASSUME ObsInv, Accept
    PROVE  ObsInv'
<1>1. PICK l : l = loop'
  OBVIOUS
<1>2. l = [loop EXCEPT !.connections = @ + 1] /\ OthersUnchanged
  BY <1>1 DEF Accept
<1>3. loop \in Loops
  BY NowTyped
<1>4. l \in Loops /\ l.used = loop.used /\ l.pressure = loop.pressure
  BY <1>2, <1>3 DEF Loops
<1>5. PICK busy \in BOOLEAN : Told(EmitStatus(EmitConnections(Telling, l), l, busy))
  BY <1>1 DEF Accept
<1>6. PICK s : s = Telling
  OBVIOUS
<1>7. PICK u : u = EmitConnections(s, l)
  OBVIOUS
<1>8. PICK t : t = EmitStatus(u, l, busy)
  OBVIOUS
<1>9. Honest(s, loop.connections) /\ s.last = last
  BY <1>6, TellingStarts
<1>10. Honest(u, l.connections) /\ u.last = last
  BY <1>4, <1>7, <1>9, ConnectionsEmitted DEF ObsInv
<1>11. /\ Honest(t, l.connections) /\ t.last.status = StatusOf(l)
       /\ t.last.bytes = last.bytes /\ t.last.pressure = last.pressure
  BY <1>4, <1>8, <1>10, StatusEmitted
<1>12. Told(t)
  BY <1>5, <1>6, <1>7, <1>8
<1> QED BY <1>1, <1>2, <1>4, <1>11, <1>12, Retold DEF ObsInv, LoopTold

(* sync_active_revision.                                                   *)
LEMMA SyncRevisionKeeps ==
    ASSUME ObsInv, SyncRevision
    PROVE  ObsInv'
<1>1. PICK l : l = loop'
  OBVIOUS
<1>2. l = [loop EXCEPT !.revision = 1 - @] /\ OthersUnchanged
  BY <1>1 DEF SyncRevision
<1>3. loop \in Loops
  BY NowTyped
<1>4. /\ l \in Loops /\ l.used = loop.used /\ l.pressure = loop.pressure
      /\ l.connections = loop.connections
  BY <1>2, <1>3 DEF Loops
<1>5. PICK busy \in BOOLEAN : Told(EmitStatus(Telling, l, busy))
  BY <1>1 DEF SyncRevision
<1>6. PICK s : s = Telling
  OBVIOUS
<1>7. PICK t : t = EmitStatus(s, l, busy)
  OBVIOUS
<1>8. Honest(s, l.connections) /\ s.last = last
  BY <1>4, <1>6, TellingStarts
<1>9. /\ Honest(t, l.connections) /\ t.last.status = StatusOf(l)
      /\ t.last.bytes = last.bytes /\ t.last.pressure = last.pressure
  BY <1>4, <1>7, <1>8, StatusEmitted
<1>10. Told(t)
  BY <1>5, <1>6, <1>7
<1> QED BY <1>1, <1>2, <1>4, <1>9, <1>10, Retold DEF ObsInv, LoopTold

(* A ledger that failed closed never goes back to normal.                  *)
LEMMA PressureRefreshed ==
    ASSUME NEW p \in PressureStates, NEW used, NEW q, q = RefreshPressure(p, used)
    PROVE  q \in PressureStates /\ ~(p = "FailedClosed" /\ q = "Normal")
  BY DEF RefreshPressure, PressureStates

(* Charging, releasing, exhausting and failing closed.                     *)
LEMMA ChangePayloadKeeps ==
    ASSUME ObsInv, ChangePayload
    PROVE  ObsInv'
<1>1. PICK l : l = loop'
  OBVIOUS
<1>2. loop \in Loops
  BY NowTyped
<1>3. /\ l \in Loops /\ l.connections = loop.connections
      /\ ~(loop.pressure = "FailedClosed" /\ l.pressure = "Normal")
  <2>1. CASE \E used \in Usages :
                l = [loop EXCEPT !.used = used, !.pressure = RefreshPressure(@, used)]
    <3>1. PICK used \in Usages :
                l = [loop EXCEPT !.used = used, !.pressure = RefreshPressure(loop.pressure, used)]
      BY <2>1
    <3>2. used \in Nat
      BY LimitAssumption DEF Usages, LowWatermark, HighWatermark
    <3>3. loop.pressure \in PressureStates
      BY <1>2 DEF Loops
    <3>4. PICK q : q = RefreshPressure(loop.pressure, used)
      OBVIOUS
    <3>5. q \in PressureStates /\ ~(loop.pressure = "FailedClosed" /\ q = "Normal")
      BY <3>3, <3>4, PressureRefreshed
    <3>6. l = [loop EXCEPT !.used = used, !.pressure = q]
      BY <3>1, <3>4
    <3>7. l \in Loops /\ l.connections = loop.connections /\ l.pressure = q
      BY <1>2, <3>2, <3>5, <3>6 DEF Loops
    <3> QED BY <3>5, <3>7
  <2>2. CASE l = [loop EXCEPT !.pressure = "Exhausted"]
    BY <1>2, <2>2 DEF Loops, PressureStates
  <2>3. CASE l = [loop EXCEPT !.pressure = "FailedClosed"]
    BY <1>2, <2>3 DEF Loops, PressureStates
  <2> QED BY <1>1, <2>1, <2>2, <2>3 DEF ChangePayload
<1>4. OthersUnchanged
  BY DEF ChangePayload
<1>5. PICK busy \in BOOLEAN : Told(EmitPayload(Telling, l, busy))
  BY <1>1 DEF ChangePayload
<1>6. PICK s : s = Telling
  OBVIOUS
<1>7. PICK t : t = EmitPayload(s, l, busy)
  OBVIOUS
<1>8. Honest(s, l.connections) /\ s.last = last
  BY <1>3, <1>6, TellingStarts
<1>9. ~(s.last.pressure = "FailedClosed" /\ l.pressure = "Normal") /\ Collected /\ Printed
  BY <1>3, <1>8 DEF ObsInv, LoopTold
<1>10. /\ Honest(t, l.connections) /\ t.last.status = StatusOf(l)
       /\ t.last.bytes = l.used /\ t.last.pressure = l.pressure
  BY <1>3, <1>7, <1>8, <1>9, PayloadEmitted
<1>11. Told(t)
  BY <1>5, <1>6, <1>7
<1> QED BY <1>1, <1>3, <1>4, <1>10, <1>11, Retold

(* A send that is not dropped was not preceded by a drop.                  *)
LEMMA SendDrops ==
    ASSUME NEW o, IsOut(o), NEW c \in Channels, NEW e \in EventsOf(c),
           NEW n, n = Send(o, c, e)
    PROVE  n.drops = 0 => o.drops = 0
<1>1. o.drops \in Nat
  BY DEF IsOut, Outs
<1>2. n.drops \in {o.drops, o.drops + 1}
  BY SendCases
<1> QED BY <1>1, <1>2

(* The events that are sent, each in its channel.                          *)
LEMMA EventsTyped ==
    /\ Channels = {"access", "error", "metric", "product", "tls"}
    /\ \A s \in {"events", "duration", "available"} :
          Metric(s, 1) \in EventsOf("metric") /\ Silently("metric", Metric(s, 1))
    /\ Metric("requests", 1) \in EventsOf("metric") /\ Metric("requests", 1).series = "requests"
    /\ "Other" \in EventsOf("product") /\ Silently("product", "Other")
    /\ "failure" \in EventsOf("error") /\ Silently("error", "failure")
    /\ \A k \in TlsKeys : k \in EventsOf("tls") /\ Silently("tls", k)
    /\ \A n \in Nat : n \in EventsOf("access")
  BY DEF Channels, Metric, KindOf, EventsOf, Metrics, SeriesNames, Kinds, Silently,
         ProductRecords, PressureRecords

(* emit_access_log_event for one more request.                             *)
LEMMA AccessEmitted ==
    ASSUME NEW conns, NEW s, Honest(s, conns), Collected,
           NEW t, t = [last |-> s.last, out |-> EmitAccess(s.out, s.tally.requests + 1),
                       mirror |-> s.mirror,
                       tally |-> [s.tally EXCEPT !.requests = s.tally.requests + 1]]
    PROVE  Honest(t, conns) /\ t.last = s.last
<1> DEFINE k == s.tally.requests
           b == s.last.bytes
           p == s.last.pressure
<1>1. /\ s \in Tellings /\ IsOut(s.out) /\ s.last \in Lasts /\ s.mirror \in Mirrors
      /\ s.tally \in Tallies
  BY DEF Honest, Tellings
<1>2. k \in Nat /\ k + 1 \in Nat
  BY <1>1 DEF Tallies
<1>3. Informed(s.out, b, conns, k, k, p)
  BY DEF Honest
<1>4. PICK o1 : o1 = Send(s.out, "access", k + 1)
  OBVIOUS
<1>5. PICK o2 : o2 = Send(o1, "metric", Metric("requests", 1))
  OBVIOUS
<1>6. PICK o3 : o3 = Send(o2, "metric", Metric("duration", 1))
  OBVIOUS
<1>7. PICK y : y = [s.tally EXCEPT !.requests = k + 1]
  OBVIOUS
<1>8. t = [last |-> s.last, out |-> o3, mirror |-> s.mirror, tally |-> y]
  <2>1. o3 = EmitAccess(s.out, k + 1)
    BY <1>4, <1>5, <1>6 DEF EmitAccess, SendMetric, RequestMetric, RequestDurationMetric
  <2> QED BY <1>7, <2>1
<1>9. y \in Tallies /\ y.requests = k + 1 /\ y.missed = s.tally.missed /\ y.twice = s.tally.twice
  BY <1>1, <1>2, <1>7 DEF Tallies
<1> HIDE DEF k, b, p
<1>10. "access" \in Channels /\ "metric" \in Channels /\ k + 1 \in EventsOf("access")
       /\ Metric("requests", 1) \in EventsOf("metric") /\ Metric("requests", 1).series = "requests"
       /\ Metric("duration", 1) \in EventsOf("metric") /\ Silently("metric", Metric("duration", 1))
  BY <1>2, EventsTyped
<1>11. /\ IsOut(o1) /\ Balance(o1) = Balance(s.out) /\ (o1.drops = 0 => s.out.drops = 0)
       /\ Informed(o1, b, conns, k, k + 1, p)
  <2>1. IsOut(o1) /\ Balance(o1) = Balance(s.out) /\ (o1.drops = 0 => s.out.drops = 0)
    BY <1>1, <1>4, <1>10, SendCases, SendBalances, SendDrops
  <2>2. Gauge(o1, "payload", b) /\ Gauge(o1, "connections", conns)
    BY <1>1, <1>3, <1>4, <1>10, SendGauge DEF Informed
  <2>3. Counts(o1, k)
    BY <1>1, <1>2, <1>3, <1>4, <1>10, SendCount DEF Informed
  <2>4. Feeds(o1, k + 1)
    BY <1>1, <1>2, <1>3, <1>4, <1>10, SendFeed DEF Informed
  <2>5. Logs(o1, p)
    BY <1>1, <1>3, <1>4, <1>10, SendLog DEF Informed
  <2> QED BY <2>1, <2>2, <2>3, <2>4, <2>5 DEF Informed
<1>12. /\ IsOut(o2) /\ Balance(o2) = Balance(o1) /\ (o2.drops = 0 => o1.drops = 0)
       /\ Informed(o2, b, conns, k + 1, k + 1, p)
  <2>1. IsOut(o2) /\ Balance(o2) = Balance(o1) /\ (o2.drops = 0 => o1.drops = 0)
    BY <1>5, <1>10, <1>11, SendCases, SendBalances, SendDrops
  <2>2. Gauge(o2, "payload", b) /\ Gauge(o2, "connections", conns)
    BY <1>5, <1>10, <1>11, SendGauge DEF Informed
  <2>3. Counts(o2, k + 1)
    BY <1>2, <1>5, <1>10, <1>11, SendCount DEF Informed
  <2>4. Feeds(o2, k + 1)
    BY <1>2, <1>5, <1>10, <1>11, SendFeed DEF Informed
  <2>5. Logs(o2, p)
    BY <1>5, <1>10, <1>11, SendLog DEF Informed
  <2> QED BY <2>1, <2>2, <2>3, <2>4, <2>5 DEF Informed
<1>13. /\ IsOut(o3) /\ Balance(o3) = Balance(o2) /\ (o3.drops = 0 => o2.drops = 0)
       /\ Informed(o3, b, conns, k + 1, k + 1, p)
  <2>1. o3.drops = 0 => o2.drops = 0
    BY <1>6, <1>10, <1>12, SendDrops
  <2>2. IsOut(o3) /\ Balance(o3) = Balance(o2) /\ Informed(o3, b, conns, k + 1, k + 1, p)
    BY <1>2, <1>6, <1>10, <1>12, SendSilently
  <2> QED BY <2>1, <2>2
<1>14. /\ Balance(o3) = Balance(s.out) /\ (o3.drops = 0 => s.out.drops = 0)
       /\ Informed(o3, s.last.bytes, conns, y.requests, y.requests, s.last.pressure)
  BY <1>9, <1>11, <1>12, <1>13 DEF b, p
<1>15. Honest(t, conns)
  <2>1. t.last = s.last /\ t.out = o3 /\ t.mirror = s.mirror /\ t.tally = y
    BY <1>8
  <2>2. t \in Tellings
    BY <1>1, <1>8, <1>9, <1>13 DEF Tellings, IsOut
  <2> QED BY <1>9, <1>13, <1>14, <2>1, <2>2, Rebuilt
<1> QED BY <1>8, <1>15

(* remove_connection.                                                      *)
LEMMA RemoveConnectionKeeps ==
    ASSUME ObsInv, RemoveConnection
    PROVE  ObsInv'
<1>1. loop \in Loops /\ Collected /\ Printed
  BY NowTyped DEF ObsInv
<1>a. PICK r : r = IF loop.connections > 1 THEN loop
                   ELSE [loop EXCEPT !.used = 0, !.pressure = RefreshPressure(@, 0)]
  OBVIOUS
<1>b. PICK g : g = [r EXCEPT !.connections = @ - 1]
  OBVIOUS
<1>c. PICK answered \in BOOLEAN :
         /\ loop.connections > 0
         /\ loop' = g
         /\ \E busy \in BOOLEAN :
                Told(EmitStatus(EmitConnections(EmitPayload(
                         IF answered
                         THEN [Telling EXCEPT !.out = EmitAccess(@, tally.requests + 1),
                                              !.tally.requests = @ + 1]
                         ELSE Telling, r, busy), g), g, busy))
         /\ OthersUnchanged
  BY <1>a, <1>b DEF RemoveConnection
<1>d. PICK s : s = IF answered
                   THEN [Telling EXCEPT !.out = EmitAccess(@, tally.requests + 1),
                                        !.tally.requests = @ + 1]
                   ELSE Telling
  OBVIOUS
<1>2. /\ loop.connections > 0
      /\ loop' = g
      /\ \E busy \in BOOLEAN :
             Told(EmitStatus(EmitConnections(EmitPayload(s, r, busy), g), g, busy))
      /\ OthersUnchanged
  BY <1>c, <1>d
<1>3. /\ r \in Loops /\ r.connections = loop.connections
      /\ ~(loop.pressure = "FailedClosed" /\ r.pressure = "Normal")
  <2>1. CASE loop.connections > 1
    BY <1>1, <1>a, <2>1
  <2>2. CASE ~(loop.connections > 1)
    <3>1. PICK q : q = RefreshPressure(loop.pressure, 0)
      OBVIOUS
    <3>2. loop.pressure \in PressureStates
      BY <1>1 DEF Loops
    <3>3. q \in PressureStates /\ ~(loop.pressure = "FailedClosed" /\ q = "Normal")
      BY <3>1, <3>2, PressureRefreshed
    <3>4. r = [loop EXCEPT !.used = 0, !.pressure = q]
      BY <1>a, <2>2, <3>1
    <3>5. r \in Loops /\ r.connections = loop.connections /\ r.pressure = q
      BY <1>1, <3>3, <3>4 DEF Loops
    <3> QED BY <3>3, <3>5
  <2> QED BY <2>1, <2>2
<1>4. g \in Loops /\ g.used = r.used /\ g.pressure = r.pressure
  <2>1. r.connections - 1 \in Nat
    BY <1>1, <1>2, <1>3 DEF Loops
  <2> QED BY <1>b, <1>3, <2>1 DEF Loops
<1>5. Honest(s, loop.connections) /\ s.last = last
  <2>1. PICK z : z = Telling
    OBVIOUS
  <2>2. Honest(z, loop.connections) /\ z.last = last /\ z.tally.requests = tally.requests
    BY <2>1, TellingStarts
  <2>3. CASE answered
    <3>1. s = [z EXCEPT !.out = EmitAccess(@, z.tally.requests + 1), !.tally.requests = @ + 1]
      BY <1>d, <2>1, <2>2, <2>3
    <3>2. z \in Tellings
      BY <2>2 DEF Honest
    <3>3. s = [last |-> z.last, out |-> EmitAccess(z.out, z.tally.requests + 1),
               mirror |-> z.mirror,
               tally |-> [z.tally EXCEPT !.requests = z.tally.requests + 1]]
      BY <3>1, <3>2 DEF Tellings
    <3> QED BY <1>1, <2>2, <3>3, AccessEmitted
  <2>4. CASE ~answered
    BY <1>d, <2>1, <2>2, <2>4
  <2> QED BY <2>3, <2>4
<1>6. PICK busy \in BOOLEAN :
         Told(EmitStatus(EmitConnections(EmitPayload(s, r, busy), g), g, busy))
  BY <1>2
<1>7. PICK u : u = EmitPayload(s, r, busy)
  OBVIOUS
<1>8. PICK v : v = EmitConnections(u, g)
  OBVIOUS
<1>9. PICK t : t = EmitStatus(v, g, busy)
  OBVIOUS
<1>10. ~(s.last.pressure = "FailedClosed" /\ r.pressure = "Normal")
  BY <1>3, <1>5 DEF ObsInv, LoopTold
<1>11. /\ Honest(u, loop.connections)
       /\ u.last.bytes = r.used /\ u.last.pressure = r.pressure
  BY <1>1, <1>3, <1>5, <1>7, <1>10, PayloadEmitted
<1>12. Honest(v, g.connections) /\ v.last = u.last
  BY <1>1, <1>4, <1>8, <1>11, ConnectionsEmitted
<1>13. /\ Honest(t, g.connections) /\ t.last.status = StatusOf(g)
       /\ t.last.bytes = v.last.bytes /\ t.last.pressure = v.last.pressure
  BY <1>4, <1>9, <1>12, StatusEmitted
<1>14. Told(t)
  BY <1>6, <1>7, <1>8, <1>9
<1> QED BY <1>2, <1>4, <1>11, <1>12, <1>13, <1>14, Retold

-----------------------------------------------------------------------------
(* The steps that only send what the invariant does not speak of.          *)

Says(o) == /\ IsOut(o) /\ Balance(o) = Balance(out) /\ (o.drops = 0 => out.drops = 0)
           /\ Informed(o, last.bytes, loop.connections, tally.requests, tally.requests,
                       last.pressure)

(* Before the first send.                                                  *)
LEMMA SaysNow ==
    ASSUME ObsInv
    PROVE  Says(out)
  BY NowTyped DEF Says

(* One more send.                                                          *)
LEMMA SaysMore ==
    ASSUME ObsInv, NEW o, Says(o), NEW c \in Channels, NEW e \in EventsOf(c), Silently(c, e),
           NEW n, n = Send(o, c, e)
    PROVE  Says(n)
<1>1. Collected /\ tally.requests \in Nat
  BY NowTyped DEF ObsInv
<1>2. /\ IsOut(o) /\ Balance(o) = Balance(out) /\ (o.drops = 0 => out.drops = 0)
      /\ Informed(o, last.bytes, loop.connections, tally.requests, tally.requests, last.pressure)
  BY DEF Says
<1>3. n.drops = 0 => o.drops = 0
  BY <1>2, SendDrops
<1>4. /\ IsOut(n) /\ Balance(n) = Balance(o)
      /\ Informed(n, last.bytes, loop.connections, tally.requests, tally.requests, last.pressure)
  BY <1>1, <1>2, SendSilently
<1> QED BY <1>2, <1>3, <1>4 DEF Says

(* The step that sends.                                                    *)
LEMMA SaysKeeps ==
    ASSUME ObsInv, OthersUnchanged, loop' \in Loops, StatusOf(loop') = StatusOf(loop),
           Says(out'), tally' = [tally EXCEPT !.events = @ + 1],
           last' \in Lasts, last'.status = last.status, last'.bytes = last.bytes,
           last'.pressure = last.pressure,
           mirror' \in Mirrors, mirror'.resource = mirror.resource
    PROVE  ObsInv'
<1>1. PICK t, n, y : /\ n = Now /\ y = tally'
                     /\ t = [last |-> last', out |-> out', mirror |-> mirror', tally |-> y]
  OBVIOUS
<1>2. /\ loop'.used = loop.used /\ loop'.pressure = loop.pressure
      /\ loop'.connections = loop.connections
  BY DEF StatusOf
<1>3. /\ Honest(n, loop.connections)
      /\ n.last = last /\ n.out = out /\ n.mirror = mirror /\ n.tally = tally
  BY <1>1 DEF ObsInv, Now
<1>4. y \in Tallies /\ y.requests = tally.requests /\ y.missed = tally.missed /\ y.twice = tally.twice
  BY <1>1, NowTyped, TallyCounts
<1>5. /\ IsOut(out') /\ Balance(out') = Balance(n.out) /\ (out'.drops = 0 => n.out.drops = 0)
      /\ Informed(out', last'.bytes, loop.connections, y.requests, y.requests, last'.pressure)
  BY <1>3, <1>4 DEF Says
<1>6. Honest(t, loop.connections)
  <2>1. t.last = last' /\ t.out = out' /\ t.mirror = mirror' /\ t.tally = y
    BY <1>1
  <2>2. t \in Tellings
    BY <1>1, <1>4, <1>5 DEF Tellings, IsOut
  <2> QED BY <1>3, <1>4, <1>5, <2>1, <2>2, Rebuilt
<1>7. Told(t) /\ t.last = last'
  BY <1>1 DEF Told
<1>8. last.bytes = loop.used /\ last.pressure = loop.pressure /\ last.status = StatusOf(loop)
  BY DEF ObsInv, LoopTold
<1> QED BY <1>2, <1>6, <1>7, <1>8, Retold

(* accept_ready, refused.                                                  *)
LEMMA RejectAdmissionKeeps ==
    ASSUME ObsInv, RejectAdmission
    PROVE  ObsInv'
<1>1. PICK d : d = AdmissionDecision(loop.pressure, loop.connections, MaxConnections)
  OBVIOUS
<1>2. PICK c : c = Send(out, "metric", Metric("events", 1))
  OBVIOUS
<1>3. PICK o : o = Send(c, "product", "Other")
  OBVIOUS
<1>4. /\ d # "Accepted"
      /\ last' = [last EXCEPT !.rejections = @ \cup {d}]
      /\ out' = c \/ out' = o
      /\ tally' = [tally EXCEPT !.events = @ + 1]
      /\ loop' = loop /\ mirror' = mirror
      /\ OthersUnchanged
  BY <1>1, <1>2, <1>3 DEF RejectAdmission, SendMetric, ResourceAdmissionRejectionMetric
<1>5. d \in Decisions
  BY <1>1, <1>4 DEF AdmissionDecision, Decisions
<1>6. last \in Lasts /\ mirror \in Mirrors /\ loop \in Loops
  BY NowTyped
<1>7. /\ last' \in Lasts /\ last'.status = last.status /\ last'.bytes = last.bytes
      /\ last'.pressure = last.pressure
  BY <1>4, <1>5, <1>6 DEF Lasts
<1>8. Says(c)
  BY <1>2, SaysNow, SaysMore, EventsTyped
<1>9. Says(o)
  BY <1>3, <1>8, SaysMore, EventsTyped
<1>10. Says(out')
  BY <1>4, <1>8, <1>9
<1> QED BY <1>4, <1>6, <1>7, <1>10, SaysKeeps

(* An upstream attempt that fails for good.                                *)
LEMMA UpstreamFailsKeeps ==
    ASSUME ObsInv, UpstreamFails
    PROVE  ObsInv'
<1>1. PICK a : a = Send(out, "product", "Other")
  OBVIOUS
<1>2. PICK b : b = Send(a, "metric", Metric("events", 1))
  OBVIOUS
<1>4. PICK x \in {out, b} :
         /\ out' = EmitUpstreamError(x)
         /\ tally' = [tally EXCEPT !.events = @ + 1]
         /\ loop' = loop /\ mirror' = mirror /\ last' = last
         /\ OthersUnchanged
  BY <1>1, <1>2 DEF UpstreamFails, SendMetric, FailureAwareMetric
<1>5. PICK e : e = Send(x, "error", "failure")
  OBVIOUS
<1>6. out' = Send(e, "metric", Metric("events", 1))
  BY <1>4, <1>5 DEF EmitUpstreamError, SendMetric, UpstreamFailureMetric
<1>7. Says(a)
  BY <1>1, SaysNow, SaysMore, EventsTyped
<1>8. Says(b)
  BY <1>2, <1>7, SaysMore, EventsTyped
<1>9. Says(x)
  BY <1>4, <1>8, SaysNow
<1>10. Says(e)
  BY <1>5, <1>9, SaysMore, EventsTyped
<1>11. Says(out')
  BY <1>6, <1>10, SaysMore, EventsTyped
<1> QED BY <1>4, <1>11, NowTyped, SaysKeeps

(* A TLS handshake that fails.                                             *)
LEMMA HandshakeFailsKeeps ==
    ASSUME ObsInv, HandshakeFails
    PROVE  ObsInv'
<1>1. PICK key \in TlsKeys :
         /\ out' = EmitTlsError(out, key)
         /\ tally' = [tally EXCEPT !.events = @ + 1]
         /\ loop' = loop /\ mirror' = mirror /\ last' = last
         /\ OthersUnchanged
  BY DEF HandshakeFails
<1>2. PICK a : a = Send(out, "error", "failure")
  OBVIOUS
<1>3. PICK b : b = Send(a, "tls", key)
  OBVIOUS
<1>4. out' = Send(b, "metric", Metric("events", 1))
  BY <1>1, <1>2, <1>3 DEF EmitTlsError, SendMetric, TlsHandshakeFailureMetric
<1>5. Says(a)
  BY <1>2, SaysNow, SaysMore, EventsTyped
<1>6. Says(b)
  BY <1>3, <1>5, SaysMore, EventsTyped
<1>7. Says(out')
  BY <1>4, <1>6, SaysMore, EventsTyped
<1> QED BY <1>1, <1>7, NowTyped, SaysKeeps

(* The health thread's transition.                                         *)
LEMMA HealthChangesKeeps ==
    ASSUME ObsInv, HealthChanges
    PROVE  ObsInv'
<1>1. PICK a : a = Send(out, "product", "Other")
  OBVIOUS
<1>2. PICK b : b = Send(a, "metric", Metric("events", 1))
  OBVIOUS
<1>3. /\ out' = Send(b, "metric", Metric("available", 1))
      /\ tally' = [tally EXCEPT !.events = @ + 1]
      /\ loop' = loop /\ mirror' = mirror /\ last' = last
      /\ OthersUnchanged
  BY <1>1, <1>2 DEF HealthChanges, SendMetric, HealthTransitionMetric, UpstreamAvailabilityMetric
<1>4. Says(a)
  BY <1>1, SaysNow, SaysMore, EventsTyped
<1>5. Says(b)
  BY <1>2, <1>4, SaysMore, EventsTyped
<1>6. Says(out')
  BY <1>3, <1>5, SaysMore, EventsTyped
<1> QED BY <1>3, <1>6, NowTyped, SaysKeeps

(* publish_runtime_status: a transition that both sinks refuse counts once. *)
LEMMA PublishDrainStateKeeps ==
    ASSUME ObsInv, PublishDrainState
    PROVE  ObsInv'
<1>1. PICK state \in DrainSteps(loop.drain) :
        \E busy \in BOOLEAN :
          LET tr     == DrainTransition(mirror.drain, state)
              logged == Send(out, "product", "Other")
              both   == SendMetric(logged, FailureAwareMetric)
              twice  == both.drops = out.drops + 2
          IN  /\ loop' = [loop EXCEPT !.drain = state]
              /\ IF busy
                 THEN /\ tally' = [tally EXCEPT !.events = @ + 1]
                      /\ UNCHANGED <<out, mirror>>
                 ELSE /\ mirror' = [mirror EXCEPT !.drain = state]
                      /\ IF tr = "Nothing"
                         THEN out' = out /\ tally' = [tally EXCEPT !.events = @ + 1]
                         ELSE /\ out' = [both EXCEPT !.drops = IF twice THEN @ - 1 ELSE @]
                              /\ tally' = [tally EXCEPT !.events = @ + 1,
                                                        !.twice = IF twice THEN @ + 1 ELSE @]
              /\ UNCHANGED last
              /\ OthersUnchanged
  BY DEF PublishDrainState
<1>2. PICK a : a = Send(out, "product", "Other")
  OBVIOUS
<1>3. PICK b : b = Send(a, "metric", Metric("events", 1))
  OBVIOUS
<1>4. /\ loop' = [loop EXCEPT !.drain = state] /\ last' = last /\ OthersUnchanged
      /\ mirror' = mirror \/ mirror' = [mirror EXCEPT !.drain = state]
      /\ \/ out' = out /\ tally' = [tally EXCEPT !.events = @ + 1]
         \/ /\ b.drops # out.drops + 2
            /\ out' = [b EXCEPT !.drops = b.drops]
            /\ tally' = [tally EXCEPT !.events = @ + 1, !.twice = tally.twice]
         \/ /\ b.drops = out.drops + 2
            /\ out' = [b EXCEPT !.drops = b.drops - 1]
            /\ tally' = [tally EXCEPT !.events = @ + 1, !.twice = tally.twice + 1]
  BY <1>1, <1>2, <1>3 DEF SendMetric, FailureAwareMetric
<1>5. /\ last \in Lasts /\ out \in Outs /\ IsOut(out) /\ mirror \in Mirrors /\ tally \in Tallies
      /\ loop \in Loops
  BY NowTyped
<1>6. state \in DrainStates
  BY DEF DrainSteps, DrainStates
<1>7. loop' \in Loops /\ StatusOf(loop') = StatusOf(loop)
  BY <1>4, <1>5, <1>6 DEF Loops, StatusOf
<1>8. mirror' \in Mirrors /\ mirror'.resource = mirror.resource
  BY <1>4, <1>5, <1>6 DEF Mirrors
<1>9. Says(a)
  BY <1>2, SaysNow, SaysMore, EventsTyped
<1>10. Says(b) /\ IsOut(b) /\ b \in Outs
  <2>1. Says(b)
    BY <1>3, <1>9, SaysMore, EventsTyped
  <2> QED BY <2>1 DEF Says, IsOut
<1>11. CASE out' = out /\ tally' = [tally EXCEPT !.events = @ + 1]
  BY <1>4, <1>5, <1>7, <1>8, <1>11, SaysNow, SaysKeeps
<1>12. CASE /\ out' = [b EXCEPT !.drops = b.drops]
            /\ tally' = [tally EXCEPT !.events = @ + 1, !.twice = tally.twice]
  <2>1. out' = b
    BY <1>10, <1>12 DEF Outs
  <2>2. tally' = [tally EXCEPT !.events = @ + 1]
    BY <1>5, <1>12 DEF Tallies
  <2> QED BY <1>4, <1>5, <1>7, <1>8, <1>10, <2>1, <2>2, SaysKeeps
<1>13. CASE /\ b.drops = out.drops + 2
            /\ out' = [b EXCEPT !.drops = b.drops - 1]
            /\ tally' = [tally EXCEPT !.events = @ + 1, !.twice = tally.twice + 1]
  <2>1. PICK o, y, t : /\ o = out' /\ y = tally'
                       /\ t = [last |-> last, out |-> o, mirror |-> mirror', tally |-> y]
    OBVIOUS
  <2>2. /\ y \in Tallies /\ y.requests = tally.requests /\ y.missed = tally.missed
        /\ y.twice = tally.twice + 1
    <3>1. y = [tally EXCEPT !.events = @ + 1, !.twice = tally.twice + 1]
      BY <1>13, <2>1
    <3> QED BY <1>5, <3>1, TallyTwice
  <2>3. out.drops \in Nat /\ b.drops \in Nat /\ b.open \in Int
    BY <1>5, <1>10 DEF Outs
  <2>4. /\ o = [channel |-> b.channel, open |-> b.open, drops |-> b.drops - 1]
        /\ o.channel = b.channel /\ o.open = b.open /\ o.drops = b.drops - 1
    BY <1>10, <1>13, <2>1 DEF Outs
  <2>5. o.drops = out.drops + 1 /\ o.drops # 0 /\ o.drops \in Nat
    BY <1>13, <2>3, <2>4
  <2>6. o \in Outs /\ IsOut(o)
    <3>1. b.channel \in [Channels -> UNION {Seq(EventsOf(c)) : c \in Channels}]
      BY <1>10 DEF Outs
    <3>2. o \in Outs
      BY <2>3, <2>4, <2>5, <3>1 DEF Outs
    <3> QED BY <1>10, <2>4, <3>2 DEF IsOut
  <2>7. Balance(o) = Balance(out) + 1 /\ Balance(out) \in Int
    <3>1. Waiting(o) = Waiting(b)
      BY <2>4 DEF Waiting
    <3>2. Waiting(b) \in Int
      BY <1>10, WaitingTyped
    <3>3. Balance(b) = Balance(out)
      BY <1>10 DEF Says
    <3>4. Balance(o) = Balance(b) + 1 /\ Balance(b) \in Int
      BY <2>3, <2>4, <3>1, <3>2 DEF Balance
    <3> QED BY <3>3, <3>4
  <2>8. Balance(out) + tally.missed = tally.twice
    BY DEF ObsInv, Honest, Accounted, Now
  <2>9. t.last = last /\ t.out = o /\ t.mirror = mirror' /\ t.tally = y
    BY <2>1
  <2>10. Accounted(t)
    <3>1. tally.missed \in Nat /\ tally.twice \in Nat
      BY <1>5 DEF Tallies
    <3> QED BY <2>2, <2>7, <2>8, <2>9, <3>1 DEF Accounted
  <2>11. t \in Tellings
    BY <1>5, <1>8, <2>1, <2>2, <2>6 DEF Tellings
  <2>12. Honest(t, loop'.connections)
    BY <2>5, <2>6, <2>9, <2>10, <2>11, DroppedInforms DEF Honest
  <2>13. Told(t)
    BY <1>4, <2>1, <2>9 DEF Told
  <2>14. last.bytes = loop.used /\ last.pressure = loop.pressure /\ last.status = StatusOf(loop)
    BY DEF ObsInv, LoopTold
  <2>15. loop'.used = loop.used /\ loop'.pressure = loop.pressure
    BY <1>7 DEF StatusOf
  <2> QED BY <1>4, <1>7, <2>9, <2>12, <2>13, <2>14, <2>15, Retold
<1> QED BY <1>4, <1>11, <1>12, <1>13

-----------------------------------------------------------------------------
(* The steps of the collectors.                                            *)

(* What a collector takes leaves its channel and nothing else.             *)
TakenFrom(o, c) == [o EXCEPT !.channel[c] = Tail(@), !.open = @ - 1]

(* The channels after that.                                                *)
LEMMA TakeCases ==
    ASSUME NEW o, IsOut(o), NEW c \in Channels, o.channel[c] # <<>>,
           NEW n, n = TakenFrom(o, c)
    PROVE  /\ IsOut(n)
           /\ n.drops = o.drops
           /\ \A d \in Channels : d # c => n.channel[d] = o.channel[d]
           /\ n.channel[c] = Tail(o.channel[c])
           /\ Head(o.channel[c]) \in EventsOf(c) /\ o.channel[c] \in Seq(EventsOf(c))
           /\ Balance(n) = Balance(o)
<1> DEFINE q == o.channel[c]
<1>1. q \in Seq(EventsOf(c)) /\ Tail(q) \in Seq(EventsOf(c)) /\ Len(Tail(q)) = Len(q) - 1
      /\ Head(q) \in EventsOf(c) /\ Len(q) \in Nat
  BY HeadTailProperties DEF IsOut
<1>2. o \in Outs
  BY DEF IsOut
<1>3. n = [o EXCEPT !.channel = [o.channel EXCEPT ![c] = Tail(q)], !.open = o.open - 1]
  BY <1>2 DEF Outs, TakenFrom
<1>4. /\ n.channel = [o.channel EXCEPT ![c] = Tail(q)]
      /\ n.open = o.open - 1 /\ n.drops = o.drops
      /\ n = [channel |-> n.channel, open |-> n.open, drops |-> n.drops]
  BY <1>3, <1>2 DEF Outs
<1>5. \A d \in Channels : n.channel[d] \in Seq(EventsOf(d))
  BY <1>4, <1>1, <1>2 DEF Outs, IsOut
<1>6. n.channel \in [Channels -> UNION {Seq(EventsOf(d)) : d \in Channels}]
  BY <1>4, <1>5, <1>2 DEF Outs
<1>7. n.open \in Int /\ n.drops \in Nat /\ o.open \in Int /\ o.drops \in Nat
  BY <1>4, <1>2 DEF Outs
<1>8. n \in Outs
  BY <1>4, <1>6, <1>7 DEF Outs
<1>9. \A d \in Channels : d # c => n.channel[d] = o.channel[d]
  BY <1>4, <1>2 DEF Outs
<1>10. n.channel[c] = Tail(q)
  BY <1>4, <1>2 DEF Outs
<1>11. Waiting(n) = Waiting(o) - 1
  <2> DEFINE x(d) == Len(o.channel[d])
             y(d) == Len(n.channel[d])
  <2>1. \A d \in Channels : x(d) \in Nat /\ y(d) \in Nat
    BY <1>5 DEF IsOut
  <2>2. \A d \in Channels : d # c => y(d) = x(d)
    BY <1>9
  <2>3. y(c) = x(c) - 1
    BY <1>1, <1>10
  <2>4. /\ Waiting(o) = x("access") + x("error") + x("metric") + x("product") + x("tls")
        /\ Waiting(n) = y("access") + y("error") + y("metric") + y("product") + y("tls")
    BY DEF Waiting
  <2> HIDE DEF x, y
  <2>5. c \in {"access", "error", "metric", "product", "tls"}
    BY DEF Channels
  <2>6. x("access") \in Nat /\ x("error") \in Nat /\ x("metric") \in Nat /\ x("product") \in Nat
        /\ x("tls") \in Nat
    BY <2>1 DEF Channels
  <2>7. /\ y("access") = IF c = "access" THEN x("access") - 1 ELSE x("access")
        /\ y("error") = IF c = "error" THEN x("error") - 1 ELSE x("error")
        /\ y("metric") = IF c = "metric" THEN x("metric") - 1 ELSE x("metric")
        /\ y("product") = IF c = "product" THEN x("product") - 1 ELSE x("product")
        /\ y("tls") = IF c = "tls" THEN x("tls") - 1 ELSE x("tls")
    BY <2>2, <2>3 DEF Channels
  <2> QED BY <2>4, <2>5, <2>6, <2>7
<1>12. Waiting(o) \in Nat
  BY WaitingTyped
<1>13. Balance(n) = Balance(o)
  BY <1>4, <1>7, <1>11, <1>12 DEF Balance
<1>14. IsOut(n)
  BY <1>5, <1>8 DEF IsOut
<1> QED BY <1>1, <1>4, <1>9, <1>10, <1>13, <1>14

(* What the invariant says of the collectors.                              *)
Informs == Informed(out, last.bytes, loop.connections, tally.requests, tally.requests,
                    last.pressure)
Gathered == /\ Collected /\ Printed
            /\ printed = [pressure |-> printed.pressure, tls |-> printed.tls]
            /\ SamplerSound(sampler, printed.tls)

(* What a collector takes, for a step.                                     *)
LEMMA TakeStep ==
    ASSUME ObsInv, NEW c \in Channels, Take(c)
    PROVE  /\ IsOut(out') /\ Balance(out') = Balance(out)
           /\ out'.drops = out.drops
           /\ \A d \in Channels : d # c => out'.channel[d] = out.channel[d]
           /\ out'.channel[c] = Tail(out.channel[c])
           /\ out.channel[c] \in Seq(EventsOf(c)) /\ out.channel[c] # <<>>
           /\ Head(out.channel[c]) \in EventsOf(c)
<1>1. PICK n, o : n = out' /\ o = out
  OBVIOUS
<1>2. n = TakenFrom(o, c) /\ o.channel[c] # <<>>
  BY <1>1 DEF Take, TakenFrom
<1>3. IsOut(o)
  BY <1>1, NowTyped
<1>4. /\ IsOut(n)
      /\ n.drops = o.drops
      /\ \A d \in Channels : d # c => n.channel[d] = o.channel[d]
      /\ n.channel[c] = Tail(o.channel[c])
      /\ Head(o.channel[c]) \in EventsOf(c) /\ o.channel[c] \in Seq(EventsOf(c))
      /\ Balance(n) = Balance(o)
  BY <1>2, <1>3, TakeCases
<1> QED BY <1>1, <1>2, <1>4

(* The invariant after a collector's step.                                 *)
LEMMA CollectKeeps ==
    ASSUME ObsInv, NEW c \in Channels, Take(c), ProducersUnchanged, Gathered', Informs'
    PROVE  ObsInv'
<1>1. /\ loop' = loop /\ last' = last /\ mirror' = mirror /\ tally' = tally
  BY DEF ProducersUnchanged
<1>2. IsOut(out') /\ Balance(out') = Balance(out) /\ out'.drops = out.drops
  BY TakeStep
<1>3. /\ last \in Lasts /\ mirror \in Mirrors /\ tally \in Tallies
  BY NowTyped
<1>4. Now' = [last |-> last, out |-> out', mirror |-> mirror, tally |-> tally]
  BY <1>1 DEF Now
<1>5. /\ Now'.last = last /\ Now'.out = out' /\ Now'.mirror = mirror /\ Now'.tally = tally
  BY <1>4
<1>6. /\ Balance(out) + tally.missed = tally.twice
      /\ out.drops = 0 => mirror.resource = last.status
  BY DEF ObsInv, Honest, Accounted, Now
<1>7. Now' \in Tellings
  BY <1>2, <1>3, <1>4 DEF Tellings, IsOut
<1>8. Accounted(Now')
  BY <1>2, <1>5, <1>6 DEF Accounted
<1>9. Informed(Now.out, Now.last.bytes, loop.connections, Now.tally.requests,
               Now.tally.requests, Now.last.pressure)'
  BY <1>1, <1>5 DEF Informs
<1>10. Honest(Now, loop.connections)'
  BY <1>2, <1>5, <1>6, <1>7, <1>8, <1>9 DEF Honest
<1>11. LoopTold'
  BY <1>1 DEF ObsInv, LoopTold
<1> QED BY <1>10, <1>11 DEF ObsInv, Gathered

(* The access collector.                                                   *)
LEMMA CollectAccessKeeps ==
    ASSUME ObsInv, CollectRecent("access")
    PROVE  ObsInv'
<1> DEFINE q == out.channel["access"]
           k == tally.requests
<1>1. /\ Take("access") /\ ProducersUnchanged /\ "access" \in Channels
      /\ recent' = [recent EXCEPT !["access"] = Push(@, Head(q))]
      /\ registry' = registry /\ sampler' = sampler /\ printed' = printed
      /\ loop' = loop /\ last' = last /\ tally' = tally
  BY EventsTyped DEF CollectRecent, ProducersUnchanged
<1>2. /\ out'.drops = out.drops
      /\ out'.channel["access"] = Tail(q) /\ q \in Seq(Nat) /\ q # <<>>
      /\ out'.channel["metric"] = out.channel["metric"]
      /\ out'.channel["product"] = out.channel["product"]
  BY <1>1, TakeStep, EventsTyped DEF EventsOf
<1>3. recent \in [access : Seq(Nat), error : Seq({"failure"})] /\ recent.access \in Seq(Nat)
  BY DEF ObsInv, Collected
<1>4. recent'.access = Push(recent.access, Head(q)) /\ recent'.error = recent.error
      /\ recent' = [access |-> recent'.access, error |-> recent'.error]
  BY <1>1, <1>3
<1>5. k \in Nat /\ Informs
  BY NowTyped DEF Informs
<1>6. Push(recent.access, Head(q)) \in Seq(Nat)
  <2>1. Head(q) \in Nat
    BY <1>2, HeadTailProperties
  <2>2. Tail(recent.access) \in Seq(Nat) \/ recent.access = <<>>
    BY <1>3, HeadTailProperties
  <2>3. RecentCapacity \in Nat \ {0}
    BY ObservabilityAssumption
  <2>4. (IF Len(recent.access) >= RecentCapacity THEN Tail(recent.access) ELSE recent.access)
           \in Seq(Nat)
    <3>1. recent.access = <<>> => Len(recent.access) = 0
      OBVIOUS
    <3> QED BY <1>3, <2>2, <2>3, <3>1
  <2> QED BY <2>1, <2>4, AppendProperties DEF Push
<1>7. Gathered'
  <2>1. recent' \in [access : Seq(Nat), error : Seq({"failure"})]
    BY <1>3, <1>4, <1>6
  <2> QED BY <1>1, <2>1 DEF Gathered, ObsInv, Collected, Printed
<1>8. Feeds(out, k)'
  <2> SUFFICES ASSUME out'.drops = 0
               PROVE  FeedTold(recent'.access, out'.channel["access"], k)
    BY <1>1 DEF Feeds
  <2>1. FeedTold(recent.access, q, k)
    BY <1>2, <1>5 DEF Informs, Informed, Feeds
  <2> HIDE DEF q, k
  <2>2. FeedTold(Push(recent.access, Head(q)), Tail(q), k)
    BY <1>2, <1>3, <1>5, <2>1, FeedTaken
  <2> QED BY <1>2, <1>4, <2>2
<1>9. Informs'
  BY <1>1, <1>2, <1>5, <1>8 DEF Informs, Informed, Gauge, Counts, Logs
<1> QED BY <1>1, <1>7, <1>9, CollectKeeps

(* The error collector.                                                    *)
LEMMA CollectErrorKeeps ==
    ASSUME ObsInv, CollectRecent("error")
    PROVE  ObsInv'
<1> DEFINE q == out.channel["error"]
           F == {"failure"}
<1>1. /\ Take("error") /\ ProducersUnchanged /\ "error" \in Channels
      /\ recent' = [recent EXCEPT !["error"] = Push(@, Head(q))]
      /\ registry' = registry /\ sampler' = sampler /\ printed' = printed
      /\ loop' = loop /\ last' = last /\ tally' = tally
  BY EventsTyped DEF CollectRecent, ProducersUnchanged
<1>2. /\ out'.drops = out.drops
      /\ q \in Seq(F) /\ q # <<>>
      /\ out'.channel["access"] = out.channel["access"]
      /\ out'.channel["metric"] = out.channel["metric"]
      /\ out'.channel["product"] = out.channel["product"]
  BY <1>1, TakeStep, EventsTyped DEF EventsOf
<1>3. recent \in [access : Seq(Nat), error : Seq(F)] /\ recent.error \in Seq(F)
      /\ recent.access \in Seq(Nat)
  BY DEF ObsInv, Collected
<1>4. recent'.error = Push(recent.error, Head(q)) /\ recent'.access = recent.access
      /\ recent' = [access |-> recent'.access, error |-> recent'.error]
  BY <1>1, <1>3
<1>5. Push(recent.error, Head(q)) \in Seq(F)
  <2> HIDE DEF F
  <2>1. Head(q) \in F
    BY <1>2, HeadTailProperties
  <2>2. Tail(recent.error) \in Seq(F) \/ recent.error = <<>>
    BY <1>3, HeadTailProperties
  <2>3. RecentCapacity \in Nat \ {0}
    BY ObservabilityAssumption
  <2>4. (IF Len(recent.error) >= RecentCapacity THEN Tail(recent.error) ELSE recent.error)
           \in Seq(F)
    <3>1. recent.error = <<>> => Len(recent.error) = 0
      OBVIOUS
    <3> QED BY <1>3, <2>2, <2>3, <3>1
  <2> QED BY <2>1, <2>4, AppendProperties DEF Push
<1>6. Gathered'
  <2>1. recent' \in [access : Seq(Nat), error : Seq(F)]
    BY <1>3, <1>4, <1>5
  <2> QED BY <1>1, <2>1 DEF Gathered, ObsInv, Collected, Printed
<1>7. Informs
  BY NowTyped DEF Informs
<1>8. Informs'
  BY <1>1, <1>2, <1>4, <1>7 DEF Informs, Informed, Gauge, Counts, Logs, Feeds
<1> QED BY <1>1, <1>6, <1>8, CollectKeeps

(* The metric collector.                                                   *)
LEMMA CollectMetricKeeps ==
    ASSUME ObsInv, CollectMetric
    PROVE  ObsInv'
<1> DEFINE q == out.channel["metric"]
           k == tally.requests
<1>1. /\ Take("metric") /\ ProducersUnchanged /\ "metric" \in Channels
      /\ registry' = RegistryObserve(registry, Head(q))
      /\ recent' = recent /\ sampler' = sampler /\ printed' = printed
      /\ loop' = loop /\ last' = last /\ tally' = tally
  BY EventsTyped DEF CollectMetric, ProducersUnchanged
<1>2. /\ out'.drops = out.drops
      /\ out'.channel["metric"] = Tail(q) /\ q \in Seq(Metrics) /\ q # <<>> /\ Head(q) \in Metrics
      /\ out'.channel["access"] = out.channel["access"]
      /\ out'.channel["product"] = out.channel["product"]
  BY <1>1, TakeStep, EventsTyped DEF EventsOf
<1>3. Registries(registry) /\ Informs
  BY NowTyped DEF Informs, ObsInv, Collected
<1>4. PICK r, n : r = registry /\ n = registry'
  OBVIOUS
<1> HIDE DEF q, k
<1>5. /\ Registries(n) /\ Registries(r) /\ n = RegistryObserve(r, Head(q))
      /\ n.refused = r.refused + 1 \/ n.refused = r.refused
  BY <1>1, <1>2, <1>3, <1>4, ObserveCases
<1>6. r.refused \in Nat
  BY <1>5 DEF Registries
<1>7. Gathered'
  BY <1>1, <1>4, <1>5 DEF Gathered, ObsInv, Collected, Printed
<1>8. ASSUME n.refused = 0
      PROVE  n.refused = r.refused /\ r.refused = 0
  BY <1>5, <1>6, <1>8
<1>9. ASSUME NEW s \in {"payload", "connections"}, NEW v, Gauge(out, s, v)
      PROVE  Gauge(out, s, v)'
  <2> SUFFICES ASSUME out'.drops = 0, n.refused = 0
               PROVE  GaugeTold(Tail(q), n, s, v)
    BY <1>2, <1>4 DEF Gauge
  <2>1. GaugeTold(q, r, s, v)
    BY <1>2, <1>4, <1>8, <1>9 DEF Gauge, q
  <2> QED BY <1>2, <1>5, <1>8, <2>1, GaugeTaken
<1>10. Counts(out, k)'
  <2> SUFFICES ASSUME out'.drops = 0, n.refused = 0
               PROVE  CountTold(Tail(q), n, k)
    BY <1>1, <1>2, <1>4 DEF Counts, k
  <2>1. CountTold(q, r, k)
    BY <1>2, <1>3, <1>4, <1>8 DEF Counts, Informs, Informed, q, k
  <2> QED BY <1>2, <1>5, <1>8, <2>1, CountTaken
<1>11. Informs'
  <2>1. Gauge(out, "payload", last.bytes) /\ Gauge(out, "connections", loop.connections)
    BY <1>3 DEF Informs, Informed
  <2>2. Gauge(out, "payload", last.bytes)' /\ Gauge(out, "connections", loop.connections)'
    BY <1>1, <1>9, <2>1
  <2>3. Feeds(out, tally.requests)' /\ Logs(out, last.pressure)'
    BY <1>1, <1>2, <1>3 DEF Informs, Informed, Feeds, Logs
  <2> QED BY <1>1, <1>10, <2>2, <2>3 DEF Informs, Informed, k
<1> QED BY <1>1, <1>7, <1>11, CollectKeeps

(* The product log collector.                                              *)
LEMMA CollectProductKeeps ==
    ASSUME ObsInv, CollectProduct
    PROVE  ObsInv'
<1> DEFINE q == out.channel["product"]
           p == last.pressure
<1>1. /\ Take("product") /\ ProducersUnchanged /\ "product" \in Channels
      /\ printed' = IF Head(q) = "Other" THEN printed ELSE [printed EXCEPT !.pressure = Head(q)]
      /\ recent' = recent /\ sampler' = sampler /\ registry' = registry
      /\ loop' = loop /\ last' = last /\ tally' = tally
  BY EventsTyped DEF CollectProduct, ProducersUnchanged
<1>2. /\ out'.drops = out.drops
      /\ out'.channel["product"] = Tail(q) /\ q \in Seq(ProductRecords) /\ q # <<>>
      /\ Head(q) \in ProductRecords
      /\ out'.channel["access"] = out.channel["access"]
      /\ out'.channel["metric"] = out.channel["metric"]
  BY <1>1, TakeStep, EventsTyped DEF EventsOf
<1>3. Informs /\ Printed /\ printed = [pressure |-> printed.pressure, tls |-> printed.tls]
  BY NowTyped DEF Informs, ObsInv
<1> HIDE DEF q
<1>4. /\ printed'.pressure = IF Head(q) = "Other" THEN printed.pressure ELSE Head(q)
      /\ printed'.tls = printed.tls
      /\ printed' = [pressure |-> printed'.pressure, tls |-> printed'.tls]
  BY <1>1, <1>3
<1>5. printed'.pressure \in PressureRecords
  BY <1>2, <1>3, <1>4 DEF Printed, ProductRecords
<1>6. Gathered'
  BY <1>1, <1>4, <1>5 DEF Gathered, ObsInv, Collected, Printed
<1>7. Logs(out, p)'
  <2> SUFFICES ASSUME out'.drops = 0
               PROVE  LogTold(Tail(q), printed'.pressure, p)
    BY <1>1, <1>2 DEF Logs
  <2>1. LogTold(q, printed.pressure, p)
    BY <1>2, <1>3 DEF Informs, Informed, Logs, q
  <2> HIDE DEF p
  <2> QED BY <1>2, <1>4, <2>1, LogTaken
<1>8. Informs'
  BY <1>1, <1>2, <1>3, <1>7 DEF Informs, Informed, Gauge, Counts, Feeds
<1> QED BY <1>1, <1>6, <1>8, CollectKeeps

(* The TLS failure collector.                                              *)
LEMMA CollectTlsKeeps ==
    ASSUME ObsInv, CollectTls
    PROVE  ObsInv'
<1> DEFINE q == out.channel["tls"]
<1>1. PICK now \in 0 .. MaxClock :
        /\ Take("tls") /\ ProducersUnchanged /\ "tls" \in Channels
        /\ IF Silent(sampler, Head(q), now) THEN UNCHANGED <<sampler, printed>>
           ELSE /\ sampler' = Sample(sampler, Head(q), now)
                /\ printed' = [printed EXCEPT !.tls = Append(@, [key |-> Head(q), at |-> now])]
        /\ recent' = recent /\ registry' = registry
        /\ loop' = loop /\ last' = last /\ tally' = tally
  BY EventsTyped DEF CollectTls, ProducersUnchanged
<1>2. /\ out'.drops = out.drops
      /\ Head(q) \in TlsKeys
      /\ out'.channel["access"] = out.channel["access"]
      /\ out'.channel["metric"] = out.channel["metric"]
      /\ out'.channel["product"] = out.channel["product"]
  BY <1>1, TakeStep, EventsTyped DEF EventsOf
<1>3. /\ Informs /\ Printed /\ printed = [pressure |-> printed.pressure, tls |-> printed.tls]
      /\ Collected /\ SamplerSound(sampler, printed.tls)
  BY NowTyped DEF Informs, ObsInv
<1>4. now \in Nat
  BY ObservabilityAssumption
<1>5. PICK key : key = Head(q)
  OBVIOUS
<1> HIDE DEF q
<1>6. /\ printed'.pressure = printed.pressure
      /\ printed' = [pressure |-> printed'.pressure, tls |-> printed'.tls]
      /\ SamplerSound(sampler', printed'.tls)
  <2>1. CASE Silent(sampler, key, now)
    BY <1>1, <1>3, <1>5, <2>1
  <2>2. CASE ~Silent(sampler, key, now)
    <3>1. PICK z : z = sampler'
      OBVIOUS
    <3>2. PICK m : m = Append(printed.tls, [key |-> key, at |-> now])
      OBVIOUS
    <3>3. printed' = [printed EXCEPT !.tls = m] /\ z = Sample(sampler, key, now)
      BY <1>1, <1>5, <2>2, <3>1, <3>2
    <3>4. SamplerSound(z, m)
      BY <1>2, <1>3, <1>4, <1>5, <2>2, <3>2, <3>3, SampleKeeps
    <3> QED BY <1>3, <3>1, <3>3, <3>4
  <2> QED BY <2>1, <2>2
<1>7. Gathered'
  BY <1>1, <1>3, <1>6 DEF Gathered, Collected, Printed
<1>8. Informs'
  BY <1>1, <1>2, <1>3, <1>6 DEF Informs, Informed, Gauge, Counts, Feeds, Logs
<1> QED BY <1>1, <1>7, <1>8, CollectKeeps

-----------------------------------------------------------------------------
(* The theorems.                                                           *)

(* Steps of the Prometheus listener, and stuttering.                       *)
LEMMA UntouchedKeeps ==
    ASSUME ObsInv, UNCHANGED <<loop, last, out, mirror, recent, registry, sampler, printed, tally>>
    PROVE  ObsInv'
<1>1. Now' = Now
  BY DEF Now
<1> QED BY <1>1 DEF ObsInv, LoopTold, Honest, Informed, Gauge, Counts, Feeds, Logs, Collected,
                    Printed

(* The invariant holds at the start.                                       *)
LEMMA ObsInvInit ==
    ASSUME Init
    PROVE  ObsInv
<1>1. /\ loop = [used |-> 0, pressure |-> "Normal", connections |-> 1, revision |-> 0,
                 drain |-> "Active"]
      /\ last = [bytes |-> 0, pressure |-> "Normal", status |-> StatusOf(loop), rejections |-> {}]
      /\ out = [channel |-> [c \in Channels |-> <<>>], open |-> 0, drops |-> 0]
      /\ mirror = [resource |-> StatusOf(loop), drain |-> "Active"]
      /\ recent = [access |-> <<>>, error |-> <<>>]
      /\ sampler = [order |-> <<>>, at |-> [k \in {} |-> 0]]
      /\ printed = [pressure |-> "Recovered", tls |-> <<>>]
      /\ tally = [events |-> 0, requests |-> 0, missed |-> 0, twice |-> 0]
  BY DEF Init
<1>2. loop \in Loops
  BY <1>1 DEF Loops, PressureStates, DrainStates
<1>3. StatusOf(loop) \in Statuses
  BY <1>2, StatusTyped
<1>4. LoopTold
  BY <1>1, <1>2 DEF LoopTold
<1>5. last \in Lasts /\ mirror \in Mirrors /\ tally \in Tallies
  BY <1>1, <1>3 DEF Lasts, Mirrors, Tallies, PressureStates, DrainStates
<1>6. /\ out.channel = [c \in Channels |-> <<>>] /\ out.open = 0 /\ out.drops = 0
      /\ \A c \in Channels : out.channel[c] = <<>> /\ out.channel[c] \in Seq(EventsOf(c))
  BY <1>1
<1>7. out \in Outs /\ IsOut(out)
  <2>1. out.channel \in [Channels -> UNION {Seq(EventsOf(c)) : c \in Channels}]
    BY <1>6
  <2>2. out \in Outs
    BY <1>1, <1>6, <2>1 DEF Outs
  <2> QED BY <1>6, <2>2 DEF IsOut
<1>8. /\ registry.refused = 0
      /\ registry.series = [s \in {"payload", "connections"} |->
                              IF s = "payload" THEN [kind |-> "Gauge", value |-> 0]
                              ELSE [kind |-> "Gauge", value |-> 1]]
      /\ registry = [series |-> registry.series, refused |-> registry.refused]
  BY DEF Init
<1>9. /\ Registries(registry)
      /\ ReadsOf(registry, "payload") = 0 /\ ReadsOf(registry, "connections") = 1
      /\ ReadsOf(registry, "requests") = 0
  BY <1>8 DEF Registries, ReadsOf
<1>10. Collected
  BY <1>1, <1>9 DEF Collected
<1>11. /\ out.channel["metric"] = <<>> /\ out.channel["product"] = <<>>
       /\ out.channel["access"] = <<>> /\ out.channel["error"] = <<>> /\ out.channel["tls"] = <<>>
  BY <1>6 DEF Channels
<1>12. Gauge(out, "payload", 0) /\ Gauge(out, "connections", 1)
  BY <1>9, <1>11 DEF Gauge, GaugeTold
<1>13. Counts(out, 0)
  <2>1. RequestsIn(<<>>) = {}
    BY DEF RequestsIn
  <2>2. Cardinality(RequestsIn(<<>>)) = 0
    BY <2>1, FS_EmptySet
  <2> QED BY <1>9, <1>11, <2>2 DEF Counts, CountTold
<1>14. Feeds(out, 0) /\ Logs(out, "Normal")
  BY <1>1, <1>11 DEF Feeds, FeedTold, Logs, LogTold, Tells
<1>15. Informs
  BY <1>1, <1>12, <1>13, <1>14 DEF Informs, Informed
<1>16. Balance(out) = 0
  <2>1. Len(<<>>) = 0
    OBVIOUS
  <2>2. Waiting(out) = 0
    BY <1>11, <2>1 DEF Waiting
  <2> QED BY <1>6, <2>2 DEF Balance
<1>17. Now.last = last /\ Now.out = out /\ Now.mirror = mirror /\ Now.tally = tally
  BY DEF Now
<1>18. Now \in Tellings
  BY <1>5, <1>7 DEF Now, Tellings
<1>19. Accounted(Now)
  BY <1>1, <1>16, <1>17 DEF Accounted
<1>20. Honest(Now, loop.connections)
  BY <1>1, <1>7, <1>15, <1>17, <1>18, <1>19 DEF Honest, Informs
<1>21. Printed /\ printed = [pressure |-> printed.pressure, tls |-> printed.tls]
  BY <1>1 DEF Printed, PressureRecords
<1>22. SamplerSound(sampler, printed.tls)
  <2>1. sampler.order = <<>> /\ DOMAIN sampler.at = {} /\ printed.tls = <<>>
    BY <1>1
  <2>2. SamplerCapacity \in Nat
    BY ObservabilityAssumption
  <2> QED BY <2>1, <2>2 DEF SamplerSound, Remembers, Window
<1> QED BY <1>4, <1>10, <1>20, <1>21, <1>22 DEF ObsInv

(* Every step keeps it.                                                    *)
LEMMA ObsInvStep ==
    ASSUME ObsInv, [Next]_vars
    PROVE  ObsInv'
<1>1. CASE LoopStep
  BY <1>1, AcceptKeeps, RejectAdmissionKeeps, ChangePayloadKeeps, RemoveConnectionKeeps,
     UpstreamFailsKeeps, HandshakeFailsKeeps, SyncRevisionKeeps, PublishDrainStateKeeps
  DEF LoopStep
<1>2. CASE HealthChanges
  BY <1>2, HealthChangesKeeps
<1>3. CASE Collect
  BY <1>3, CollectAccessKeeps, CollectErrorKeeps, CollectMetricKeeps, CollectProductKeeps,
     CollectTlsKeeps
  DEF Collect
<1>4. CASE ListenerStep
  <2>1. ListenerOnly
    BY <1>4 DEF ListenerStep, AcceptScrape, AcceptFails, Stop, ListenerDrains, ListenerJoins,
                WorkerTakes, WorkerReads, WorkerAnswers, WorkerEnds
  <2> QED BY <2>1, UntouchedKeeps DEF ListenerOnly, CollectorsUnchanged
<1>5. CASE UNCHANGED vars
  BY <1>5, UntouchedKeeps DEF vars
<1> QED BY <1>1, <1>2, <1>3, <1>4, <1>5 DEF Next

(* What the loop remembers as told is what it is, and what it told is on   *)
(* its way or known, in every behaviour.                                   *)
THEOREM ObservabilityInvariant == Spec => []ObsInv
<1>1. Init => ObsInv
  BY ObsInvInit
<1>2. ObsInv /\ [Next]_vars => ObsInv'
  BY ObsInvStep
<1> QED BY <1>1, <1>2, PTL DEF Spec

(* Whatever the loop and the health thread emit waits, was taken, or is in *)
(* the drop counter, whatever the capacities of the channels.              *)
THEOREM EventsAreAccounted == Spec => []EventsAccounted
<1>1. ObsInv => EventsAccounted
  <2> SUFFICES ASSUME ObsInv PROVE EventsAccounted
    OBVIOUS
  <2>1. Balance(out) + tally.missed = tally.twice
    BY DEF ObsInv, Honest, Accounted, Now
  <2>2. /\ out.open \in Int /\ out.drops \in Nat /\ tally.missed \in Nat /\ tally.twice \in Nat
        /\ Waiting(out) \in Nat
    BY NowTyped, WaitingTyped DEF Outs, Tallies
  <2> QED BY <2>1, <2>2 DEF EventsAccounted, Balance
<1> QED BY <1>1, ObservabilityInvariant, PTL

(* What the feeds, the gauges, the status and the log tell.                *)
LEMMA ToldNow ==
    ASSUME ObsInv
    PROVE  QuietIsCurrent /\ PressureLogTellsState
<1>1. Informs /\ IsOut(out) /\ loop \in Loops /\ tally.requests \in Nat
  BY NowTyped DEF Informs
<1>2. /\ last.bytes = loop.used /\ last.pressure = loop.pressure /\ last.status = StatusOf(loop)
      /\ out.drops = 0 => mirror.resource = last.status
  BY DEF ObsInv, LoopTold, Honest, Now
<1>3. ASSUME out.drops = 0, out.channel["metric"] = <<>>, registry.refused = 0
      PROVE  /\ Reads("payload", 0) = loop.used
             /\ Reads("connections", 0) = loop.connections
             /\ Reads("requests", 0) = tally.requests
  <2>1. \A s : Reads(s, 0) = ReadsOf(registry, s)
    BY DEF Reads, ReadsOf
  <2>2. /\ GaugeTold(<<>>, registry, "payload", loop.used)
        /\ GaugeTold(<<>>, registry, "connections", loop.connections)
        /\ CountTold(<<>>, registry, tally.requests)
    BY <1>1, <1>2, <1>3 DEF Informs, Informed, Gauge, Counts
  <2>3. RequestsIn(<<>>) = {}
    BY DEF RequestsIn
  <2>4. Cardinality(RequestsIn(<<>>)) = 0
    BY <2>3, FS_EmptySet
  <2>5. ReadsOf(registry, "requests") \in Nat
    BY DEF ObsInv, Collected, Registries, ReadsOf
  <2>6. ReadsOf(registry, "requests") = tally.requests
    BY <2>2, <2>4, <2>5 DEF CountTold
  <2>7. /\ ReadsOf(registry, "payload") = loop.used
        /\ ReadsOf(registry, "connections") = loop.connections
    BY <2>2 DEF GaugeTold
  <2> QED BY <2>1, <2>6, <2>7
<1>4. ASSUME out.drops = 0, NEW feed, feed = recent.access \o out.channel["access"],
             NEW i \in DOMAIN feed
      PROVE  feed[i] = tally.requests - Len(feed) + i
  <2> DEFINE a == recent.access
             b == out.channel["access"]
             n == tally.requests
  <2>1. a \in Seq(Nat) /\ b \in Seq(Nat)
    BY <1>1 DEF ObsInv, Collected, IsOut, Channels, EventsOf
  <2>2. FeedTold(a, b, n)
    BY <1>1, <1>4 DEF Informs, Informed, Feeds
  <2>3. Len(a) \in Nat /\ Len(b) \in Nat /\ DOMAIN a = 1 .. Len(a) /\ DOMAIN b = 1 .. Len(b)
    BY <2>1, LenProperties
  <2>4. feed = a \o b
    BY <1>4
  <2> HIDE DEF a, b, n
  <2>5. /\ Len(feed) = Len(a) + Len(b) /\ feed \in Seq(Nat)
        /\ \A j \in 1 .. Len(a) + Len(b) : feed[j] = IF j <= Len(a) THEN a[j] ELSE b[j - Len(a)]
    BY <2>1, <2>4, ConcatProperties
  <2> DEFINE k == Len(a)
             l == Len(b)
             m == Len(feed)
  <2>6. /\ k \in Nat /\ l \in Nat /\ n \in Nat /\ m = k + l /\ DOMAIN a = 1 .. k
        /\ DOMAIN b = 1 .. l
    BY <1>1, <2>3, <2>5 DEF n
  <2>7. i \in 1 .. k + l
    BY <1>4, <2>5, <2>6, LenProperties
  <2>8. feed[i] = IF i <= k THEN a[i] ELSE b[i - k]
    BY <2>5, <2>7
  <2>9. /\ \A j \in 1 .. k : a[j] = n - k - l + j
        /\ \A j \in 1 .. l : b[j] = n - l + j
    BY <2>2, <2>3 DEF FeedTold
  <2> HIDE DEF k, l, m
  <2>10. feed[i] = n - m + i
    <3>1. CASE i <= k
      BY <2>6, <2>7, <2>8, <2>9, <3>1
    <3>2. CASE ~(i <= k)
      <4>1. i - k \in 1 .. l
        BY <2>6, <2>7, <3>2
      <4>2. b[i - k] = n - l + (i - k)
        BY <2>9, <4>1
      <4> QED BY <2>6, <2>7, <2>8, <3>2, <4>2
    <3> QED BY <3>1, <3>2
  <2> QED BY <2>10 DEF n, m
<1>5. QuietIsCurrent
  BY <1>2, <1>3, <1>4 DEF QuietIsCurrent
<1>6. PressureLogTellsState
  <2> SUFFICES ASSUME out.drops = 0, out.channel["product"] = <<>>
               PROVE  Tells(printed.pressure, loop.pressure)
    BY DEF PressureLogTellsState, Tells
  <2>1. LogTold(<<>>, printed.pressure, loop.pressure)
    BY <1>1, <1>2 DEF Informs, Informed, Logs
  <2> QED BY <2>1 DEF LogTold
<1> QED BY <1>5, <1>6

(* As long as nothing was dropped, an operator who reads the gauges, the   *)
(* feeds, the status and the log once the channels are empty reads what    *)
(* the loop does; and a repeated TLS failure is logged once per period, or *)
(* a sampler's worth of other failures came between.                       *)
THEOREM OperatorToldTruth == Spec => []OperatorIsToldTruth
<1>1. ObsInv => OperatorIsToldTruth
  <2> SUFFICES ASSUME ObsInv PROVE OperatorIsToldTruth
    OBVIOUS
  <2>1. QuietIsCurrent /\ PressureLogTellsState
    BY ToldNow
  <2>2. SampledOncePerWindow
    BY DEF ObsInv, SamplerSound, Window, SampledOncePerWindow
  <2> QED BY <2>1, <2>2 DEF OperatorIsToldTruth
<1> QED BY <1>1, ObservabilityInvariant, PTL
=============================================================================

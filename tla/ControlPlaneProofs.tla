-------------------------- MODULE ControlPlaneProofs --------------------------
(***************************************************************************)
(* Theorems about the control plane and its audit ledger, for any bounds   *)
(* of the ledger, any operations and contents, any number of requests,     *)
(* faults and crashes.                                                     *)
(*                                                                         *)
(* The invariant describes the files (Files), what the ledger in memory    *)
(* and the append in progress know of them (Ready), and where the process  *)
(* is (PlaneInv).  What a record type holds does not matter: frames are    *)
(* described by their numbers and by what a checkpoint says was pruned.    *)
(***************************************************************************)
EXTENDS ControlPlane, WellFoundedInduction, NaturalsInduction, SequenceTheorems,
        FiniteSetTheorems, TLAPS

-----------------------------------------------------------------------------
(* The files: segments lo..hi, of which only the newest may be empty.      *)

IsSeq(s) == Len(s) \in Nat /\ s = [i \in 1..Len(s) |-> s[i]]

IsFrame(f) == f.seq \in Nat /\ f.seq > 0 /\ f.meta.last \in Nat /\ f.meta.last < f.seq

Filed(d, lo, hi) ==
    /\ lo \in Nat /\ hi \in Nat /\ 0 < lo /\ lo <= hi
    /\ d = [n \in lo..hi |-> d[n]]
    /\ \A n \in lo..hi : IsSeq(d[n]) /\ \A i \in 1..Len(d[n]) : IsFrame(d[n][i])
    /\ \A n \in lo..hi : n < hi => Len(d[n]) > 0

(* Sequence numbers grow along the files.                                  *)
Ordered(d) ==
    \A n, m \in DOMAIN d : \A i \in 1..Len(d[n]), j \in 1..Len(d[m]) :
        n < m \/ (n = m /\ i < j) => d[n][i].seq < d[m][j].seq

(* What a crash cannot take: all but the newest u frames of the newest     *)
(* file.                                                                   *)
Synced(d, hi, u, n, i) == n < hi \/ i <= Len(d[n]) - u

OnDisk(d, s) == \E n \in DOMAIN d : \E i \in 1..Len(d[n]) : d[n][i].seq = s

Durable(d, hi, u, s) ==
    \E n \in DOMAIN d : \E i \in 1..Len(d[n]) : Synced(d, hi, u, n, i) /\ d[n][i].seq = s

Gone(d, hi, u, s) ==
    \E n \in DOMAIN d : \E i \in 1..Len(d[n]) :
        Synced(d, hi, u, n, i) /\ s <= d[n][i].meta.last

(* Below a frame on disk nothing is missing that was not pruned, and no    *)
(* acknowledged record hangs on a frame that a crash may take.             *)
Chain(d, hi, u) ==
    \A n \in DOMAIN d : \A i \in 1..Len(d[n]) : \A s \in 1..d[n][i].seq :
        OnDisk(d, s) \/ Gone(d, hi, u, s)
Safe(d, hi, u, a) == \A s \in 1..a : Durable(d, hi, u, s) \/ Gone(d, hi, u, s)

Files(d, lo, hi, u, a) ==
    /\ Filed(d, lo, hi) /\ Ordered(d)
    /\ u \in Nat /\ a \in Nat
    /\ Chain(d, hi, u) /\ Safe(d, hi, u, a)

-----------------------------------------------------------------------------
(* The ledger in memory.                                                   *)

IsSegment(x) == x.num \in Nat /\ x.n \in Nat /\ x.first \in Nat /\ x.last \in Nat

IsLedger(l) ==
    /\ l = [io |-> l.io, gen |-> l.gen, seq |-> l.seq, segs |-> l.segs, recs |-> l.recs]
    /\ l.seq \in Nat
    /\ IsSeq(l.segs) /\ Len(l.segs) > 0
    /\ \A i \in 1..Len(l.segs) :
          /\ l.segs[i] = [num |-> l.segs[i].num, n |-> l.segs[i].n,
                          first |-> l.segs[i].first, last |-> l.segs[i].last]
          /\ IsSegment(l.segs[i]) /\ l.segs[i].last <= l.seq

IsJob(j) == j = [ph |-> j.ph, rec |-> j.rec, cp |-> j.cp, left |-> j.left]

(* Its segments are the newest files, and the last one it knows of each    *)
(* but the newest bounds the frames up to there.                           *)
Lined(l, hi) == \A i \in 1..Len(l.segs) : l.segs[i].num = hi - Len(l.segs) + i
Behind(d, l) ==
    \A i \in 1..Len(l.segs) - 1 : \A n \in DOMAIN d : n <= l.segs[i].num =>
        \A k \in 1..Len(d[n]) : d[n][k].seq <= l.segs[i].last

(* Between two writes its head is the newest frame.                        *)
Level(d, hi, l) ==
    /\ l.seq = 0 \/ OnDisk(d, l.seq)
    /\ \A n \in DOMAIN d : \A i \in 1..Len(d[n]) : d[n][i].seq <= l.seq
    /\ Last(l.segs).n # 0 => Len(d[hi]) > 0 /\ Last(l.segs).last = l.seq

(* After a write the newest frame is the one it is about to publish.       *)
Ends(d, hi, f) == Len(d[hi]) > 0 /\ d[hi][Len(d[hi])] = f
FrameOf(l, j) ==
    IF j.cp # NoMeta THEN Frame(l.seq + 1, RetentionRecord, j.cp)
                     ELSE Frame(l.seq + 1, j.rec, NoMeta)

(* The files to be removed are the oldest ones, and the checkpoint says    *)
(* so, first in memory, then on disk.                                      *)
Covers(d, lo, x, j) ==
    /\ j.left = lo..x
    /\ j.cp.last \in Nat
    /\ \A n \in DOMAIN d : n <= x => \A k \in 1..Len(d[n]) : d[n][k].seq <= j.cp.last
Retaining(d, lo, hi, l, j) ==
    /\ j.cp.last <= l.seq
    /\ \E x \in Nat : lo <= x /\ x < hi /\ Covers(d, lo, x, j)
Removing(d, lo, hi, u, l, j) ==
    /\ u = 0
    /\ lo <= hi - Len(l.segs) + 1 /\ Covers(d, lo, hi - Len(l.segs), j)
    /\ \E k \in 1..Len(d[hi]) : d[hi][k].meta = j.cp

Working == {"rotate", "write", "sync", "delete", "done"}

Ready(d, lo, hi, u, l, j) ==
    /\ IsLedger(l) /\ Lined(l, hi) /\ Behind(d, l)
    /\ j.ph # "delete" => Len(l.segs) = hi - lo + 1
    /\ j.ph # "sync" => Level(d, hi, l)
    /\ j.ph = "rotate" => Last(l.segs).n # 0 /\ j.cp = NoMeta
    /\ j.ph = "sync" => Ends(d, hi, FrameOf(l, j)) /\ u > 0
    /\ j.ph \in {"write", "sync"} /\ j.cp # NoMeta => Retaining(d, lo, hi, l, j)
    /\ j.ph = "delete" => Removing(d, lo, hi, u, l, j)
    /\ j.ph = "done" => u = 0 /\ Ends(d, hi, Frame(l.seq, j.rec, NoMeta))

Ledger(d, lo, hi, u, a, l, j) ==
    /\ Files(d, lo, hi, u, a)
    /\ IsJob(j)
    /\ l.io \in {"Closed", "Ready", "Degraded"}
    /\ j.ph \in Working => l.io = "Ready"
    /\ l.io = "Ready" => Ready(d, lo, hi, u, l, j)
    /\ l.io # "Closed" => IsLedger(l)

LedgerInv == \E lo, hi \in Nat : Ledger(disk, lo, hi, unsynced, acked, led, job)

-----------------------------------------------------------------------------
(* The process and its requests.                                           *)

IntentOf(r) == Record("Intent", r.op, "", <<>>)

PlaneInv ==
    /\ req = [ph |-> req.ph, op |-> req.op, what |-> req.what, id |-> req.id, to |-> req.to,
              head |-> req.head, restart |-> req.restart, out |-> req.out]
    /\ pc = "down" => led.io = "Closed"
    /\ pc # "down" => led.io # "Closed"
    /\ pc # "serving" => req.ph = "idle"
    /\ pc \in {"verifying", "resolving", "seeding"} => job.ph = "idle"
    /\ req.ph = "intent" => job.rec = IntentOf(req)
    /\ req.ph \in {"effect", "saved", "commit"} =>
          /\ job.ph = "idle" /\ unsynced = 0
          /\ \E hi \in DOMAIN disk :
                /\ \A n \in DOMAIN disk : n <= hi
                /\ Ends(disk, hi, Frame(req.head, IntentOf(req), NoMeta))

ControlInv == LedgerInv /\ PlaneInv

-----------------------------------------------------------------------------
(* Sequences without a type, least numbers, and the ends of an interval.   *)

(* A sequence over some set is described by its length and its elements.   *)
LEMMA SeqIsSeq ==
    ASSUME NEW S, NEW s \in Seq(S)
    PROVE  IsSeq(s)
  BY DEF IsSeq

(* And a described one is a sequence over its elements.                    *)
LEMMA IsSeqOver ==
    ASSUME NEW s, IsSeq(s), NEW S, \A i \in 1..Len(s) : s[i] \in S
    PROVE  s \in Seq(S)
<1>1. PICK n \in Nat : n = Len(s)
  BY DEF IsSeq
<1>2. s = [i \in 1..n |-> s[i]]
  BY <1>1 DEF IsSeq
<1>3. s \in [1..n -> S]
  BY <1>1, <1>2
<1> QED
  BY <1>3

(* Append                                                                  *)
LEMMA Appended ==
    ASSUME NEW s, IsSeq(s), NEW e
    PROVE  /\ IsSeq(Append(s, e))
           /\ Len(Append(s, e)) = Len(s) + 1
           /\ \A i \in 1..Len(s) : Append(s, e)[i] = s[i]
           /\ Append(s, e)[Len(s) + 1] = e
<1> DEFINE S == {s[i] : i \in 1..Len(s)} \cup {e}
<1>1. s \in Seq(S)
  BY IsSeqOver
<1>2. e \in S
  OBVIOUS
<1> HIDE DEF S
<1>3. Append(s, e) \in Seq(S)
  BY <1>1, <1>2, AppendProperties
<1>4. IsSeq(Append(s, e))
  BY <1>3, SeqIsSeq
<1> QED
  BY <1>1, <1>2, <1>4, AppendProperties

(* SubSeq                                                                  *)
LEMMA Cut ==
    ASSUME NEW s, IsSeq(s), NEW m \in Nat, NEW n \in Int, 0 < m, n <= Len(s)
    PROVE  /\ IsSeq(SubSeq(s, m, n))
           /\ Len(SubSeq(s, m, n)) = IF m <= n THEN n - m + 1 ELSE 0
           /\ \A i \in 1..Len(SubSeq(s, m, n)) : SubSeq(s, m, n)[i] = s[m + i - 1]
<1> DEFINE S == {s[i] : i \in 1..Len(s)}
<1>0. Len(s) \in Nat
  BY DEF IsSeq
<1>1. \A i \in m..n : s[i] \in S
  BY <1>0
<1> HIDE DEF S
<1>2. /\ SubSeq(s, m, n) \in Seq(S)
      /\ Len(SubSeq(s, m, n)) = IF m <= n THEN n - m + 1 ELSE 0
      /\ \A i \in 1..n - m + 1 : SubSeq(s, m, n)[i] = s[m + i - 1]
  BY <1>1, SubSeqProperties
<1>3. IsSeq(SubSeq(s, m, n))
  BY <1>2, SeqIsSeq
<1> QED
  BY <1>2, <1>3

(* A set of natural numbers has a least element.                           *)
Below == {p \in Nat \X Nat : p[1] < p[2]}
(* There is no infinite descent in the natural numbers.                    *)
LEMMA BelowWellFounded == IsWellFoundedOn(Below, Nat)
  BY NatLessThanWellFounded DEF OpToRel, Below

(* So Min of a set of natural numbers that is not empty is its least       *)
(* element.                                                                *)
LEMMA MinIsLeast ==
    ASSUME NEW T, T \subseteq Nat, T # {}
    PROVE  Min(T) \in T /\ \A y \in T : Min(T) <= y
<1>1. PICK x \in T : \A y \in T : ~(<<y, x>> \in Below)
  BY BelowWellFounded, WFMin
<1>2. \A y \in T : ~(y < x)
  BY <1>1 DEF Below
<1>3. \A y \in T : x <= y
  BY <1>2
<1> QED
  BY <1>3 DEF Min

(* The ends of the files.                                                  *)
LEMMA IntervalEnds ==
    ASSUME NEW lo \in Nat, NEW hi \in Nat, lo <= hi
    PROVE  Min(lo..hi) = lo /\ Max(lo..hi) = hi
  BY DEF Min, Max

-----------------------------------------------------------------------------
(* What the steps do to the files.                                         *)

(* Every frame of d is in e, and what a crash cannot take from d it cannot *)
(* take from e.                                                            *)
Within(d, hi, u, e, top, v) ==
    \A n \in DOMAIN d : \A i \in 1..Len(d[n]) :
        /\ n \in DOMAIN e /\ i \in 1..Len(e[n]) /\ e[n][i] = d[n][i]
        /\ Synced(d, hi, u, n, i) => Synced(e, top, v, n, i)

(* Then what is there stays there.                                         *)
LEMMA WithinKeeps ==
    ASSUME NEW d, NEW hi, NEW u, NEW e, NEW top, NEW v, Within(d, hi, u, e, top, v), NEW s
    PROVE  /\ OnDisk(d, s) => OnDisk(e, s)
           /\ Durable(d, hi, u, s) => Durable(e, top, v, s)
           /\ Gone(d, hi, u, s) => Gone(e, top, v, s)
<1>1. ASSUME OnDisk(d, s) PROVE OnDisk(e, s)
  <2>1. PICK n \in DOMAIN d : \E i \in 1..Len(d[n]) : d[n][i].seq = s
    BY <1>1 DEF OnDisk
  <2>2. PICK i \in 1..Len(d[n]) : d[n][i].seq = s
    BY <2>1
  <2>3. n \in DOMAIN e /\ i \in 1..Len(e[n]) /\ e[n][i] = d[n][i]
    BY DEF Within
  <2> QED
    BY <2>2, <2>3 DEF OnDisk
<1>2. ASSUME Durable(d, hi, u, s) PROVE Durable(e, top, v, s)
  <2>1. PICK n \in DOMAIN d :
            \E i \in 1..Len(d[n]) : Synced(d, hi, u, n, i) /\ d[n][i].seq = s
    BY <1>2 DEF Durable
  <2>2. PICK i \in 1..Len(d[n]) : Synced(d, hi, u, n, i) /\ d[n][i].seq = s
    BY <2>1
  <2>3. n \in DOMAIN e /\ i \in 1..Len(e[n]) /\ e[n][i] = d[n][i] /\ Synced(e, top, v, n, i)
    BY <2>2 DEF Within
  <2> QED
    BY <2>2, <2>3 DEF Durable
<1>3. ASSUME Gone(d, hi, u, s) PROVE Gone(e, top, v, s)
  <2>1. PICK n \in DOMAIN d :
            \E i \in 1..Len(d[n]) : Synced(d, hi, u, n, i) /\ s <= d[n][i].meta.last
    BY <1>3 DEF Gone
  <2>2. PICK i \in 1..Len(d[n]) : Synced(d, hi, u, n, i) /\ s <= d[n][i].meta.last
    BY <2>1
  <2>3. n \in DOMAIN e /\ i \in 1..Len(e[n]) /\ e[n][i] = d[n][i] /\ Synced(e, top, v, n, i)
    BY <2>2 DEF Within
  <2> QED
    BY <2>2, <2>3 DEF Gone
<1> QED
  BY <1>1, <1>2, <1>3

(* A frame written to the newest file, beyond all that is there.           *)
Wrote(d, hi, f) == [d EXCEPT ![hi] = Append(@, f)]
Adds(d, hi, f, e) ==
    /\ DOMAIN e = DOMAIN d
    /\ \A n \in DOMAIN d : n # hi => e[n] = d[n]
    /\ IsSeq(e[hi]) /\ Len(e[hi]) = Len(d[hi]) + 1
    /\ \A i \in 1..Len(d[hi]) : e[hi][i] = d[hi][i]
    /\ e[hi][Len(d[hi]) + 1] = f

(* Writing a frame changes the newest file only.                           *)
LEMMA WriteAdds ==
    ASSUME NEW d, NEW lo, NEW hi, Filed(d, lo, hi), NEW f,
           NEW e, e = Wrote(d, hi, f)
    PROVE  Adds(d, hi, f, e) /\ e = [n \in lo..hi |-> e[n]]
<1>1. DOMAIN d = lo..hi /\ hi \in DOMAIN d /\ IsSeq(d[hi])
  BY DEF Filed
<1>2. e[hi] = Append(d[hi], f) /\ DOMAIN e = DOMAIN d
  BY <1>1 DEF Wrote
<1>3. \A n \in DOMAIN d : n # hi => e[n] = d[n]
  BY <1>1 DEF Wrote
<1>4. e = [n \in lo..hi |-> e[n]]
  BY <1>1, Zenon DEF Wrote
<1>5. /\ IsSeq(e[hi]) /\ Len(e[hi]) = Len(d[hi]) + 1
      /\ \A i \in 1..Len(d[hi]) : e[hi][i] = d[hi][i]
      /\ e[hi][Len(d[hi]) + 1] = f
  BY <1>1, <1>2, Appended
<1> QED
  BY <1>2, <1>3, <1>4, <1>5 DEF Adds

(* The files stay in order when the next frame of the chain is written: it *)
(* is not synced, so no acknowledged record may depend on it.              *)
LEMMA WriteKeepsFiles ==
    ASSUME NEW d, NEW lo, NEW hi, NEW u, NEW a, Files(d, lo, hi, u, a),
           NEW f, IsFrame(f),
           \A n \in DOMAIN d : \A i \in 1..Len(d[n]) : d[n][i].seq < f.seq,
           \A s \in 1..f.seq - 1 : OnDisk(d, s) \/ Gone(d, hi, u, s),
           NEW e, e = Wrote(d, hi, f)
    PROVE  Files(e, lo, hi, u + 1, a) /\ Ends(e, hi, f) /\ Within(d, hi, u, e, hi, u + 1)
<1>1. /\ Filed(d, lo, hi) /\ Ordered(d) /\ u \in Nat /\ a \in Nat
      /\ Chain(d, hi, u) /\ Safe(d, hi, u, a)
  BY DEF Files
<1>2. Adds(d, hi, f, e) /\ e = [n \in lo..hi |-> e[n]]
  BY <1>1, WriteAdds
<1>3. lo \in Nat /\ hi \in Nat /\ lo <= hi /\ 0 < lo /\ DOMAIN d = lo..hi /\ DOMAIN e = lo..hi
  BY <1>1, <1>2 DEF Filed, Adds
<1>4. \A n \in lo..hi : Len(d[n]) \in Nat /\ Len(e[n]) \in Nat /\ IsSeq(d[n]) /\ IsSeq(e[n])
  BY <1>1, <1>2, <1>3 DEF Filed, Adds, IsSeq
<1>5. \A n \in lo..hi : \A i \in 1..Len(e[n]) :
          \/ i \in 1..Len(d[n]) /\ e[n][i] = d[n][i]
          \/ n = hi /\ i = Len(d[hi]) + 1 /\ e[n][i] = f
  <2>1. TAKE n \in lo..hi
  <2>2. TAKE i \in 1..Len(e[n])
  <2>3. CASE n # hi
    BY <2>3, <1>2, <1>3, <1>4 DEF Adds
  <2>4. CASE n = hi
    BY <2>4, <1>2, <1>3, <1>4 DEF Adds
  <2> QED
    BY <2>3, <2>4
<1>6. Within(d, hi, u, e, hi, u + 1)
  <2>1. SUFFICES ASSUME NEW n \in DOMAIN d, NEW i \in 1..Len(d[n])
                 PROVE  /\ n \in DOMAIN e /\ i \in 1..Len(e[n]) /\ e[n][i] = d[n][i]
                        /\ Synced(d, hi, u, n, i) => Synced(e, hi, u + 1, n, i)
    BY DEF Within
  <2>2. CASE n = hi
    BY <2>2, <1>1, <1>2, <1>3, <1>4 DEF Adds, Synced
  <2>3. CASE n # hi
    BY <2>3, <1>1, <1>2, <1>3, <1>4 DEF Adds, Synced
  <2> QED
    BY <2>2, <2>3
<1>7. Filed(e, lo, hi)
  <2>1. \A n \in lo..hi : \A i \in 1..Len(e[n]) : IsFrame(e[n][i])
    BY <1>5, <1>1, <1>3 DEF Filed
  <2>2. \A n \in lo..hi : n < hi => Len(e[n]) > 0
    BY <1>1, <1>2, <1>3 DEF Filed, Adds
  <2> QED
    BY <2>1, <2>2, <1>2, <1>3, <1>4 DEF Filed
<1>8. Ordered(e)
  <2>1. SUFFICES ASSUME NEW n \in lo..hi, NEW m \in lo..hi,
                        NEW i \in 1..Len(e[n]), NEW j \in 1..Len(e[m]),
                        n < m \/ (n = m /\ i < j)
                 PROVE  e[n][i].seq < e[m][j].seq
    BY <1>3 DEF Ordered
  <2>2. i \in 1..Len(d[n]) /\ e[n][i] = d[n][i]
    BY <2>1, <1>3, <1>4, <1>5
  <2>3. CASE j \in 1..Len(d[m]) /\ e[m][j] = d[m][j]
    BY <2>1, <2>2, <2>3, <1>1, <1>3 DEF Ordered
  <2>4. CASE e[m][j] = f
    BY <2>2, <2>4, <1>3
  <2> QED
    BY <2>3, <2>4, <1>5
<1>9. Chain(e, hi, u + 1)
  <2>1. SUFFICES ASSUME NEW n \in lo..hi, NEW i \in 1..Len(e[n]), NEW s \in 1..e[n][i].seq
                 PROVE  OnDisk(e, s) \/ Gone(e, hi, u + 1, s)
    BY <1>3 DEF Chain
  <2>2. CASE i \in 1..Len(d[n]) /\ e[n][i] = d[n][i]
    <3>1. OnDisk(d, s) \/ Gone(d, hi, u, s)
      BY <2>2, <1>1, <1>3 DEF Chain
    <3> QED
      BY <3>1, <1>6, WithinKeeps
  <2>3. CASE e[n][i] = f
    <3>1. CASE s = f.seq
      BY <2>3, <3>1, <1>3 DEF OnDisk
    <3>2. CASE s # f.seq
      <4>1. s \in 1..f.seq - 1
        BY <2>3, <3>2 DEF IsFrame
      <4>2. OnDisk(d, s) \/ Gone(d, hi, u, s)
        BY <4>1
      <4> QED
        BY <4>2, <1>6, WithinKeeps
    <3> QED
      BY <3>1, <3>2
  <2> QED
    BY <2>2, <2>3, <1>5
<1>10. Safe(e, hi, u + 1, a)
  <2>1. SUFFICES ASSUME NEW s \in 1..a PROVE Durable(e, hi, u + 1, s) \/ Gone(e, hi, u + 1, s)
    BY DEF Safe
  <2>2. Durable(d, hi, u, s) \/ Gone(d, hi, u, s)
    BY <1>1 DEF Safe
  <2> QED
    BY <2>2, <1>6, WithinKeeps
<1>11. Ends(e, hi, f)
  BY <1>2, <1>3, <1>4 DEF Ends, Adds
<1> QED
  BY <1>1, <1>6, <1>7, <1>8, <1>9, <1>10, <1>11 DEF Files

(* A new empty file after a newest one that is not empty.                  *)
LEMMA RotateKeepsFiles ==
    ASSUME NEW d, NEW lo, NEW hi, NEW u, NEW a, Files(d, lo, hi, u, a), Len(d[hi]) > 0,
           NEW v \in Nat, NEW e, e = WithFile(d, hi + 1)
    PROVE  /\ Files(e, lo, hi + 1, v, a)
           /\ DOMAIN e = lo..hi + 1 /\ \A n \in lo..hi : e[n] = d[n]
           /\ Len(e[hi + 1]) = 0
<1>1. /\ Filed(d, lo, hi) /\ Ordered(d) /\ u \in Nat /\ a \in Nat
      /\ Chain(d, hi, u) /\ Safe(d, hi, u, a)
  BY DEF Files
<1>2. lo \in Nat /\ hi \in Nat /\ lo <= hi /\ 0 < lo /\ DOMAIN d = lo..hi
  BY <1>1 DEF Filed
<1>3. DOMAIN d \cup {hi + 1} = lo..hi + 1
  BY <1>2
<1>4. e = [n \in lo..hi + 1 |-> IF n \in lo..hi THEN d[n] ELSE <<>>]
  BY <1>2, <1>3 DEF WithFile
<1>5. /\ DOMAIN e = lo..hi + 1 /\ \A n \in lo..hi : e[n] = d[n]
      /\ e[hi + 1] = <<>> /\ e = [n \in lo..hi + 1 |-> e[n]]
  BY <1>2, <1>4
<1>6. Len(e[hi + 1]) = 0 /\ IsSeq(e[hi + 1])
  BY <1>5 DEF IsSeq
<1>7. \A n \in lo..hi + 1 : \A i \in 1..Len(e[n]) : n \in lo..hi /\ e[n] = d[n]
  BY <1>2, <1>5, <1>6
<1>8. Within(d, hi, u, e, hi + 1, v)
  BY <1>2, <1>5 DEF Within, Synced
<1>9. Filed(e, lo, hi + 1)
  <2>1. \A n \in lo..hi + 1 : IsSeq(e[n]) /\ \A i \in 1..Len(e[n]) : IsFrame(e[n][i])
    BY <1>1, <1>2, <1>5, <1>6, <1>7 DEF Filed
  <2>2. \A n \in lo..hi + 1 : n < hi + 1 => Len(e[n]) > 0
    BY <1>1, <1>2, <1>5 DEF Filed
  <2> QED
    BY <2>1, <2>2, <1>2, <1>5 DEF Filed
<1>10. Ordered(e)
  <2>1. ASSUME NEW n \in DOMAIN e, NEW m \in DOMAIN e,
               NEW i \in 1..Len(e[n]), NEW j \in 1..Len(e[m]),
               n < m \/ (n = m /\ i < j)
        PROVE  e[n][i].seq < e[m][j].seq
    <3>1. n \in DOMAIN d /\ m \in DOMAIN d /\ e[n] = d[n] /\ e[m] = d[m]
      BY <1>2, <1>5, <1>7
    <3> QED
      BY <2>1, <3>1, <1>1 DEF Ordered
  <2> QED
    BY <2>1 DEF Ordered
<1>11. Chain(e, hi + 1, v)
  <2>1. SUFFICES ASSUME NEW n \in lo..hi + 1, NEW i \in 1..Len(e[n]), NEW s \in 1..e[n][i].seq
                 PROVE  OnDisk(e, s) \/ Gone(e, hi + 1, v, s)
    BY <1>5 DEF Chain
  <2>2. n \in lo..hi /\ e[n] = d[n]
    BY <1>7
  <2>3. OnDisk(d, s) \/ Gone(d, hi, u, s)
    BY <2>2, <1>1, <1>2 DEF Chain
  <2> QED
    BY <2>3, <1>8, WithinKeeps
<1>12. Safe(e, hi + 1, v, a)
  <2>1. SUFFICES ASSUME NEW s \in 1..a PROVE Durable(e, hi + 1, v, s) \/ Gone(e, hi + 1, v, s)
    BY DEF Safe
  <2>2. Durable(d, hi, u, s) \/ Gone(d, hi, u, s)
    BY <1>1 DEF Safe
  <2> QED
    BY <2>2, <1>8, WithinKeeps
<1> QED
  BY <1>1, <1>5, <1>6, <1>9, <1>10, <1>11, <1>12 DEF Files

(* Once the newest frame is synced, all that is on disk is durable, and so *)
(* is what an answer then acknowledges.                                    *)
LEMMA SyncKeepsFiles ==
    ASSUME NEW d, NEW lo, NEW hi, NEW u, NEW a, Files(d, lo, hi, u, a),
           NEW b \in Nat, b = a \/ OnDisk(d, b)
    PROVE  Files(d, lo, hi, 0, b)
<1>1. /\ Filed(d, lo, hi) /\ Ordered(d) /\ u \in Nat /\ a \in Nat
      /\ Chain(d, hi, u) /\ Safe(d, hi, u, a)
  BY DEF Files
<1>2. lo \in Nat /\ hi \in Nat /\ DOMAIN d = lo..hi /\ \A n \in lo..hi : Len(d[n]) \in Nat
  BY <1>1 DEF Filed, IsSeq
<1>3. \A n \in DOMAIN d : \A i \in 1..Len(d[n]) : Synced(d, hi, 0, n, i)
  BY <1>2 DEF Synced
<1>4. Within(d, hi, u, d, hi, 0)
  BY <1>3 DEF Within
<1>5. \A s : OnDisk(d, s) => Durable(d, hi, 0, s)
  BY <1>3 DEF OnDisk, Durable
<1>6. Chain(d, hi, 0)
  <2>1. SUFFICES ASSUME NEW n \in DOMAIN d, NEW i \in 1..Len(d[n]), NEW s \in 1..d[n][i].seq
                 PROVE  OnDisk(d, s) \/ Gone(d, hi, 0, s)
    BY DEF Chain
  <2>2. OnDisk(d, s) \/ Gone(d, hi, u, s)
    BY <1>1 DEF Chain
  <2> QED
    BY <2>2, <1>4, WithinKeeps
<1>7. Safe(d, hi, 0, b)
  <2>1. SUFFICES ASSUME NEW s \in 1..b PROVE Durable(d, hi, 0, s) \/ Gone(d, hi, 0, s)
    BY DEF Safe
  <2>2. CASE b = a
    <3>1. Durable(d, hi, u, s) \/ Gone(d, hi, u, s)
      BY <2>2, <1>1 DEF Safe
    <3> QED
      BY <3>1, <1>4, WithinKeeps
  <2>3. CASE OnDisk(d, b)
    <3>1. OnDisk(d, s) \/ Gone(d, hi, 0, s)
      BY <2>3, <1>6 DEF OnDisk, Chain
    <3> QED
      BY <3>1, <1>5
  <2> QED
    BY <2>2, <2>3
<1> QED
  BY <1>1, <1>6, <1>7 DEF Files

(* A crash takes frames that were not synced.                              *)
Cropped(d, hi, k) == [d EXCEPT ![hi] = SubSeq(@, 1, Len(@) - k)]

(* What is left of the files is in order, and no acknowledged record is    *)
(* among what was lost.                                                    *)
LEMMA CrashKeepsFiles ==
    ASSUME NEW d, NEW lo, NEW hi, NEW u, NEW a, Files(d, lo, hi, u, a),
           NEW k \in 0..u, NEW e, e = Cropped(d, hi, k)
    PROVE  Files(e, lo, hi, 0, a)
<1>1. /\ Filed(d, lo, hi) /\ Ordered(d) /\ u \in Nat /\ a \in Nat
      /\ Chain(d, hi, u) /\ Safe(d, hi, u, a)
  BY DEF Files
<1>2. lo \in Nat /\ hi \in Nat /\ lo <= hi /\ 0 < lo /\ DOMAIN d = lo..hi
  BY <1>1 DEF Filed
<1>3. \A n \in lo..hi : Len(d[n]) \in Nat /\ IsSeq(d[n])
  BY <1>1 DEF Filed, IsSeq
<1>4. /\ DOMAIN e = lo..hi /\ \A n \in lo..hi : n # hi => e[n] = d[n]
      /\ e[hi] = SubSeq(d[hi], 1, Len(d[hi]) - k)
  BY <1>2 DEF Cropped
<1>5. e = [n \in lo..hi |-> e[n]]
  BY <1>2, Zenon DEF Cropped
<1>6. /\ IsSeq(e[hi]) /\ Len(e[hi]) = IF 1 <= Len(d[hi]) - k THEN Len(d[hi]) - k ELSE 0
      /\ \A i \in 1..Len(e[hi]) : e[hi][i] = d[hi][i]
  <2>1. PICK m : m = Len(d[hi]) - k
    OBVIOUS
  <2>2. hi \in lo..hi /\ Len(d[hi]) \in Nat /\ m \in Int /\ m <= Len(d[hi])
    BY <2>1, <1>2, <1>3
  <2>3. /\ IsSeq(SubSeq(d[hi], 1, m))
        /\ Len(SubSeq(d[hi], 1, m)) = IF 1 <= m THEN m - 1 + 1 ELSE 0
        /\ \A i \in 1..Len(SubSeq(d[hi], 1, m)) : SubSeq(d[hi], 1, m)[i] = d[hi][1 + i - 1]
    <3>1. IsSeq(d[hi])
      BY <2>2, <1>3
    <3>2. PICK one \in Nat : one = 1
      OBVIOUS
    <3>3. /\ IsSeq(SubSeq(d[hi], one, m))
          /\ Len(SubSeq(d[hi], one, m)) = IF one <= m THEN m - one + 1 ELSE 0
          /\ \A i \in 1..Len(SubSeq(d[hi], one, m)) :
                SubSeq(d[hi], one, m)[i] = d[hi][one + i - 1]
      BY <2>2, <3>1, <3>2, Cut
    <3> QED
      BY <3>2, <3>3
  <2>4. e[hi] = SubSeq(d[hi], 1, m)
    BY <2>1, <1>4
  <2>5. Len(e[hi]) \in Nat
    BY <2>2, <2>3, <2>4
  <2> QED
    BY <2>1, <2>2, <2>3, <2>4, <2>5
<1>7. \A n \in lo..hi : Len(e[n]) \in Nat /\ IsSeq(e[n]) /\ Len(e[n]) <= Len(d[n])
  <2>1. TAKE n \in lo..hi
  <2>2. CASE n = hi
    BY <2>2, <1>3, <1>6
  <2>3. CASE n # hi
    BY <2>3, <1>3, <1>4
  <2> QED
    BY <2>2, <2>3
<1>8. \A n \in lo..hi : \A i \in 1..Len(e[n]) : i \in 1..Len(d[n]) /\ e[n][i] = d[n][i]
  <2>1. TAKE n \in lo..hi
  <2>2. TAKE i \in 1..Len(e[n])
  <2>3. CASE n = hi
    BY <2>3, <1>3, <1>6, <1>7
  <2>4. CASE n # hi
    BY <2>4, <1>4
  <2> QED
    BY <2>3, <2>4
<1>9. \A n \in lo..hi : \A i \in 1..Len(d[n]) :
          \/ i \in 1..Len(e[n])
          \/ n = hi /\ i > Len(d[hi]) - k /\ \A j \in 1..Len(e[hi]) : j < i
  <2>1. TAKE n \in lo..hi
  <2>2. TAKE i \in 1..Len(d[n])
  <2>3. CASE n = hi
    BY <2>3, <1>3, <1>6, <1>7
  <2>4. CASE n # hi
    BY <2>4, <1>4
  <2> QED
    BY <2>3, <2>4
<1>10. \A n \in lo..hi : \A i \in 1..Len(e[n]) : Synced(e, hi, 0, n, i)
  BY <1>2, <1>7 DEF Synced
<1>11. \A n \in lo..hi : \A i \in 1..Len(d[n]) : Synced(d, hi, u, n, i) =>
           i \in 1..Len(e[n]) /\ e[n][i] = d[n][i] /\ Synced(e, hi, 0, n, i)
  <2>1. SUFFICES ASSUME NEW n \in lo..hi, NEW i \in 1..Len(d[n]), Synced(d, hi, u, n, i)
                 PROVE  i \in 1..Len(e[n])
    BY <1>8, <1>10
  <2>2. ~(n = hi /\ i > Len(d[hi]) - k)
    BY <2>1, <1>1, <1>2, <1>3 DEF Synced
  <2> QED
    BY <2>2, <1>9
<1>12. \A s : Durable(d, hi, u, s) => Durable(e, hi, 0, s)
  <2>1. SUFFICES ASSUME NEW s, NEW n \in lo..hi, NEW i \in 1..Len(d[n]),
                        Synced(d, hi, u, n, i), d[n][i].seq = s
                 PROVE  Durable(e, hi, 0, s)
    BY <1>2 DEF Durable
  <2>2. i \in 1..Len(e[n]) /\ e[n][i] = d[n][i] /\ Synced(e, hi, 0, n, i)
    BY <2>1, <1>11
  <2> QED
    BY <2>1, <2>2, <1>4 DEF Durable
<1>13. \A s : Gone(d, hi, u, s) => Gone(e, hi, 0, s)
  <2>1. SUFFICES ASSUME NEW s, NEW n \in lo..hi, NEW i \in 1..Len(d[n]),
                        Synced(d, hi, u, n, i), s <= d[n][i].meta.last
                 PROVE  Gone(e, hi, 0, s)
    BY <1>2 DEF Gone
  <2>2. i \in 1..Len(e[n]) /\ e[n][i] = d[n][i] /\ Synced(e, hi, 0, n, i)
    BY <2>1, <1>11
  <2> QED
    BY <2>1, <2>2, <1>4 DEF Gone
<1>14. Filed(e, lo, hi)
  <2>1. \A n \in lo..hi : \A i \in 1..Len(e[n]) : IsFrame(e[n][i])
    BY <1>1, <1>8 DEF Filed
  <2>2. \A n \in lo..hi : n < hi => Len(e[n]) > 0
    BY <1>1, <1>2, <1>4 DEF Filed
  <2> QED
    BY <2>1, <2>2, <1>2, <1>5, <1>7 DEF Filed
<1>15. Ordered(e)
  <2>1. SUFFICES ASSUME NEW n \in lo..hi, NEW m \in lo..hi,
                        NEW i \in 1..Len(e[n]), NEW j \in 1..Len(e[m]),
                        n < m \/ (n = m /\ i < j)
                 PROVE  e[n][i].seq < e[m][j].seq
    <3>1. DOMAIN e = lo..hi
      BY <1>4
    <3> QED
      BY <3>1 DEF Ordered
  <2>2. /\ i \in 1..Len(d[n]) /\ e[n][i] = d[n][i]
        /\ j \in 1..Len(d[m]) /\ e[m][j] = d[m][j]
    BY <1>8
  <2> QED
    BY <2>1, <2>2, <1>1, <1>2 DEF Ordered
<1>16. Chain(e, hi, 0)
  <2>1. SUFFICES ASSUME NEW n \in lo..hi, NEW i \in 1..Len(e[n]), NEW s \in 1..e[n][i].seq
                 PROVE  OnDisk(e, s) \/ Gone(e, hi, 0, s)
    BY <1>4 DEF Chain
  <2>2. i \in 1..Len(d[n]) /\ e[n][i] = d[n][i]
    BY <1>8
  <2>3. OnDisk(d, s) \/ Gone(d, hi, u, s)
    BY <2>2, <1>1, <1>2 DEF Chain
  <2>4. ASSUME OnDisk(d, s) PROVE OnDisk(e, s)
    <3>1. PICK m \in lo..hi : \E j \in 1..Len(d[m]) : d[m][j].seq = s
      BY <2>4, <1>2 DEF OnDisk
    <3>2. PICK j \in 1..Len(d[m]) : d[m][j].seq = s
      BY <3>1
    <3>3. ~(n < m \/ (n = m /\ i < j))
      <4>1. SUFFICES ASSUME n < m \/ (n = m /\ i < j) PROVE FALSE
        OBVIOUS
      <4>2. d[n][i].seq < d[m][j].seq
        BY <4>1, <2>2, <1>1, <1>2 DEF Ordered
      <4>3. d[n][i].seq \in Nat
        BY <2>2, <1>1 DEF Filed, IsFrame
      <4> QED
        BY <4>2, <4>3, <3>2, <2>2, <2>1
    <3>4. j \in 1..Len(e[m])
      <4>1. SUFFICES ASSUME j \notin 1..Len(e[m]) PROVE FALSE
        OBVIOUS
      <4>2. m = hi /\ \A l \in 1..Len(e[hi]) : l < j
        BY <4>1, <1>9
      <4>3. n < m \/ (n = m /\ i < j)
        BY <4>2, <2>1, <1>2
      <4> QED
        BY <4>3, <3>3
    <3> QED
      BY <3>2, <3>4, <1>4, <1>8 DEF OnDisk
  <2> QED
    BY <2>3, <2>4, <1>13
<1>17. Safe(e, hi, 0, a)
  BY <1>1, <1>12, <1>13 DEF Safe
<1> QED
  BY <1>1, <1>14, <1>15, <1>16, <1>17 DEF Files

(* The oldest file goes once a checkpoint that covers it is durable.       *)
Without(d, n) == [m \in DOMAIN d \ {n} |-> d[m]]
Under(s, c) == \A i \in 1..Len(s) : s[i].seq <= c
Checked(d, hi, u, c) ==
    \E k \in 1..Len(d[hi]) : Synced(d, hi, u, hi, k) /\ d[hi][k].meta.last = c

(* The records of the removed file are then covered by the checkpoint, and *)
(* so is all that a checkpoint in that file covered.                       *)
LEMMA RemovalKeepsFiles ==
    ASSUME NEW d, NEW lo \in Nat, NEW hi \in Nat, NEW u, NEW a, Files(d, lo, hi, u, a), lo < hi,
           NEW c \in Nat, Under(d[lo], c), Checked(d, hi, u, c),
           NEW e, e = Without(d, lo)
    PROVE  /\ Files(e, lo + 1, hi, u, a)
           /\ DOMAIN e = lo + 1..hi /\ \A n \in lo + 1..hi : e[n] = d[n]
<1>0. \A i \in 1..Len(d[lo]) : d[lo][i].seq <= c
  BY DEF Under
<1>00. PICK k \in 1..Len(d[hi]) : Synced(d, hi, u, hi, k) /\ d[hi][k].meta.last = c
  BY DEF Checked
<1>1. /\ Filed(d, lo, hi) /\ Ordered(d) /\ u \in Nat /\ a \in Nat
      /\ Chain(d, hi, u) /\ Safe(d, hi, u, a)
  BY DEF Files
<1>2. lo \in Nat /\ hi \in Nat /\ 0 < lo /\ DOMAIN d = lo..hi
  BY <1>1 DEF Filed
<1>3. DOMAIN d \ {lo} = lo + 1..hi
  BY <1>2
<1>4. DOMAIN e = lo + 1..hi /\ \A n \in lo + 1..hi : e[n] = d[n]
  BY <1>3 DEF Without
<1>5. e = [n \in lo + 1..hi |-> e[n]]
  BY <1>3, Zenon DEF Without
<1>6. \A n \in lo + 1..hi : n \in lo..hi
  BY <1>2
<1>7. \A n \in lo..hi : \A i \in 1..Len(d[n]) : IsFrame(d[n][i])
  BY <1>1 DEF Filed
<1>8. \A n \in lo + 1..hi : \A i : Synced(e, hi, u, n, i) <=> Synced(d, hi, u, n, i)
  BY <1>4 DEF Synced
<1>9. \A s \in Nat : s <= c => Gone(e, hi, u, s)
  <2>1. hi \in lo + 1..hi
    BY <1>2
  <2> QED
    BY <2>1, <1>4, <1>8, <1>00 DEF Gone
<1>10. \A s \in Nat : OnDisk(d, s) => OnDisk(e, s) \/ Gone(e, hi, u, s)
  <2>1. SUFFICES ASSUME NEW s \in Nat, NEW n \in lo..hi, NEW i \in 1..Len(d[n]), d[n][i].seq = s
                 PROVE  OnDisk(e, s) \/ Gone(e, hi, u, s)
    BY <1>2 DEF OnDisk
  <2>2. CASE n = lo
    BY <2>1, <2>2, <1>0, <1>9
  <2>3. CASE n # lo
    <3>1. n \in lo + 1..hi
      BY <2>3, <1>2
    <3> QED
      BY <3>1, <2>1, <1>4 DEF OnDisk
  <2> QED
    BY <2>2, <2>3
<1>11. \A s \in Nat : Durable(d, hi, u, s) => Durable(e, hi, u, s) \/ Gone(e, hi, u, s)
  <2>1. SUFFICES ASSUME NEW s \in Nat, NEW n \in lo..hi, NEW i \in 1..Len(d[n]),
                        d[n][i].seq = s, Synced(d, hi, u, n, i)
                 PROVE  Durable(e, hi, u, s) \/ Gone(e, hi, u, s)
    BY <1>2 DEF Durable
  <2>2. CASE n = lo
    BY <2>1, <2>2, <1>0, <1>9
  <2>3. CASE n # lo
    <3>1. n \in lo + 1..hi
      BY <2>3, <1>2
    <3> QED
      BY <3>1, <2>1, <1>4, <1>8 DEF Durable
  <2> QED
    BY <2>2, <2>3
<1>12. \A s \in Nat : Gone(d, hi, u, s) => Gone(e, hi, u, s)
  <2>1. SUFFICES ASSUME NEW s \in Nat, NEW n \in lo..hi, NEW i \in 1..Len(d[n]),
                        s <= d[n][i].meta.last, Synced(d, hi, u, n, i)
                 PROVE  Gone(e, hi, u, s)
    BY <1>2 DEF Gone
  <2>2. CASE n = lo
    <3>1. IsFrame(d[n][i]) /\ d[n][i].seq <= c
      BY <2>2, <1>0, <1>7
    <3>2. s <= c
      BY <3>1, <2>1 DEF IsFrame
    <3> QED
      BY <3>2, <1>9
  <2>3. CASE n # lo
    <3>1. n \in lo + 1..hi
      BY <2>3, <1>2
    <3> QED
      BY <3>1, <2>1, <1>4, <1>8 DEF Gone
  <2> QED
    BY <2>2, <2>3
<1>13. Filed(e, lo + 1, hi)
  <2>1. \A n \in lo + 1..hi : IsSeq(e[n]) /\ \A i \in 1..Len(e[n]) : IsFrame(e[n][i])
    BY <1>1, <1>4, <1>6 DEF Filed
  <2>2. \A n \in lo + 1..hi : n < hi => Len(e[n]) > 0
    BY <1>1, <1>4, <1>6 DEF Filed
  <2> QED
    BY <2>1, <2>2, <1>2, <1>5 DEF Filed
<1>14. Ordered(e)
  <2>1. SUFFICES ASSUME NEW n \in lo + 1..hi, NEW m \in lo + 1..hi,
                        NEW i \in 1..Len(e[n]), NEW j \in 1..Len(e[m]),
                        n < m \/ (n = m /\ i < j)
                 PROVE  e[n][i].seq < e[m][j].seq
    <3>1. DOMAIN e = lo + 1..hi
      BY <1>4
    <3> QED
      BY <3>1 DEF Ordered
  <2>2. n \in DOMAIN d /\ m \in DOMAIN d /\ e[n] = d[n] /\ e[m] = d[m]
    BY <1>2, <1>4, <1>6
  <2> QED
    BY <2>1, <2>2, <1>1 DEF Ordered
<1>15. Chain(e, hi, u)
  <2>1. SUFFICES ASSUME NEW n \in lo + 1..hi, NEW i \in 1..Len(e[n]), NEW s \in 1..e[n][i].seq
                 PROVE  OnDisk(e, s) \/ Gone(e, hi, u, s)
    BY <1>4 DEF Chain
  <2>2. n \in DOMAIN d /\ e[n] = d[n]
    BY <1>2, <1>4, <1>6
  <2>3. OnDisk(d, s) \/ Gone(d, hi, u, s)
    BY <2>2, <1>1 DEF Chain
  <2>4. s \in Nat
    BY <2>2, <1>2, <1>7 DEF IsFrame
  <2> QED
    BY <2>3, <2>4, <1>10, <1>12
<1>16. Safe(e, hi, u, a)
  <2>1. SUFFICES ASSUME NEW s \in 1..a PROVE Durable(e, hi, u, s) \/ Gone(e, hi, u, s)
    BY DEF Safe
  <2>2. Durable(d, hi, u, s) \/ Gone(d, hi, u, s)
    BY <1>1 DEF Safe
  <2> QED
    BY <2>2, <1>1, <1>11, <1>12
<1> QED
  BY <1>1, <1>4, <1>13, <1>14, <1>15, <1>16 DEF Files

-----------------------------------------------------------------------------
(* What the steps do to the ledger in memory.                              *)

IsLed(l) == l = [io |-> l.io, gen |-> l.gen, seq |-> l.seq, segs |-> l.segs, recs |-> l.recs]
IsSeg(x) == x = [num |-> x.num, n |-> x.n, first |-> x.first, last |-> x.last]

(* The newest segment is the newest file.                                  *)
LEMMA CurrentIsNewest ==
    ASSUME NEW l, NEW hi \in Nat, IsLedger(l), Lined(l, hi)
    PROVE  /\ Len(l.segs) \in Nat /\ Len(l.segs) \in 1..Len(l.segs)
           /\ Last(l.segs) = l.segs[Len(l.segs)] /\ Last(l.segs).num = hi
           /\ IsSegment(Last(l.segs)) /\ IsSeg(Last(l.segs)) /\ Last(l.segs).last <= l.seq
<1>1. Len(l.segs) \in Nat /\ Len(l.segs) > 0
  BY DEF IsLedger, IsSeq
<1>2. Len(l.segs) \in 1..Len(l.segs)
  BY <1>1
<1>3. Last(l.segs) = l.segs[Len(l.segs)]
  BY DEF Last
<1>4. l.segs[Len(l.segs)].num = hi
  <2>1. PICK k \in 1..Len(l.segs) : k = Len(l.segs)
    BY <1>2
  <2>2. l.segs[k].num = hi - Len(l.segs) + k
    BY DEF Lined
  <2> QED
    BY <2>1, <2>2, <1>1
<1>5. /\ IsSegment(l.segs[Len(l.segs)]) /\ l.segs[Len(l.segs)].last <= l.seq
      /\ IsSeg(l.segs[Len(l.segs)])
  BY <1>2 DEF IsLedger, IsSeg
<1> QED
  BY <1>1, <1>2, <1>3, <1>4, <1>5

(* retain_for gives up some of the segments but the newest, or none.       *)
LEMMA RemoveCountIs ==
    ASSUME NEW segs, Len(segs) \in Nat
    PROVE  RemoveCount(segs) = 0 \/ RemoveCount(segs) \in 1..Len(segs) - 1
<1> DEFINE counts == {k \in 1..Len(segs) - 1 : Enough(segs, k)}
<1>1. counts \subseteq Nat /\ counts \subseteq 1..Len(segs) - 1
  OBVIOUS
<1>2. RemoveCount(segs) = IF counts = {} THEN 0 ELSE Min(counts)
  BY DEF RemoveCount
<1> HIDE DEF counts
<1>3. counts # {} => Min(counts) \in counts
  BY <1>1, MinIsLeast
<1> QED
  BY <1>1, <1>2, <1>3

(* A ledger with one more segment.                                         *)
OneMore(d, lo, hi, e) ==
    DOMAIN e = lo..hi + 1 /\ (\A n \in lo..hi : e[n] = d[n]) /\ Len(e[hi + 1]) = 0
Fresh(num) == [num |-> num, n |-> 0, first |-> 0, last |-> 0]
(* Its segments are the files again, and the segment before the new one    *)
(* ends at the head.                                                       *)
LEMMA RotatedLedger ==
    ASSUME NEW d, NEW lo, NEW hi, Filed(d, lo, hi),
           NEW l, IsLedger(l), Lined(l, hi), Behind(d, l), Level(d, hi, l),
           Len(l.segs) = hi - lo + 1, Last(l.segs).n # 0,
           NEW x, x = Fresh(hi + 1),
           NEW m, IsLed(m), m.seq = l.seq, m.segs = Append(l.segs, x),
           NEW e, OneMore(d, lo, hi, e)
    PROVE  /\ IsLedger(m) /\ Lined(m, hi + 1) /\ Behind(e, m) /\ Level(e, hi + 1, m)
           /\ Len(m.segs) = hi + 1 - lo + 1 /\ Len(m.segs) \in Nat
<1>0. DOMAIN e = lo..hi + 1 /\ (\A n \in lo..hi : e[n] = d[n]) /\ Len(e[hi + 1]) = 0
  BY DEF OneMore
<1>1. lo \in Nat /\ hi \in Nat /\ lo <= hi /\ 0 < lo /\ DOMAIN d = lo..hi
  BY DEF Filed
<1>2. /\ IsSeq(l.segs) /\ Len(l.segs) \in Nat /\ Len(l.segs) > 0 /\ l.seq \in Nat
      /\ \A i \in 1..Len(l.segs) : /\ IsSegment(l.segs[i]) /\ l.segs[i].last <= l.seq
                                   /\ IsSeg(l.segs[i])
  BY DEF IsLedger, IsSeg, IsSeq
<1>3. /\ IsSeq(m.segs) /\ Len(m.segs) = Len(l.segs) + 1
      /\ \A i \in 1..Len(l.segs) : m.segs[i] = l.segs[i]
      /\ m.segs[Len(l.segs) + 1] = x
  BY <1>2, Appended
<1>4. IsSegment(x) /\ IsSeg(x) /\ x.last <= l.seq /\ x.num = hi + 1 /\ x.n = 0
  BY <1>1, <1>2 DEF IsSegment, IsSeg, Fresh
<1>5. \A i \in 1..Len(m.segs) : i \in 1..Len(l.segs) \/ i = Len(l.segs) + 1
  BY <1>2, <1>3
<1>6. IsLedger(m)
  <2>1. \A i \in 1..Len(m.segs) : IsSegment(m.segs[i]) /\ m.segs[i].last <= l.seq /\ IsSeg(m.segs[i])
    BY <1>2, <1>3, <1>4, <1>5
  <2> QED
    BY <2>1, <1>2, <1>3 DEF IsLedger, IsLed, IsSeg
<1>7. Lined(m, hi + 1)
  <2>1. PICK top \in Nat : top = hi + 1
    BY <1>1
  <2>2. ASSUME NEW i \in 1..Len(m.segs)
        PROVE  m.segs[i].num = top - Len(m.segs) + i
    <3>1. CASE i \in 1..Len(l.segs)
      <4>1. m.segs[i].num = hi - Len(l.segs) + i
        BY <3>1, <1>3 DEF Lined
      <4>2. Len(m.segs) = Len(l.segs) + 1 /\ Len(l.segs) \in Nat /\ hi \in Nat /\ lo \in Nat
        BY <1>1, <1>2, <1>3
      <4>3. PICK k \in Nat : k = Len(l.segs)
        BY <4>2
      <4>4. i \in Int /\ Len(m.segs) = k + 1 /\ m.segs[i].num = hi - k + i
        BY <4>1, <4>2, <4>3, <3>1
      <4>5. top - (k + 1) + i = hi - k + i
        BY <4>2, <4>3, <4>4, <2>1
      <4> QED
        BY <4>4, <4>5
    <3>2. CASE i = Len(l.segs) + 1
      <4>1. m.segs[i].num = hi + 1
        BY <3>2, <1>3, <1>4
      <4>2. Len(m.segs) = Len(l.segs) + 1 /\ Len(l.segs) \in Nat /\ hi \in Nat /\ lo \in Nat
        BY <1>1, <1>2, <1>3
      <4> QED
        BY <4>1, <4>2, <3>2, <2>1
    <3> QED
      BY <3>1, <3>2, <1>5
  <2>3. Lined(m, top)
    BY <2>2 DEF Lined
  <2> QED
    BY <2>1, <2>3
<1>8. \A n \in lo..hi + 1 : \A k \in 1..Len(e[n]) :
          n \in lo..hi /\ e[n] = d[n] /\ d[n][k].seq <= l.seq
  <2>1. SUFFICES ASSUME NEW n \in lo..hi + 1, NEW k \in 1..Len(e[n])
                 PROVE  n \in lo..hi /\ e[n] = d[n] /\ d[n][k].seq <= l.seq
    OBVIOUS
  <2>2. n # hi + 1
    BY <2>1, <1>0
  <2>3. n \in lo..hi /\ e[n] = d[n]
    BY <2>2, <1>0, <1>1
  <2> QED
    BY <2>3, <1>1 DEF Level
<1>9. Behind(e, m)
  <2>1. SUFFICES ASSUME NEW i \in 1..Len(m.segs) - 1, NEW n \in lo..hi + 1, n <= m.segs[i].num,
                        NEW k \in 1..Len(e[n])
                 PROVE  e[n][k].seq <= m.segs[i].last
    BY <1>0 DEF Behind
  <2>2. i \in 1..Len(l.segs) /\ m.segs[i] = l.segs[i]
    BY <1>2, <1>3
  <2>3. n \in lo..hi /\ e[n] = d[n] /\ d[n][k].seq <= l.seq
    BY <1>8
  <2>4. CASE i < Len(l.segs)
    <3>1. i \in 1..Len(l.segs) - 1
      BY <2>2, <2>4, <1>2
    <3> QED
      BY <3>1, <2>1, <2>2, <2>3, <1>1 DEF Behind
  <2>5. CASE i = Len(l.segs)
    <3>1. l.segs[i].last = l.seq
      BY <2>5 DEF Level, Last
    <3> QED
      BY <3>1, <2>2, <2>3
  <2> QED
    BY <2>2, <2>4, <2>5, <1>2
<1>10. Level(e, hi + 1, m)
  <2>1. m.seq = 0 \/ OnDisk(e, m.seq)
    <3>1. CASE l.seq = 0
      BY <3>1
    <3>2. CASE OnDisk(d, l.seq)
      <4>1. PICK n \in lo..hi : \E i \in 1..Len(d[n]) : d[n][i].seq = l.seq
        BY <3>2, <1>1 DEF OnDisk
      <4>2. n \in lo..hi + 1 /\ e[n] = d[n]
        BY <1>0, <1>1
      <4> QED
        BY <4>1, <4>2, <1>0 DEF OnDisk
    <3> QED
      BY <3>1, <3>2 DEF Level
  <2>2. \A n \in DOMAIN e : \A i \in 1..Len(e[n]) : e[n][i].seq <= m.seq
    BY <1>0, <1>8
  <2>3. Last(m.segs).n = 0
    BY <1>3, <1>4 DEF Last
  <2> QED
    BY <2>1, <2>2, <2>3 DEF Level
<1> QED
  BY <1>1, <1>2, <1>3, <1>6, <1>7, <1>9, <1>10

-----------------------------------------------------------------------------
(* The steps of an append.                                                 *)

(* What the invariant says while an append is at work.                     *)
AtWork(lo, hi) ==
    /\ lo \in Nat /\ hi \in Nat
    /\ Files(disk, lo, hi, unsynced, acked) /\ IsJob(job)
    /\ led.io = "Ready" /\ Ready(disk, lo, hi, unsynced, led, job)
    /\ IsLedger(led) /\ Lined(led, hi) /\ Behind(disk, led)
    /\ Len(led.segs) \in Nat /\ Current.num = hi /\ Current = led.segs[Len(led.segs)]
    /\ IsSegment(Current) /\ IsSeg(Current)

(* An append at work has a ready ledger that is in line with the files.    *)
LEMMA WorkingLedger ==
    ASSUME LedgerInv, job.ph \in Working
    PROVE  \E lo, hi \in Nat : AtWork(lo, hi)
<1>1. PICK lo \in Nat, hi \in Nat : Ledger(disk, lo, hi, unsynced, acked, led, job)
  BY DEF LedgerInv
<1>2. /\ Files(disk, lo, hi, unsynced, acked) /\ IsJob(job)
      /\ led.io = "Ready" /\ Ready(disk, lo, hi, unsynced, led, job)
  BY <1>1 DEF Ledger
<1>3. IsLedger(led) /\ Lined(led, hi) /\ Behind(disk, led)
  BY <1>2 DEF Ready
<1> QED
  BY <1>2, <1>3, CurrentIsNewest DEF AtWork, Current

(* An append that failed, with the files still in order.                   *)
LEMMA FailureKeeps ==
    ASSUME NEW lo \in Nat, NEW hi \in Nat, Files(disk', lo, hi, unsynced', acked'),
           IsJob(job'), job'.ph = "failed", IsLedger(led'), led'.io = "Degraded"
    PROVE  LedgerInv'
  BY DEF LedgerInv, Ledger, Working

(* A failure degrades the ledger and changes nothing else in memory.       *)
LEMMA FailIs ==
    ASSUME IsJob(job), IsLedger(led), Fail
    PROVE  IsJob(job') /\ job'.ph = "failed" /\ IsLedger(led') /\ led'.io = "Degraded"
<1>1. IsJob(job') /\ job'.ph = "failed"
  BY DEF Fail, IsJob
<1>2. /\ led' = [io |-> "Degraded", gen |-> led.gen, seq |-> led.seq, segs |-> led.segs,
                 recs |-> led.recs]
  BY DEF Fail, IsLedger
<1>3. led'.seq = led.seq /\ led'.segs = led.segs /\ led'.io = "Degraded" /\ IsLed(led')
  BY <1>2 DEF IsLed
<1> QED
  BY <1>1, <1>3 DEF IsLedger, IsLed

(* A sync that failed.                                                     *)
LEMMA SyncFailsKeeps ==
    ASSUME LedgerInv, SyncFails
    PROVE  LedgerInv'
<1>1. job.ph \in Working
  BY DEF SyncFails, Working
<1>2. PICK lo \in Nat, hi \in Nat : AtWork(lo, hi)
  BY <1>1, WorkingLedger
<1>3. Files(disk', lo, hi, unsynced', acked') /\ Fail
  BY <1>2 DEF SyncFails, AtWork
<1> QED
  BY <1>2, <1>3, FailIs, FailureKeeps DEF AtWork

(* A removal that failed: the remaining files stay.                        *)
LEMMA DeleteFailsKeeps ==
    ASSUME LedgerInv, DeleteFails
    PROVE  LedgerInv'
<1>1. job.ph \in Working
  BY DEF DeleteFails, Working
<1>2. PICK lo \in Nat, hi \in Nat : AtWork(lo, hi)
  BY <1>1, WorkingLedger
<1>3. Files(disk', lo, hi, unsynced', acked') /\ Fail
  BY <1>2 DEF DeleteFails, AtWork
<1> QED
  BY <1>2, <1>3, FailIs, FailureKeeps DEF AtWork

(* A write that failed, with or without a part of the frame on disk.       *)
LEMMA WriteFailsKeeps ==
    ASSUME LedgerInv, WriteFails
    PROVE  LedgerInv'
<1>1. job.ph \in Working
  BY DEF WriteFails, Working
<1>2. PICK lo \in Nat, hi \in Nat : AtWork(lo, hi)
  BY <1>1, WorkingLedger
<1>3. Files(disk', lo, hi, unsynced', acked') /\ Fail
  BY <1>2 DEF WriteFails, AtWork
<1> QED
  BY <1>2, <1>3, FailIs, FailureKeeps DEF AtWork

(* A rotation that failed, with or without the new file.                   *)
LEMMA RotateFailsKeeps ==
    ASSUME LedgerInv, RotateFails
    PROVE  LedgerInv'
<1>1. job.ph \in Working /\ job.ph = "rotate"
  BY DEF RotateFails, Working
<1>2. PICK lo \in Nat, hi \in Nat : AtWork(lo, hi)
  BY <1>1, WorkingLedger
<1>3. Fail /\ unsynced' = unsynced /\ acked' = acked
  BY DEF RotateFails
<1>4. Len(disk[hi]) > 0 /\ unsynced \in Nat
  BY <1>1, <1>2 DEF AtWork, Ready, Level, Current, Files
<1>5. NewSegment.num = hi + 1
  BY <1>2 DEF NewSegment, AtWork
<1>6. CASE disk' = WithFile(disk, NewSegment.num)
  <2>1. Files(disk', lo, hi + 1, unsynced', acked')
    BY <1>2, <1>3, <1>4, <1>5, <1>6, RotateKeepsFiles DEF AtWork
  <2>2. hi + 1 \in Nat
    OBVIOUS
  <2> QED
    BY <2>1, <2>2, <1>2, <1>3, FailIs, FailureKeeps DEF AtWork
<1>7. CASE disk' = disk
  <2>1. Files(disk', lo, hi, unsynced', acked')
    BY <1>2, <1>3, <1>7 DEF AtWork
  <2> QED
    BY <2>1, <1>2, <1>3, FailIs, FailureKeeps DEF AtWork
<1> QED
  BY <1>6, <1>7 DEF RotateFails

(* The new segment, and the checkpoint for the oldest ones if they must go. *)
LEMMA RotateKeeps ==
    ASSUME LedgerInv, Rotate
    PROVE  LedgerInv'
<1>1. job.ph \in Working /\ job.ph = "rotate"
  BY DEF Rotate, Working
<1>2. PICK lo \in Nat, hi \in Nat : AtWork(lo, hi)
  BY <1>1, WorkingLedger
<1>3. /\ Filed(disk, lo, hi) /\ Level(disk, hi, led) /\ Current.n # 0 /\ job.cp = NoMeta
      /\ Len(led.segs) = hi - lo + 1 /\ Len(disk[hi]) > 0 /\ acked' = acked /\ unsynced' = 0
  BY <1>1, <1>2 DEF AtWork, Ready, Level, Current, Files, Rotate
<1>4. NewSegment = Fresh(hi + 1) /\ NewSegment.num = hi + 1
  BY <1>2 DEF NewSegment, AtWork, Fresh
<1>5. PICK top \in Nat : top = hi + 1
  OBVIOUS
<1> DEFINE segs == Append(led.segs, NewSegment)
           k == RemoveCount(segs)
<1>6. segs = Append(led.segs, NewSegment)
  OBVIOUS
<1>7. k = RemoveCount(segs)
  OBVIOUS
<1>8. /\ disk' = WithFile(disk, hi + 1)
      /\ \/ led' = [led EXCEPT !.segs = segs, !.io = "Degraded"] /\ job' = [job EXCEPT !.ph = "failed"]
         \/ /\ k # 0 /\ led' = [led EXCEPT !.segs = segs]
            /\ job' = [job EXCEPT !.ph = "write",
                          !.cp = [first |-> segs[1].first, last |-> segs[k].last],
                          !.left = {segs[i].num : i \in 1..k}]
         \/ led' = [led EXCEPT !.segs = segs] /\ job' = [job EXCEPT !.ph = "write"]
  <2>1. disk' = WithFile(disk, hi + 1)
    BY <1>4 DEF Rotate
  <2>2. \/ /\ led' = [led EXCEPT !.segs = segs, !.io = "Degraded"]
           /\ job' = [job EXCEPT !.ph = "failed"]
        \/ /\ k # 0 /\ led' = [led EXCEPT !.segs = segs]
           /\ job' = [job EXCEPT !.ph = "write",
                          !.cp = [first |-> segs[1].first, last |-> segs[k].last],
                          !.left = {segs[i].num : i \in 1..k}]
        \/ led' = [led EXCEPT !.segs = segs] /\ job' = [job EXCEPT !.ph = "write"]
    BY Zenon DEF Rotate
  <2> QED
    BY <2>1, <2>2
<1> HIDE DEF segs, k
<1>9. /\ Files(disk', lo, top, unsynced', acked')
      /\ DOMAIN disk' = lo..hi + 1 /\ \A n \in lo..hi : disk'[n] = disk[n]
      /\ Len(disk'[hi + 1]) = 0
  <2>0. PICK v \in Nat : v = unsynced'
    BY <1>3
  <2>1. PICK e : e = disk'
    OBVIOUS
  <2>2. Files(disk, lo, hi, unsynced, acked) /\ e = WithFile(disk, hi + 1)
    BY <2>1, <1>2, <1>8 DEF AtWork
  <2>3. /\ Files(e, lo, hi + 1, v, acked)
        /\ DOMAIN e = lo..hi + 1 /\ \A n \in lo..hi : e[n] = disk[n]
        /\ Len(e[hi + 1]) = 0
    BY <2>2, <1>3, RotateKeepsFiles
  <2> QED
    BY <2>0, <2>1, <2>3, <1>3, <1>5
<1>10. IsLed(led') /\ led'.seq = led.seq /\ led'.segs = segs /\ IsJob(job')
  <2>1. IsLed(led) /\ IsJob(job)
    BY <1>2 DEF AtWork, IsLedger, IsLed
  <2>2. CASE led' = [led EXCEPT !.segs = segs, !.io = "Degraded"]
    BY <2>1, <2>2, <1>8 DEF IsLed, IsJob
  <2>3. CASE led' = [led EXCEPT !.segs = segs]
    BY <2>1, <2>3, <1>8 DEF IsLed, IsJob
  <2> QED
    BY <2>2, <2>3, <1>8
<1>11. /\ IsLedger(led') /\ Lined(led', hi + 1) /\ Behind(disk', led') /\ Level(disk', hi + 1, led')
       /\ Len(led'.segs) = hi + 1 - lo + 1 /\ Len(led'.segs) \in Nat
  <2>1. PICK e, m, x : e = disk' /\ m = led' /\ x = NewSegment
    OBVIOUS
  <2>2. /\ IsLedger(led) /\ Lined(led, hi) /\ Behind(disk, led) /\ Last(led.segs).n # 0
        /\ x = Fresh(hi + 1)
        /\ IsLed(m) /\ m.seq = led.seq /\ m.segs = Append(led.segs, x)
    BY <2>1, <1>2, <1>3, <1>4, <1>6, <1>10 DEF AtWork, Current
  <2>3. OneMore(disk, lo, hi, e)
    BY <2>1, <1>9 DEF OneMore
  <2>4. /\ IsLedger(m) /\ Lined(m, hi + 1) /\ Behind(e, m) /\ Level(e, hi + 1, m)
        /\ Len(m.segs) = hi + 1 - lo + 1 /\ Len(m.segs) \in Nat
    BY <2>2, <2>3, <1>3, RotatedLedger
  <2> QED
    BY <2>1, <2>4
<1>12. CASE led'.io = "Degraded" /\ job'.ph = "failed"
  BY <1>9, <1>10, <1>11, <1>12, FailureKeeps
<1>13. ASSUME led'.io = "Ready", job'.ph = "write",
              job'.cp # NoMeta => Retaining(disk', lo, top, led', job')
       PROVE  LedgerInv'
  <2>1. Ready(disk', lo, top, unsynced', led', job')
    BY <1>13, <1>5, <1>11 DEF Ready
  <2>2. Ledger(disk', lo, top, unsynced', acked', led', job')
    BY <2>1, <1>13, <1>9, <1>10, <1>11 DEF Ledger, Working
  <2> QED
    BY <2>2 DEF LedgerInv
<1>14. IsLed(led) /\ IsJob(job) /\ led.io = "Ready"
  BY <1>2 DEF AtWork, IsLedger, IsLed
<1>15. CASE led' = [led EXCEPT !.segs = segs, !.io = "Degraded"] /\ job' = [job EXCEPT !.ph = "failed"]
  BY <1>12, <1>14, <1>15 DEF IsLed, IsJob
<1>16. CASE led' = [led EXCEPT !.segs = segs] /\ job' = [job EXCEPT !.ph = "write"]
  <2>1. led'.io = "Ready" /\ job'.ph = "write" /\ job'.cp = NoMeta
    BY <1>3, <1>14, <1>16 DEF IsLed, IsJob
  <2> QED
    BY <2>1, <1>13
<1>17. CASE /\ k # 0 /\ led' = [led EXCEPT !.segs = segs]
            /\ job' = [job EXCEPT !.ph = "write",
                          !.cp = [first |-> segs[1].first, last |-> segs[k].last],
                          !.left = {segs[i].num : i \in 1..k}]
  <2>1. led'.io = "Ready" /\ job'.ph = "write"
    BY <1>14, <1>17 DEF IsLed, IsJob
  <2>2. job'.cp.last = segs[k].last /\ job'.left = {segs[i].num : i \in 1..k}
    BY <1>14, <1>17 DEF IsJob
  <2>3. k \in 1..Len(segs) - 1 /\ Len(segs) = top - lo + 1
    BY <1>5, <1>7, <1>10, <1>11, <1>17, RemoveCountIs
  <2>4. PICK x \in Nat : x = lo + k - 1
    BY <2>3
  <2>5. lo <= x /\ x < top
    BY <2>3, <2>4, <1>5
  <2>6. \A i \in 1..k : segs[i].num = lo + i - 1
    <3>1. \A i \in 1..Len(segs) : segs[i].num = top - Len(segs) + i
      BY <1>5, <1>10, <1>11 DEF Lined
    <3>2. TAKE i \in 1..k
    <3>3. segs[i].num = top - Len(segs) + i
      BY <2>3, <3>1
    <3> QED
      BY <2>3, <3>3
  <2>7. job'.left = lo..x
    <3>1. \A y \in lo..x : y - lo + 1 \in 1..k /\ segs[y - lo + 1].num = y
      <4>1. TAKE y \in lo..x
      <4>2. y - lo + 1 \in 1..k
        BY <2>3, <2>4
      <4>3. segs[y - lo + 1].num = lo + (y - lo + 1) - 1
        BY <4>2, <2>6
      <4> QED
        BY <4>2, <4>3, <2>4
    <3>2. \A i \in 1..k : segs[i].num \in lo..x
      <4>1. TAKE i \in 1..k
      <4>2. segs[i].num = lo + i - 1
        BY <2>6
      <4> QED
        BY <4>2, <2>3, <2>4
    <3> QED
      BY <3>1, <3>2, <2>2
  <2>8. segs[k].num = x /\ segs[k].last \in Nat /\ segs[k].last <= led'.seq
    <3>1. k \in 1..k /\ k \in 1..Len(segs)
      BY <2>3
    <3>2. segs[k].num = lo + k - 1
      BY <3>1, <2>6
    <3> QED
      BY <3>1, <3>2, <2>4, <1>10, <1>11 DEF IsLedger, IsSegment
  <2>9. \A n \in DOMAIN disk' : n <= x => \A i \in 1..Len(disk'[n]) : disk'[n][i].seq <= segs[k].last
    <3>1. k \in 1..Len(led'.segs) - 1
      BY <2>3, <1>10
    <3> QED
      BY <3>1, <2>8, <1>10, <1>11 DEF Behind
  <2>10. Covers(disk', lo, x, job')
    BY <2>2, <2>7, <2>8, <2>9 DEF Covers
  <2>11. Retaining(disk', lo, top, led', job')
    BY <2>2, <2>4, <2>5, <2>8, <2>10 DEF Retaining
  <2> QED
    BY <2>1, <2>11, <1>13
<1> QED
  BY <1>8, <1>15, <1>16, <1>17

(* The frame is written and not yet published.                             *)
LEMMA WriteKeeps ==
    ASSUME LedgerInv, Write
    PROVE  LedgerInv'
<1>1. job.ph \in Working /\ job.ph = "write"
  BY DEF Write, Working
<1>2. PICK lo \in Nat, hi \in Nat : AtWork(lo, hi)
  BY <1>1, WorkingLedger
<1>3. /\ Filed(disk, lo, hi) /\ Level(disk, hi, led) /\ Len(led.segs) = hi - lo + 1
      /\ job.cp # NoMeta => Retaining(disk, lo, hi, led, job)
      /\ unsynced \in Nat /\ led.seq \in Nat /\ Chain(disk, hi, unsynced)
  BY <1>1, <1>2 DEF AtWork, Ready, Files, IsLedger
<1>4. PICK f : f = FrameOf(led, job)
  OBVIOUS
<1>5. /\ disk' = Wrote(disk, hi, f) /\ unsynced' = unsynced + 1 /\ acked' = acked /\ led' = led
      /\ job' = [job EXCEPT !.ph = "sync"]
  BY <1>2, <1>4 DEF Write, AtWork, Wrote, FrameOf, NextFrame
<1>6. f.seq = led.seq + 1 /\ f.meta.last \in Nat /\ f.meta.last <= led.seq
  <2>1. CASE job.cp = NoMeta
    BY <2>1, <1>3, <1>4 DEF FrameOf, Frame, NoMeta
  <2>2. CASE job.cp # NoMeta
    <3>1. job.cp.last \in Nat /\ job.cp.last <= led.seq
      BY <2>2, <1>3 DEF Retaining, Covers
    <3> QED
      BY <2>2, <3>1, <1>4 DEF FrameOf, Frame
  <2> QED
    BY <2>1, <2>2
<1>7. IsFrame(f)
  BY <1>3, <1>6 DEF IsFrame
<1>8. \A n \in DOMAIN disk : \A i \in 1..Len(disk[n]) : disk[n][i].seq < f.seq
  <2>1. \A n \in DOMAIN disk : \A i \in 1..Len(disk[n]) : disk[n][i].seq <= led.seq /\ disk[n][i].seq \in Nat
    BY <1>3 DEF Level, Filed, IsFrame
  <2> QED
    BY <2>1, <1>3, <1>6
<1>9. \A s \in 1..f.seq - 1 : OnDisk(disk, s) \/ Gone(disk, hi, unsynced, s)
  <2>1. TAKE s \in 1..f.seq - 1
  <2>2. s \in 1..led.seq /\ led.seq # 0
    BY <1>3, <1>6
  <2>3. OnDisk(disk, led.seq)
    BY <2>2, <1>3 DEF Level
  <2> QED
    BY <2>2, <2>3, <1>3 DEF OnDisk, Chain
<1>10. Files(disk', lo, hi, unsynced', acked') /\ Ends(disk', hi, f)
  BY <1>2, <1>5, <1>7, <1>8, <1>9, WriteKeepsFiles DEF AtWork
<1>11. DOMAIN disk' = lo..hi /\ DOMAIN disk = lo..hi /\ \A n \in lo..hi : n < hi => disk'[n] = disk[n]
  <2>1. Adds(disk, hi, f, disk')
    BY <1>3, <1>5, WriteAdds
  <2> QED
    BY <2>1, <1>3 DEF Adds, Filed
<1>12. IsJob(job') /\ job'.ph = "sync" /\ job'.cp = job.cp /\ job'.left = job.left /\ job'.rec = job.rec
  BY <1>2, <1>5 DEF AtWork, IsJob
<1>13. Behind(disk', led')
  <2>1. SUFFICES ASSUME NEW i \in 1..Len(led.segs) - 1, NEW n \in lo..hi, n <= led.segs[i].num,
                        NEW k \in 1..Len(disk'[n])
                 PROVE  disk'[n][k].seq <= led.segs[i].last
    BY <1>5, <1>11 DEF Behind
  <2>2. led.segs[i].num = hi - Len(led.segs) + i
    BY <1>2 DEF AtWork, Lined
  <2>3. n < hi
    BY <2>1, <2>2, <1>2 DEF AtWork
  <2> QED
    BY <2>1, <2>3, <1>2, <1>11 DEF AtWork, Behind
<1>14. job'.cp # NoMeta => Retaining(disk', lo, hi, led', job')
  <2>1. SUFFICES ASSUME job.cp # NoMeta PROVE Retaining(disk', lo, hi, led', job')
    BY <1>12
  <2>2. job.cp.last <= led.seq
    BY <2>1, <1>3 DEF Retaining
  <2>3. PICK x \in Nat : lo <= x /\ x < hi /\ Covers(disk, lo, x, job)
    BY <2>1, <1>3 DEF Retaining
  <2>4. \A n \in DOMAIN disk' : n <= x => disk'[n] = disk[n] /\ n \in DOMAIN disk
    BY <2>3, <1>11
  <2>5. Covers(disk', lo, x, job')
    BY <2>3, <2>4, <1>12 DEF Covers
  <2> QED
    BY <2>2, <2>3, <2>5, <1>5, <1>12 DEF Retaining
<1>15. FrameOf(led', job') = f
  BY <1>4, <1>5, <1>12 DEF FrameOf
<1>16. Ready(disk', lo, hi, unsynced', led', job')
  <2>1. unsynced' > 0 /\ IsLedger(led') /\ Lined(led', hi)
    BY <1>2, <1>3, <1>5 DEF AtWork
  <2> QED
    BY <2>1, <1>3, <1>5, <1>10, <1>12, <1>13, <1>14, <1>15 DEF Ready
<1> QED
  BY <1>2, <1>5, <1>10, <1>12, <1>16 DEF LedgerInv, Ledger, AtWork

(* A ledger that published the newest frame.                               *)
OneFrameMore(l, m) ==
    /\ IsLed(m) /\ m.seq = l.seq + 1 /\ IsSeq(m.segs) /\ Len(m.segs) = Len(l.segs)
    /\ \A i \in 1..Len(l.segs) - 1 : m.segs[i] = l.segs[i]
    /\ m.segs[Len(l.segs)].num = l.segs[Len(l.segs)].num
    /\ m.segs[Len(l.segs)].n # 0 /\ m.segs[Len(l.segs)].last = l.seq + 1
    /\ IsSegment(m.segs[Len(l.segs)]) /\ IsSeg(m.segs[Len(l.segs)])

(* The newest segment with one more frame.                                 *)
Longer(x, last) == [x EXCEPT !.n = @ + 1, !.last = last, !.first = IF @ = 0 THEN last ELSE @]
(* Its number stays and its last frame is the new one.                     *)
LEMMA LongerIs ==
    ASSUME NEW x, IsSeg(x), IsSegment(x), NEW last \in Nat
    PROVE  /\ IsSeg(Longer(x, last)) /\ IsSegment(Longer(x, last))
           /\ Longer(x, last).num = x.num /\ Longer(x, last).n # 0 /\ Longer(x, last).last = last
<1>1. PICK first \in Nat : first = IF x.first = 0 THEN last ELSE x.first
  BY DEF IsSegment
<1>2. PICK n \in Nat : n = x.n + 1 /\ n # 0
  BY DEF IsSegment
<1>3. Longer(x, last) = [x EXCEPT !.n = n, !.last = last, !.first = first]
  BY <1>1, <1>2 DEF Longer
<1>4. Longer(x, last) = [num |-> x.num, n |-> n, first |-> first, last |-> last]
  BY <1>3 DEF IsSeg
<1> QED
  BY <1>2, <1>4 DEF IsSeg, IsSegment

(* Publishing a frame makes the newest segment one frame longer.           *)
LEMMA PublishedIs ==
    ASSUME NEW lo, NEW hi, AtWork(lo, hi)
    PROVE  OneFrameMore(led, Published) /\ Published.io = led.io
<1>1. /\ IsLedger(led) /\ IsLed(led) /\ Len(led.segs) \in Nat /\ Len(led.segs) > 0 /\ led.seq \in Nat
      /\ IsSeq(led.segs) /\ IsSegment(Current) /\ IsSeg(Current) /\ Current = led.segs[Len(led.segs)]
  BY DEF AtWork, IsLedger, IsLed
<1> DEFINE seg == [Current EXCEPT !.n = @ + 1, !.last = led.seq + 1,
                                  !.first = IF @ = 0 THEN led.seq + 1 ELSE @]
           more == Append(led.recs, [num |-> Current.num, seq |-> led.seq + 1,
                                     rec |-> NextFrame.rec])
           segs == Append(Front(led.segs), seg)
<1>2. Published = [led EXCEPT !.seq = @ + 1, !.segs = segs, !.recs = more]
  BY Zenon DEF Published
<1>3. /\ IsSeg(seg) /\ IsSegment(seg) /\ seg.num = Current.num /\ seg.n # 0 /\ seg.last = led.seq + 1
  <2>1. PICK x : x = Current
    OBVIOUS
  <2>2. PICK last \in Nat : last = led.seq + 1
    BY <1>1
  <2>3. seg = Longer(x, last) /\ IsSeg(x) /\ IsSegment(x)
    BY <2>1, <2>2, <1>1 DEF Longer
  <2> HIDE DEF seg
  <2>4. PICK y : y = Longer(x, last)
    OBVIOUS
  <2>5. IsSeg(y) /\ IsSegment(y) /\ y.num = x.num /\ y.n # 0 /\ y.last = last
    BY <2>3, <2>4, LongerIs
  <2>6. seg = y
    BY <2>3, <2>4
  <2> QED
    BY <2>1, <2>2, <2>5, <2>6
<1> HIDE DEF seg, more
<1>4. /\ IsSeq(Front(led.segs)) /\ Len(Front(led.segs)) = Len(led.segs) - 1
      /\ \A i \in 1..Len(led.segs) - 1 : Front(led.segs)[i] = led.segs[i]
  <2>1. PICK one \in Nat : one = 1
    OBVIOUS
  <2>2. PICK k \in Int : k = Len(led.segs) - 1
    BY <1>1
  <2>3. /\ IsSeq(SubSeq(led.segs, one, k))
        /\ Len(SubSeq(led.segs, one, k)) = IF one <= k THEN k - one + 1 ELSE 0
        /\ \A i \in 1..Len(SubSeq(led.segs, one, k)) :
              SubSeq(led.segs, one, k)[i] = led.segs[one + i - 1]
    BY <1>1, <2>1, <2>2, Cut
  <2>4. Front(led.segs) = SubSeq(led.segs, one, k)
    BY <2>1, <2>2 DEF Front
  <2>5. Len(Front(led.segs)) = k
    BY <2>1, <2>2, <2>3, <2>4, <1>1
  <2>6. \A i \in 1..k : Front(led.segs)[i] = led.segs[i]
    BY <2>1, <2>2, <2>3, <2>4, <2>5
  <2> QED
    BY <2>2, <2>3, <2>4, <2>5, <2>6
<1>5. PICK short : short = Front(led.segs)
  OBVIOUS
<1>6. /\ IsSeq(segs) /\ Len(segs) = Len(short) + 1
      /\ \A i \in 1..Len(short) : segs[i] = short[i]
      /\ segs[Len(short) + 1] = seg
  BY <1>4, <1>5, Appended
<1> HIDE DEF segs
<1>7. /\ Published.segs = segs /\ Published.seq = led.seq + 1 /\ IsLed(Published)
      /\ Published.io = led.io
  BY <1>1, <1>2 DEF IsLed
<1>8. Len(segs) = Len(led.segs) /\ segs[Len(led.segs)] = seg
  BY <1>1, <1>4, <1>5, <1>6
<1>9. \A i \in 1..Len(led.segs) - 1 : segs[i] = led.segs[i]
  BY <1>1, <1>4, <1>5, <1>6
<1> QED
  BY <1>1, <1>3, <1>6, <1>7, <1>8, <1>9 DEF OneFrameMore

(* It agrees with the files that end in this frame.                        *)
LEMMA PublishedLedger ==
    ASSUME NEW d, NEW lo, NEW hi, Filed(d, lo, hi), Ordered(d),
           NEW l, IsLedger(l), Lined(l, hi), Behind(d, l),
           NEW f, Ends(d, hi, f), f.seq = l.seq + 1,
           NEW m, OneFrameMore(l, m)
    PROVE  IsLedger(m) /\ Lined(m, hi) /\ Behind(d, m) /\ Level(d, hi, m)
<1>1. lo \in Nat /\ hi \in Nat /\ lo <= hi /\ DOMAIN d = lo..hi
  BY DEF Filed
<1>2. /\ Len(l.segs) \in Nat /\ Len(l.segs) > 0 /\ l.seq \in Nat
      /\ \A i \in 1..Len(l.segs) : /\ IsSegment(l.segs[i]) /\ l.segs[i].last <= l.seq
                                   /\ IsSeg(l.segs[i])
  BY DEF IsLedger, IsSeg, IsSeq
<1>3. /\ IsLed(m) /\ m.seq = l.seq + 1 /\ IsSeq(m.segs) /\ Len(m.segs) = Len(l.segs)
      /\ \A i \in 1..Len(l.segs) - 1 : m.segs[i] = l.segs[i]
      /\ m.segs[Len(l.segs)].num = l.segs[Len(l.segs)].num
      /\ m.segs[Len(l.segs)].n # 0 /\ m.segs[Len(l.segs)].last = l.seq + 1
      /\ IsSegment(m.segs[Len(l.segs)]) /\ IsSeg(m.segs[Len(l.segs)])
  BY DEF OneFrameMore
<1>4. \A i \in 1..Len(l.segs) : i \in 1..Len(l.segs) - 1 \/ i = Len(l.segs)
  BY <1>2
<1>5. IsLedger(m)
  <2>1. ASSUME NEW i \in 1..Len(m.segs)
        PROVE  IsSegment(m.segs[i]) /\ IsSeg(m.segs[i]) /\ m.segs[i].last <= m.seq
    <3>1. CASE i \in 1..Len(l.segs) - 1
      <4>1. i \in 1..Len(l.segs) /\ m.segs[i] = l.segs[i]
        BY <3>1, <1>2, <1>3
      <4>2. l.segs[i].last \in Nat /\ l.segs[i].last <= l.seq
        BY <4>1, <1>2 DEF IsSegment
      <4> QED
        BY <4>1, <4>2, <1>2, <1>3
    <3>2. CASE i = Len(l.segs)
      BY <3>2, <1>2, <1>3
    <3> QED
      BY <3>1, <3>2, <1>3, <1>4
  <2> QED
    BY <2>1, <1>2, <1>3 DEF IsLedger, IsLed, IsSeg
<1>6. Lined(m, hi)
  <2>1. ASSUME NEW i \in 1..Len(l.segs) PROVE m.segs[i].num = l.segs[i].num
    BY <2>1, <1>3, <1>4
  <2> QED
    BY <2>1, <1>3 DEF Lined
<1>7. Behind(d, m)
  <2>1. \A i \in 1..Len(l.segs) - 1 : m.segs[i] = l.segs[i]
    BY <1>3
  <2> QED
    BY <2>1, <1>3 DEF Behind
<1>8. Level(d, hi, m)
  <2>1. hi \in DOMAIN d /\ Len(d[hi]) \in Nat /\ Len(d[hi]) \in 1..Len(d[hi])
    BY <1>1 DEF Ends, Filed, IsSeq
  <2>2. d[hi][Len(d[hi])].seq = m.seq
    BY <1>3 DEF Ends
  <2>3. ASSUME NEW n \in DOMAIN d, NEW i \in 1..Len(d[n]) PROVE d[n][i].seq <= m.seq
    <3>1. d[n][i].seq \in Nat
      BY <1>1 DEF Filed, IsFrame
    <3>2. n < hi \/ (n = hi /\ i < Len(d[hi])) \/ (n = hi /\ i = Len(d[hi]))
      BY <1>1, <2>1
    <3>3. CASE n < hi \/ (n = hi /\ i < Len(d[hi]))
      <4>1. d[n][i].seq < d[hi][Len(d[hi])].seq
        BY <3>3, <2>1 DEF Ordered
      <4> QED
        BY <4>1, <3>1, <2>2, <1>2, <1>3
    <3>4. CASE n = hi /\ i = Len(d[hi])
      BY <3>4, <2>2, <1>2, <1>3
    <3> QED
      BY <3>2, <3>3, <3>4
  <2>4. OnDisk(d, m.seq)
    BY <2>1, <2>2 DEF OnDisk
  <2>5. Last(m.segs).last = m.seq
    BY <1>3 DEF Last
  <2> QED
    BY <2>1, <2>3, <2>4, <2>5 DEF Level
<1> QED
  BY <1>5, <1>6, <1>7, <1>8

(* A ledger that gave up its oldest segments.                              *)
Fewer(l, c, m) ==
    c < Len(l.segs) /\ IsLed(m) /\ m.seq = l.seq /\ m.segs = Dropped(l.segs, c)
(* The remaining segments are still the newest files.                      *)
LEMMA DroppedLedger ==
    ASSUME NEW d, NEW hi \in Nat, NEW l, IsLedger(l), Lined(l, hi), Behind(d, l), Level(d, hi, l),
           NEW c \in Nat, NEW m, Fewer(l, c, m)
    PROVE  /\ IsLedger(m) /\ Lined(m, hi) /\ Behind(d, m) /\ Level(d, hi, m)
           /\ Len(m.segs) = Len(l.segs) - c
<1>1. /\ IsSeq(l.segs) /\ Len(l.segs) \in Nat /\ l.seq \in Nat
      /\ \A i \in 1..Len(l.segs) : /\ IsSegment(l.segs[i]) /\ l.segs[i].last <= l.seq
                                   /\ IsSeg(l.segs[i])
  BY DEF IsLedger, IsSeg, IsSeq
<1>0. c < Len(l.segs) /\ IsLed(m) /\ m.seq = l.seq /\ m.segs = Dropped(l.segs, c)
  BY DEF Fewer
<1>2. PICK k \in Nat : k = c + 1
  OBVIOUS
<1>3. PICK n \in Int : n = Len(l.segs)
  BY <1>1
<1>4. m.segs = SubSeq(l.segs, k, n)
  BY <1>0, <1>2, <1>3 DEF Dropped
<1>5. /\ IsSeq(m.segs) /\ Len(m.segs) = IF k <= n THEN n - k + 1 ELSE 0
      /\ \A i \in 1..Len(m.segs) : m.segs[i] = l.segs[k + i - 1]
  BY <1>1, <1>2, <1>3, <1>4, Cut
<1>6. Len(m.segs) = n - c /\ Len(m.segs) > 0
  BY <1>0, <1>1, <1>2, <1>3, <1>5
<1>7. \A i \in 1..Len(m.segs) : c + i \in 1..Len(l.segs) /\ m.segs[i] = l.segs[c + i]
  BY <1>1, <1>2, <1>3, <1>5, <1>6
<1>8. IsLedger(m)
  <2>1. \A i \in 1..Len(m.segs) : IsSegment(m.segs[i]) /\ m.segs[i].last <= l.seq /\ IsSeg(m.segs[i])
    BY <1>1, <1>7
  <2> QED
    BY <2>1, <1>0, <1>1, <1>5, <1>6 DEF IsLedger, IsLed, IsSeg
<1>9. Lined(m, hi)
  <2>1. ASSUME NEW i \in 1..Len(m.segs) PROVE m.segs[i].num = hi - Len(m.segs) + i
    <3>1. m.segs[i].num = hi - n + (c + i)
      BY <1>3, <1>7 DEF Lined
    <3> QED
      BY <3>1, <1>1, <1>3, <1>6
  <2> QED
    BY <2>1 DEF Lined
<1>10. Behind(d, m)
  <2>1. ASSUME NEW i \in 1..Len(m.segs) - 1
        PROVE  c + i \in 1..Len(l.segs) - 1 /\ m.segs[i] = l.segs[c + i]
    BY <1>1, <1>3, <1>6, <1>7
  <2> QED
    BY <2>1 DEF Behind
<1>11. Level(d, hi, m)
  <2>1. Last(m.segs) = Last(l.segs)
    BY <1>0, <1>1, <1>3, <1>6, <1>7 DEF Last
  <2> QED
    BY <2>1, <1>0 DEF Level
<1> QED
  BY <1>3, <1>6, <1>8, <1>9, <1>10, <1>11

(* The frame is published; a checkpoint is followed by the deletions.      *)
LEMMA SyncKeeps ==
    ASSUME LedgerInv, Sync
    PROVE  LedgerInv'
<1>1. job.ph \in Working /\ job.ph = "sync"
  BY DEF Sync, Working
<1>2. PICK lo \in Nat, hi \in Nat : AtWork(lo, hi)
  BY <1>1, WorkingLedger
<1>3. /\ Filed(disk, lo, hi) /\ Ordered(disk) /\ Len(led.segs) = hi - lo + 1 /\ led.seq \in Nat
      /\ Ends(disk, hi, FrameOf(led, job)) /\ acked \in Nat
      /\ job.cp # NoMeta => Retaining(disk, lo, hi, led, job)
      /\ unsynced' = 0 /\ disk' = disk
  BY <1>1, <1>2 DEF AtWork, Ready, Files, IsLedger, Sync
<1>4. FrameOf(led, job).seq = led.seq + 1
  BY DEF FrameOf, Frame
<1>5. PICK m : m = Published
  OBVIOUS
<1>6. OneFrameMore(led, m) /\ m.io = "Ready"
  BY <1>2, <1>5, PublishedIs DEF AtWork
<1>7. IsLedger(m) /\ Lined(m, hi) /\ Behind(disk, m) /\ Level(disk, hi, m)
  BY <1>2, <1>3, <1>4, <1>6, PublishedLedger DEF AtWork
<1>8. Len(m.segs) = hi - lo + 1 /\ m.seq = led.seq + 1 /\ IsLed(m)
  BY <1>3, <1>6 DEF OneFrameMore
<1>9. lo <= hi /\ 0 < lo /\ hi \in DOMAIN disk /\ Len(disk[hi]) \in 1..Len(disk[hi])
  BY <1>3 DEF Filed, Ends, IsSeq
<1>10. OnDisk(disk, led.seq + 1)
  BY <1>3, <1>4, <1>9 DEF Ends, OnDisk
<1>11. CASE job.cp = NoMeta
  <2>1. led' = m /\ job' = [job EXCEPT !.ph = "done"] /\ acked' = led.seq + 1
    BY <1>5, <1>11 DEF Sync
  <2>2. Files(disk', lo, hi, unsynced', acked')
    <3>1. PICK b \in Nat : b = led.seq + 1
      BY <1>3
    <3>2. Files(disk, lo, hi, 0, b)
      BY <3>1, <1>2, <1>10, SyncKeepsFiles DEF AtWork
    <3> QED
      BY <3>1, <3>2, <2>1, <1>3
  <2>3. IsJob(job') /\ job'.ph = "done" /\ job'.rec = job.rec
    BY <1>2, <2>1 DEF AtWork, IsJob
  <2>4. Frame(m.seq, job.rec, NoMeta) = FrameOf(led, job)
    BY <1>8, <1>11 DEF FrameOf
  <2>5. Ready(disk', lo, hi, unsynced', led', job')
    BY <2>1, <2>3, <2>4, <1>3, <1>7, <1>8 DEF Ready
  <2> QED
    BY <2>1, <2>2, <2>3, <2>5, <1>6 DEF LedgerInv, Ledger, Ready
<1>12. CASE job.cp # NoMeta
  <2>1. /\ led' = [m EXCEPT !.segs = Dropped(@, Cardinality(job.left))]
        /\ job' = [job EXCEPT !.ph = "delete"] /\ acked' = acked
    BY <1>5, <1>12 DEF Sync
  <2>2. Files(disk', lo, hi, unsynced', acked')
    <3>1. PICK b \in Nat : b = acked
      BY <1>3
    <3>2. Files(disk, lo, hi, 0, b)
      BY <3>1, <1>2, SyncKeepsFiles DEF AtWork
    <3> QED
      BY <3>1, <3>2, <2>1, <1>3
  <2>3. IsJob(job') /\ job'.ph = "delete" /\ job'.cp = job.cp /\ job'.left = job.left
    BY <1>2, <2>1 DEF AtWork, IsJob
  <2>4. PICK x \in Nat : lo <= x /\ x < hi /\ Covers(disk, lo, x, job)
    BY <1>3, <1>12 DEF Retaining
  <2>5. PICK c \in Nat : c = x - lo + 1
    BY <2>4
  <2>6. Cardinality(job.left) = c
    <3>1. job.left = lo..x
      BY <2>4 DEF Covers
    <3>2. Cardinality(lo..x) = IF lo > x THEN 0 ELSE x - lo + 1
      BY FS_Interval
    <3> QED
      BY <3>1, <3>2, <2>4, <2>5
  <2>7. c < Len(m.segs)
    BY <2>4, <2>5, <1>8
  <2>8. IsLed(led') /\ led'.seq = m.seq /\ led'.segs = Dropped(m.segs, c) /\ led'.io = "Ready"
    BY <2>1, <2>6, <1>6, <1>8 DEF IsLed
  <2>9. PICK p : p = led'
    OBVIOUS
  <2>10. /\ IsLedger(p) /\ Lined(p, hi) /\ Behind(disk, p) /\ Level(disk, hi, p)
         /\ Len(p.segs) = Len(m.segs) - c
    <3>1. Fewer(m, c, p)
      BY <2>7, <2>8, <2>9 DEF Fewer
    <3> QED
      BY <3>1, <1>7, DroppedLedger
  <2>11. hi - Len(p.segs) = x
    BY <2>4, <2>5, <2>10, <1>8
  <2>12. Covers(disk', lo, x, job')
    BY <2>3, <2>4, <1>3 DEF Covers
  <2>13. disk[hi][Len(disk[hi])].meta = job.cp
    BY <1>3, <1>12 DEF Ends, FrameOf, Frame
  <2>14. Removing(disk', lo, hi, unsynced', led', job')
    <3>1. \E k \in 1..Len(disk'[hi]) : disk'[hi][k].meta = job'.cp
      BY <2>3, <2>13, <1>3, <1>9
    <3> QED
      BY <3>1, <2>4, <2>9, <2>11, <2>12, <1>3 DEF Removing
  <2>15. Ready(disk', lo, hi, unsynced', led', job')
    BY <2>3, <2>9, <2>10, <2>14, <1>3 DEF Ready
  <2> QED
    BY <2>2, <2>3, <2>8, <2>9, <2>10, <2>15 DEF LedgerInv, Ledger
<1> QED
  BY <1>11, <1>12

(* The oldest of the files that the checkpoint covers is removed; the      *)
(* checkpoint itself is newer than all of them.                            *)
LEMMA DeleteOldestKeeps ==
    ASSUME LedgerInv, DeleteOldest
    PROVE  LedgerInv'
<1>1. job.ph \in Working /\ job.ph = "delete" /\ job.left # {}
  BY DEF DeleteOldest, Working
<1>2. PICK lo \in Nat, hi \in Nat : AtWork(lo, hi)
  BY <1>1, WorkingLedger
<1>3. /\ Filed(disk, lo, hi) /\ Level(disk, hi, led) /\ Removing(disk, lo, hi, unsynced, led, job)
      /\ IsLedger(led) /\ Len(led.segs) \in Nat /\ Len(led.segs) > 0 /\ led.seq \in Nat
  BY <1>1, <1>2 DEF AtWork, Ready, Files, IsLedger
<1>4. PICK x \in Int : x = hi - Len(led.segs)
  <2>1. PICK len \in Nat : len = Len(led.segs)
    BY <1>3
  <2>2. hi - len \in Int
    OBVIOUS
  <2> QED
    BY <2>1, <2>2
<1>5. unsynced = 0 /\ Covers(disk, lo, x, job)
  BY <1>3, <1>4 DEF Removing
<1>6. PICK k \in 1..Len(disk[hi]) : disk[hi][k].meta = job.cp
  BY <1>3 DEF Removing
<1>7. PICK c \in Nat : c = job.cp.last
  BY <1>5 DEF Covers
<1>8. job.left = lo..x /\ lo <= x /\ x \in Nat /\ x < hi
  BY <1>1, <1>3, <1>4, <1>5 DEF Covers
<1>9. Min(job.left) = lo
  BY <1>8, IntervalEnds
<1>10. /\ disk' = Without(disk, lo) /\ job' = [job EXCEPT !.left = @ \ {lo}]
       /\ unsynced' = unsynced /\ led' = led /\ acked' = acked
  BY <1>9 DEF DeleteOldest, Without
<1>11. \A n \in DOMAIN disk : n <= x => \A i \in 1..Len(disk[n]) : disk[n][i].seq <= c
  BY <1>5, <1>7 DEF Covers
<1>12. /\ DOMAIN disk = lo..hi /\ lo \in DOMAIN disk /\ hi \in DOMAIN disk /\ lo < hi
       /\ Len(disk[hi]) \in Nat
  BY <1>3, <1>8 DEF Filed, IsSeq
<1>13. \A i \in 1..Len(disk[lo]) : disk[lo][i].seq <= c
  BY <1>8, <1>11, <1>12
<1>14. Synced(disk, hi, unsynced, hi, k) /\ disk[hi][k].meta.last = c
  BY <1>5, <1>6, <1>7, <1>12 DEF Synced
<1>15. /\ Files(disk', lo + 1, hi, unsynced', acked')
       /\ DOMAIN disk' = lo + 1..hi /\ \A n \in lo + 1..hi : disk'[n] = disk[n]
  <2>1. PICK e : e = disk'
    OBVIOUS
  <2>2. Files(disk, lo, hi, unsynced, acked) /\ e = Without(disk, lo)
    BY <2>1, <1>2, <1>10 DEF AtWork
  <2>3. /\ Files(e, lo + 1, hi, unsynced, acked)
        /\ DOMAIN e = lo + 1..hi /\ \A n \in lo + 1..hi : e[n] = disk[n]
    <3>1. Under(disk[lo], c)
      BY <1>13 DEF Under
    <3>2. Checked(disk, hi, unsynced, c)
      BY <1>14 DEF Checked
    <3> QED
      BY <2>2, <3>1, <3>2, <1>12, RemovalKeepsFiles
  <2> QED
    BY <2>1, <2>3, <1>10
<1>16. \A n \in DOMAIN disk' : n \in DOMAIN disk /\ disk'[n] = disk[n]
  BY <1>12, <1>15
<1>17. /\ IsJob(job') /\ job'.ph = "delete" /\ job'.cp = job.cp /\ job'.left = job.left \ {lo}
  BY <1>1, <1>2, <1>10 DEF AtWork, IsJob
<1>18. job'.left = lo + 1..x
  BY <1>8, <1>17
<1>19. hi \in DOMAIN disk' /\ disk'[hi] = disk[hi]
  BY <1>12, <1>15
<1>20. Covers(disk', lo + 1, x, job')
  <2>1. \A n \in DOMAIN disk' : n <= x => \A i \in 1..Len(disk'[n]) : disk'[n][i].seq <= c
    BY <1>11, <1>16
  <2> QED
    BY <2>1, <1>7, <1>17, <1>18 DEF Covers
<1>21. Removing(disk', lo + 1, hi, unsynced', led', job')
  <2>1. \E i \in 1..Len(disk'[hi]) : disk'[hi][i].meta = job'.cp
    BY <1>6, <1>17, <1>19
  <2>2. lo + 1 <= hi - Len(led.segs) + 1
    <3>1. lo + 1 <= x + 1
      BY <1>8
    <3> QED
      BY <3>1, <1>4
  <2> QED
    BY <2>1, <2>2, <1>4, <1>5, <1>10, <1>20 DEF Removing
<1>22. OnDisk(disk', led.seq) \/ led.seq = 0
  <2>1. SUFFICES ASSUME led.seq # 0 PROVE OnDisk(disk', led.seq)
    OBVIOUS
  <2>2. PICK n \in DOMAIN disk : \E i \in 1..Len(disk[n]) : disk[n][i].seq = led.seq
    BY <2>1, <1>3 DEF Level, OnDisk
  <2>3. PICK i \in 1..Len(disk[n]) : disk[n][i].seq = led.seq
    BY <2>2
  <2>4. disk[hi][k].seq \in Nat /\ c < disk[hi][k].seq /\ disk[hi][k].seq <= led.seq
    <3>1. IsFrame(disk[hi][k])
      BY <1>3, <1>12 DEF Filed
    <3> QED
      BY <3>1, <1>3, <1>12, <1>14 DEF IsFrame, Level
  <2>5. n # lo
    BY <2>3, <2>4, <1>3, <1>13
  <2>6. n \in DOMAIN disk' /\ disk'[n] = disk[n]
    BY <2>5, <1>12, <1>15
  <2> QED
    BY <2>3, <2>6 DEF OnDisk
<1>23. Level(disk', hi, led')
  <2>1. \A n \in DOMAIN disk' : \A i \in 1..Len(disk'[n]) : disk'[n][i].seq <= led.seq
    BY <1>3, <1>16 DEF Level
  <2> QED
    BY <2>1, <1>3, <1>10, <1>19, <1>22 DEF Level
<1>24. Behind(disk', led')
  BY <1>2, <1>10, <1>16 DEF AtWork, Behind
<1>25. IsLedger(led') /\ Lined(led', hi) /\ led'.io = "Ready"
  BY <1>2, <1>10 DEF AtWork
<1>26. Ready(disk', lo + 1, hi, unsynced', led', job')
  BY <1>17, <1>21, <1>23, <1>24, <1>25 DEF Ready
<1>27. Ledger(disk', lo + 1, hi, unsynced', acked', led', job')
  BY <1>15, <1>17, <1>25, <1>26 DEF Ledger
<1>28. lo + 1 \in Nat
  OBVIOUS
<1> QED
  BY <1>27, <1>28 DEF LedgerInv

(* After the last removal the files are the segments in memory again.      *)
LEMMA DeletionEndsKeeps ==
    ASSUME LedgerInv, DeletionEnds
    PROVE  LedgerInv'
<1>1. job.ph \in Working /\ job.ph = "delete" /\ job.left = {}
  BY DEF DeletionEnds, Working
<1>2. PICK lo \in Nat, hi \in Nat : AtWork(lo, hi)
  BY <1>1, WorkingLedger
<1>3. /\ Level(disk, hi, led) /\ Removing(disk, lo, hi, unsynced, led, job)
      /\ IsLedger(led) /\ Len(led.segs) \in Nat
  BY <1>1, <1>2 DEF AtWork, Ready
<1>4. Len(led.segs) = hi - lo + 1
  <2>1. PICK x \in Int : x = hi - Len(led.segs)
    <3>1. PICK len \in Nat : len = Len(led.segs)
      BY <1>3
    <3>2. hi - len \in Int
      OBVIOUS
    <3> QED
      BY <3>1, <3>2
  <2>2. job.left = lo..x /\ lo <= x + 1
    BY <2>1, <1>3 DEF Removing, Covers
  <2>3. lo > x
    BY <2>2, <1>1
  <2> QED
    BY <2>1, <2>2, <2>3, <1>3
<1>5. PICK gen, recs : led' = [led EXCEPT !.recs = recs, !.gen = gen]
  BY DEF DeletionEnds
<1>6. IsLed(led') /\ led'.seq = led.seq /\ led'.segs = led.segs /\ led'.io = "Ready"
  <2>1. IsLed(led) /\ led.io = "Ready"
    BY <1>2 DEF AtWork, IsLedger, IsLed
  <2> QED
    BY <2>1, <1>5 DEF IsLed
<1>7. /\ IsJob(job') /\ job'.ph = "write" /\ job'.cp = NoMeta
      /\ disk' = disk /\ unsynced' = unsynced /\ acked' = acked
  BY <1>2 DEF DeletionEnds, AtWork, IsJob
<1>8. IsLedger(led')
  BY <1>3, <1>6 DEF IsLedger, IsLed
<1>9. Lined(led', hi) /\ Behind(disk', led') /\ Level(disk', hi, led')
  BY <1>2, <1>3, <1>6, <1>7 DEF AtWork, Lined, Behind, Level
<1>10. Ready(disk', lo, hi, unsynced', led', job')
  BY <1>4, <1>6, <1>7, <1>8, <1>9 DEF Ready
<1>11. Ledger(disk', lo, hi, unsynced', acked', led', job')
  BY <1>2, <1>6, <1>7, <1>8, <1>10 DEF Ledger, AtWork
<1> QED
  BY <1>11 DEF LedgerInv

(* Every file operation of an append keeps the invariant.                  *)
LEMMA LedgerStepKeeps ==
    ASSUME LedgerInv, LedgerStep
    PROVE  LedgerInv'
  BY RotateKeeps, RotateFailsKeeps, WriteKeeps, WriteFailsKeeps, SyncKeeps, SyncFailsKeeps,
     DeleteOldestKeeps, DeleteFailsKeeps, DeletionEndsKeeps DEF LedgerStep

-----------------------------------------------------------------------------
(* Starting and settling an append, opening and losing the ledger.         *)

(* An append begins: it is refused, writes, or rotates a file that is full. *)
LEMMA StartAppendKeeps ==
    ASSUME LedgerInv, job.ph = "idle", led.io # "Closed", NEW rec, StartAppend(rec),
           UNCHANGED <<disk, unsynced, acked, led>>
    PROVE  LedgerInv' /\ job'.rec = rec /\ job'.ph \in {"failed", "write", "rotate"}
<1>1. PICK lo \in Nat, hi \in Nat : Ledger(disk, lo, hi, unsynced, acked, led, job)
  BY DEF LedgerInv
<1>2. PICK ph : /\ job' = [IdleJob EXCEPT !.rec = rec, !.ph = ph]
                /\ \/ led.io = "Degraded" /\ ph = "failed"
                   \/ led.io # "Degraded" /\ ph = "write"
                   \/ led.io # "Degraded" /\ ~Fits /\ ph = "rotate"
  <2>1. PICK ph : ph = CASE led.io = "Degraded" -> "failed"
                         [] led.io # "Degraded" /\ Fits -> "write"
                         [] OTHER -> "rotate"
    OBVIOUS
  <2>2. job' = [IdleJob EXCEPT !.rec = rec, !.ph = ph]
    BY <2>1 DEF StartAppend
  <2>3. \/ led.io = "Degraded" /\ ph = "failed"
        \/ led.io # "Degraded" /\ ph = "write"
        \/ led.io # "Degraded" /\ ~Fits /\ ph = "rotate"
    BY <2>1
  <2> QED
    BY <2>2, <2>3
<1>3. IsJob(job') /\ job'.ph = ph /\ job'.rec = rec /\ job'.cp = NoMeta
  BY <1>2 DEF IsJob, IdleJob
<1>4. Files(disk', lo, hi, unsynced', acked') /\ IsLedger(led') /\ led.io \in {"Ready", "Degraded"}
  BY <1>1 DEF Ledger
<1>5. CASE led.io = "Degraded"
  <2>1. ph = "failed" /\ led'.io = "Degraded"
    BY <1>2, <1>5
  <2> QED
    BY <2>1, <1>3, <1>4, FailureKeeps
<1>6. CASE led.io = "Ready"
  <2>1. Ready(disk, lo, hi, unsynced, led, job) /\ (ph = "write" \/ (ph = "rotate" /\ ~Fits))
    BY <1>1, <1>2, <1>6 DEF Ledger
  <2>2. ph = "rotate" => Last(led.segs).n # 0
    BY <2>1 DEF Fits, Current
  <2>3. /\ IsLedger(led) /\ Lined(led, hi) /\ Behind(disk, led) /\ Len(led.segs) = hi - lo + 1
        /\ Level(disk, hi, led)
    BY <2>1 DEF Ready
  <2>4. disk' = disk /\ led' = led /\ unsynced' = unsynced
    OBVIOUS
  <2>5. Ready(disk', lo, hi, unsynced', led', job')
    BY <2>1, <2>2, <2>3, <2>4, <1>3 DEF Ready
  <2>6. Ledger(disk', lo, hi, unsynced', acked', led', job')
    BY <2>4, <2>5, <1>3, <1>4, <1>6 DEF Ledger
  <2> QED
    BY <2>1, <2>6, <1>3 DEF LedgerInv
<1> QED
  BY <1>4, <1>5, <1>6

(* An append that is not between writing and deleting leaves the ledger    *)
(* as it should be when nothing is in progress.                            *)
LEMMA JobSettles ==
    ASSUME LedgerInv, job.ph \notin {"sync", "delete"}, IsJob(job'), job'.ph \in {"idle", "failed"},
           UNCHANGED <<disk, unsynced, acked, led>>
    PROVE  LedgerInv'
<1>1. PICK lo \in Nat, hi \in Nat : Ledger(disk, lo, hi, unsynced, acked, led, job)
  BY DEF LedgerInv
<1>2. disk' = disk /\ led' = led /\ unsynced' = unsynced /\ acked' = acked
  OBVIOUS
<1>3. ASSUME led.io = "Ready" PROVE Ready(disk', lo, hi, unsynced', led', job')
  <2>1. Ready(disk, lo, hi, unsynced, led, job)
    BY <1>1, <1>3 DEF Ledger
  <2>2. /\ IsLedger(led) /\ Lined(led, hi) /\ Behind(disk, led) /\ Len(led.segs) = hi - lo + 1
        /\ Level(disk, hi, led)
    BY <2>1 DEF Ready
  <2> QED
    BY <2>2, <1>2 DEF Ready
<1>4. Ledger(disk', lo, hi, unsynced', acked', led', job')
  BY <1>1, <1>2, <1>3 DEF Ledger, Working
<1> QED
  BY <1>4 DEF LedgerInv

(* A crash loses frames that were not synced, and the process's memory.    *)
LEMMA LostKeeps ==
    ASSUME LedgerInv, LedgerLost
    PROVE  LedgerInv'
<1>1. PICK lo \in Nat, hi \in Nat : Ledger(disk, lo, hi, unsynced, acked, led, job)
  BY DEF LedgerInv
<1>2. Files(disk, lo, hi, unsynced, acked) /\ lo <= hi /\ DOMAIN disk = lo..hi
  BY <1>1 DEF Ledger, Files, Filed
<1>3. Max(DOMAIN disk) = hi
  BY <1>2, IntervalEnds
<1>4. PICK lost \in 0..unsynced : disk' = [disk EXCEPT ![hi] = SubSeq(@, 1, Len(@) - lost)]
  BY <1>3 DEF LedgerLost
<1>5. disk' = Cropped(disk, hi, lost)
  BY <1>4 DEF Cropped
<1>6. Files(disk', lo, hi, unsynced', acked')
  <2>1. PICK e : e = disk'
    OBVIOUS
  <2>2. Files(e, lo, hi, 0, acked)
    BY <2>1, <1>2, <1>5, CrashKeepsFiles
  <2> QED
    BY <2>1, <2>2 DEF LedgerLost
<1>7. led'.io = "Closed" /\ job'.ph = "idle" /\ IsJob(job')
  BY DEF LedgerLost, Closed, IdleJob, IsJob
<1>8. Ledger(disk', lo, hi, unsynced', acked', led', job')
  BY <1>6, <1>7 DEF Ledger, Working
<1> QED
  BY <1>8 DEF LedgerInv

(* A process that ends in order loses only its memory.                     *)
LEMMA CloseKeeps ==
    ASSUME LedgerInv, led' = Closed, job' = IdleJob, UNCHANGED <<disk, unsynced, acked>>
    PROVE  LedgerInv'
<1>1. PICK lo \in Nat, hi \in Nat : Ledger(disk, lo, hi, unsynced, acked, led, job)
  BY DEF LedgerInv
<1>2. Files(disk', lo, hi, unsynced', acked')
  BY <1>1 DEF Ledger
<1>3. led'.io = "Closed" /\ job'.ph = "idle" /\ IsJob(job')
  BY DEF Closed, IdleJob, IsJob
<1>4. Ledger(disk', lo, hi, unsynced', acked', led', job')
  BY <1>2, <1>3 DEF Ledger, Working
<1> QED
  BY <1>4 DEF LedgerInv

(* A described sequence is empty when its length is zero.                  *)
LEMMA NothingIn ==
    ASSUME NEW s, IsSeq(s)
    PROVE  s = <<>> <=> Len(s) = 0
<1> DEFINE S == {s[i] : i \in 1..Len(s)}
<1>1. s \in Seq(S)
  BY IsSeqOver
<1> HIDE DEF S
<1> QED
  BY <1>1, EmptySeq

(* The number of the newest frame that opening the files finds.            *)
LEMMA HeadIs ==
    ASSUME NEW d, NEW lo \in Nat, NEW hi \in Nat, Filed(d, lo, hi)
    PROVE  HeadOf(d) = IF Len(d[hi]) > 0 THEN Last(d[hi]).seq
                       ELSE IF lo < hi THEN Last(d[hi - 1]).seq ELSE 0
<1> DEFINE filled == {n \in DOMAIN d : d[n] # <<>>}
<1>1. HeadOf(d) = IF filled = {} THEN 0 ELSE Last(d[Max(filled)]).seq
  BY DEF HeadOf
<1>2. lo <= hi /\ DOMAIN d = lo..hi /\ \A n \in lo..hi : IsSeq(d[n]) /\ Len(d[n]) \in Nat
  BY DEF Filed, IsSeq
<1>3. \A n \in lo..hi : d[n] = <<>> <=> Len(d[n]) = 0
  BY <1>2, NothingIn
<1>4. \A n \in lo..hi : n < hi => Len(d[n]) > 0
  BY DEF Filed
<1>5. CASE Len(d[hi]) > 0
  <2>1. filled = lo..hi
    BY <1>2, <1>3, <1>4, <1>5
  <2> HIDE DEF filled
  <2>2. Max(filled) = hi /\ filled # {}
    <3>1. Max(lo..hi) = hi
      BY <1>2, IntervalEnds
    <3>2. hi \in lo..hi
      BY <1>2
    <3> QED
      BY <3>1, <3>2, <2>1
  <2> QED
    BY <2>2, <1>1, <1>5
<1>6. CASE ~(Len(d[hi]) > 0) /\ lo < hi
  <2>1. PICK top \in Nat : top = hi - 1 /\ lo <= top
    BY <1>6
  <2>2. hi \in lo..hi /\ Len(d[hi]) = 0
    BY <1>2, <1>6
  <2>3. filled = lo..top
    BY <1>2, <1>3, <1>4, <2>1, <2>2
  <2> HIDE DEF filled
  <2>4. Max(filled) = top /\ filled # {}
    <3>1. Max(lo..top) = top
      BY <2>1, IntervalEnds
    <3>2. top \in lo..top
      BY <2>1
    <3> QED
      BY <3>1, <3>2, <2>3
  <2> QED
    BY <2>1, <2>4, <1>1, <1>6
<1>7. CASE ~(Len(d[hi]) > 0) /\ ~(lo < hi)
  <2>1. lo = hi
    BY <1>2, <1>7
  <2>2. hi \in lo..hi /\ Len(d[hi]) = 0
    BY <1>2, <1>7
  <2>3. filled = {}
    BY <1>2, <1>3, <2>1, <2>2
  <2> QED
    BY <2>3, <1>1, <1>7
<1> QED
  BY <1>5, <1>6, <1>7

(* What opening the files finds in each of them.                           *)
LEMMA SegmentIs ==
    ASSUME NEW d, NEW n, IsSeq(d[n]), \A i \in 1..Len(d[n]) : IsFrame(d[n][i]), n \in Nat
    PROVE  /\ IsSegment(Segment(d, n)) /\ IsSeg(Segment(d, n))
           /\ Segment(d, n).num = n /\ Segment(d, n).n = Len(d[n])
           /\ Len(d[n]) = 0 => Segment(d, n).last = 0
           /\ Len(d[n]) > 0 => Segment(d, n).last = d[n][Len(d[n])].seq
<1>1. Len(d[n]) \in Nat /\ (d[n] = <<>> <=> Len(d[n]) = 0)
  BY NothingIn DEF IsSeq
<1>2. PICK first : first = IF d[n] = <<>> THEN 0 ELSE d[n][1].seq
  OBVIOUS
<1>3. PICK last : last = IF d[n] = <<>> THEN 0 ELSE Last(d[n]).seq
  OBVIOUS
<1>4. Segment(d, n) = [num |-> n, n |-> Len(d[n]), first |-> first, last |-> last]
  BY <1>2, <1>3 DEF Segment
<1>5. first \in Nat
  BY <1>1, <1>2 DEF IsFrame
<1>6. last \in Nat /\ (Len(d[n]) = 0 => last = 0) /\ (Len(d[n]) > 0 => last = d[n][Len(d[n])].seq)
  <2>1. CASE Len(d[n]) = 0
    BY <2>1, <1>1, <1>3
  <2>2. CASE Len(d[n]) > 0
    <3>1. Len(d[n]) \in 1..Len(d[n])
      BY <2>2, <1>1
    <3>2. last = d[n][Len(d[n])].seq
      BY <2>2, <1>1, <1>3 DEF Last
    <3> QED
      BY <2>2, <3>1, <3>2 DEF IsFrame
  <2> QED
    BY <2>1, <2>2, <1>1
<1>7. IsSeg(Segment(d, n)) /\ IsSegment(Segment(d, n))
  BY <1>1, <1>4, <1>5, <1>6 DEF IsSeg, IsSegment
<1> QED
  BY <1>4, <1>6, <1>7

(* The ledger that open returns knows what the files say.                  *)
LEMMA OpenedLedger ==
    ASSUME NEW d, NEW lo \in Nat, NEW hi \in Nat, Filed(d, lo, hi), Ordered(d),
           NEW l, l = Opened(d)
    PROVE  /\ l.io = "Ready" /\ IsLedger(l) /\ Lined(l, hi) /\ Behind(d, l) /\ Level(d, hi, l)
           /\ Len(l.segs) = hi - lo + 1
<1>1. /\ lo <= hi /\ 0 < lo /\ DOMAIN d = lo..hi
      /\ \A n \in lo..hi : IsSeq(d[n]) /\ Len(d[n]) \in Nat /\ \A i \in 1..Len(d[n]) : IsFrame(d[n][i])
      /\ \A n \in lo..hi : n < hi => Len(d[n]) > 0
  BY DEF Filed, IsSeq
<1>2. Min(DOMAIN d) = lo /\ Max(DOMAIN d) = hi
  BY <1>1, IntervalEnds
<1>3. PICK len \in Nat : len = hi - lo + 1
  BY <1>1
<1>4. Numbers(d) = [i \in 1..len |-> lo + i - 1]
  BY <1>2, <1>3 DEF Numbers
<1>5. Len(Numbers(d)) = len
  BY <1>3, <1>4
<1>6. PICK gen, recs : l = [io |-> "Ready", gen |-> gen, seq |-> HeadOf(d),
          segs |-> [i \in 1..Len(Numbers(d)) |-> Segment(d, Numbers(d)[i])], recs |-> recs]
  BY DEF Opened
<1>7. l.segs = [i \in 1..len |-> Segment(d, lo + i - 1)]
  <2>1. \A i \in 1..len : Numbers(d)[i] = lo + i - 1
    BY <1>4
  <2>2. l.segs = [i \in 1..len |-> Segment(d, Numbers(d)[i])]
    BY <1>5, <1>6
  <2> QED
    BY <2>1, <2>2
<1>8. IsLed(l) /\ l.io = "Ready" /\ l.seq = HeadOf(d)
  BY <1>6 DEF IsLed
<1>9. Len(l.segs) = len /\ IsSeq(l.segs)
  <2>1. Len(l.segs) = len
    BY <1>3, <1>7
  <2>2. DOMAIN l.segs = 1..Len(l.segs)
    BY <2>1, <1>7
  <2>3. l.segs = [i \in 1..Len(l.segs) |-> l.segs[i]]
    BY <2>1, <1>7, Zenon
  <2> QED
    BY <2>1, <2>3 DEF IsSeq
<1>10. \A i \in 1..len : lo + i - 1 \in lo..hi /\ l.segs[i] = Segment(d, lo + i - 1)
  BY <1>3, <1>7
<1>11. \A i \in 1..len : /\ IsSegment(l.segs[i]) /\ IsSeg(l.segs[i])
                         /\ l.segs[i].num = lo + i - 1 /\ l.segs[i].n = Len(d[lo + i - 1])
                         /\ Len(d[lo + i - 1]) = 0 => l.segs[i].last = 0
                         /\ Len(d[lo + i - 1]) > 0 => l.segs[i].last = d[lo + i - 1][Len(d[lo + i - 1])].seq
  <2>1. TAKE i \in 1..len
  <2>2. PICK n \in lo..hi : n = lo + i - 1
    BY <1>10
  <2>3. l.segs[i] = Segment(d, n) /\ n \in Nat
    BY <2>2, <1>10
  <2>4. IsSeq(d[n]) /\ \A k \in 1..Len(d[n]) : IsFrame(d[n][k])
    BY <1>1
  <2>5. /\ IsSegment(Segment(d, n)) /\ IsSeg(Segment(d, n))
        /\ Segment(d, n).num = n /\ Segment(d, n).n = Len(d[n])
        /\ Len(d[n]) = 0 => Segment(d, n).last = 0
        /\ Len(d[n]) > 0 => Segment(d, n).last = d[n][Len(d[n])].seq
    BY <2>3, <2>4, SegmentIs
  <2> QED
    BY <2>2, <2>3, <2>5
<1>12. Lined(l, hi)
  <2>1. ASSUME NEW i \in 1..len PROVE l.segs[i].num = hi - len + i
    <3>1. l.segs[i].num = lo + i - 1
      BY <1>11
    <3>2. lo + i - 1 = hi - len + i
      BY <1>3
    <3> QED
      BY <3>1, <3>2
  <2> QED
    BY <2>1, <1>9 DEF Lined
<1>13. \A n \in lo..hi, m \in lo..hi : n <= m /\ Len(d[m]) > 0 =>
           \A k \in 1..Len(d[n]) : d[n][k].seq <= d[m][Len(d[m])].seq
  <2>1. SUFFICES ASSUME NEW n \in lo..hi, NEW m \in lo..hi, n <= m, Len(d[m]) > 0,
                        NEW k \in 1..Len(d[n])
                 PROVE  d[n][k].seq <= d[m][Len(d[m])].seq
    OBVIOUS
  <2>2. Len(d[m]) \in 1..Len(d[m]) /\ IsFrame(d[n][k])
    BY <2>1, <1>1
  <2>3. IsFrame(d[m][Len(d[m])])
    BY <2>2, <1>1
  <2>4. CASE n < m \/ (n = m /\ k < Len(d[m]))
    <3>1. d[n][k].seq < d[m][Len(d[m])].seq
      BY <2>2, <2>4, <1>1 DEF Ordered
    <3> QED
      BY <3>1, <2>2, <2>3 DEF IsFrame
  <2>5. CASE n = m /\ k = Len(d[m])
    BY <2>2, <2>5 DEF IsFrame
  <2> QED
    BY <2>1, <2>2, <2>4, <2>5, <1>1
<1>14. Behind(d, l)
  <2>1. SUFFICES ASSUME NEW i \in 1..len - 1, NEW n \in lo..hi, n <= l.segs[i].num,
                        NEW k \in 1..Len(d[n])
                 PROVE  d[n][k].seq <= l.segs[i].last
    BY <1>1, <1>9 DEF Behind
  <2>2. PICK m \in lo..hi : m = lo + i - 1 /\ m < hi
    BY <1>3
  <2>3. i \in 1..len /\ Len(d[m]) > 0
    BY <2>2, <1>1
  <2>4. l.segs[i].num = m /\ l.segs[i].last = d[m][Len(d[m])].seq
    BY <2>2, <2>3, <1>11
  <2> QED
    BY <2>1, <2>3, <2>4, <1>13
<1>15. l.seq = IF Len(d[hi]) > 0 THEN Last(d[hi]).seq ELSE IF lo < hi THEN Last(d[hi - 1]).seq ELSE 0
  BY <1>8, HeadIs
<1>16. len \in 1..len /\ lo + len - 1 = hi /\ Last(l.segs) = l.segs[len] /\ hi \in lo..hi
  <2>1. len \in 1..len /\ lo + len - 1 = hi /\ hi \in lo..hi
    BY <1>1, <1>3
  <2>2. Last(l.segs) = l.segs[len]
    BY <1>9 DEF Last
  <2> QED
    BY <2>1, <2>2
<1>17. /\ Last(l.segs).n = Len(d[hi])
       /\ Len(d[hi]) > 0 => Last(l.segs).last = d[hi][Len(d[hi])].seq
  BY <1>11, <1>16
<1>18. Level(d, hi, l) /\ l.seq \in Nat
  <2>1. CASE Len(d[hi]) > 0
    <3>1. l.seq = d[hi][Len(d[hi])].seq /\ Len(d[hi]) \in 1..Len(d[hi])
      BY <2>1, <1>1, <1>15, <1>16 DEF Last
    <3>2. \A n \in DOMAIN d : \A i \in 1..Len(d[n]) : d[n][i].seq <= l.seq
      BY <2>1, <3>1, <1>1, <1>13, <1>16
    <3>3. OnDisk(d, l.seq) /\ l.seq \in Nat
      BY <3>1, <1>1, <1>16 DEF OnDisk, IsFrame
    <3> QED
      BY <2>1, <3>1, <3>2, <3>3, <1>17 DEF Level
  <2>2. CASE ~(Len(d[hi]) > 0) /\ lo < hi
    <3>1. PICK m \in lo..hi : m = hi - 1 /\ m < hi
      BY <2>2
    <3>2. l.seq = d[m][Len(d[m])].seq /\ Len(d[m]) > 0 /\ Len(d[m]) \in 1..Len(d[m])
      BY <2>2, <3>1, <1>1, <1>15 DEF Last
    <3>3. Len(d[hi]) = 0
      BY <2>2, <1>1, <1>16
    <3>4. \A n \in DOMAIN d : \A i \in 1..Len(d[n]) : d[n][i].seq <= l.seq
      <4>1. SUFFICES ASSUME NEW n \in lo..hi, NEW i \in 1..Len(d[n]) PROVE d[n][i].seq <= l.seq
        BY <1>1
      <4>2. n # hi
        BY <3>3, <4>1
      <4>3. n <= m
        BY <4>2, <3>1
      <4> QED
        BY <4>3, <3>2, <1>13
    <3>5. OnDisk(d, l.seq) /\ l.seq \in Nat
      BY <3>2, <1>1 DEF OnDisk, IsFrame
    <3> QED
      BY <3>3, <3>4, <3>5, <1>17 DEF Level
  <2>3. CASE ~(Len(d[hi]) > 0) /\ ~(lo < hi)
    <3>1. l.seq = 0 /\ Len(d[hi]) = 0 /\ lo = hi
      BY <2>3, <1>1, <1>15, <1>16
    <3>2. \A n \in DOMAIN d : \A i \in 1..Len(d[n]) : d[n][i].seq <= l.seq
      <4>1. SUFFICES ASSUME NEW n \in lo..hi, NEW i \in 1..Len(d[n]) PROVE FALSE
        BY <1>1
      <4>2. n = hi
        BY <3>1
      <4> QED
        BY <3>1, <4>1, <4>2
    <3> QED
      BY <3>1, <3>2, <1>17 DEF Level
  <2> QED
    BY <2>1, <2>2, <2>3
<1>19. \A i \in 1..len : l.segs[i].last <= l.seq
  <2>1. TAKE i \in 1..len
  <2>2. PICK n \in lo..hi : n = lo + i - 1
    BY <1>10
  <2>3. CASE Len(d[n]) = 0
    BY <2>2, <2>3, <1>11, <1>18
  <2>4. CASE Len(d[n]) > 0
    <3>1. Len(d[n]) \in 1..Len(d[n]) /\ l.segs[i].last = d[n][Len(d[n])].seq
      BY <2>2, <2>4, <1>1, <1>11
    <3> QED
      BY <3>1, <1>1, <1>18 DEF Level
  <2> QED
    BY <2>3, <2>4, <1>1
<1>20. IsLedger(l)
  BY <1>3, <1>8, <1>9, <1>11, <1>16, <1>18, <1>19 DEF IsLedger, IsLed, IsSeg
<1> QED
  BY <1>3, <1>8, <1>9, <1>12, <1>14, <1>18, <1>20

(* Opening the files, with or without a partial frame to cut off.          *)
LEMMA OpenKeeps ==
    ASSUME LedgerInv, Open
    PROVE  LedgerInv' /\ led'.io = "Ready" /\ (~torn => job'.ph = "idle")
<1>1. PICK lo \in Nat, hi \in Nat : Ledger(disk, lo, hi, unsynced, acked, led, job)
  BY DEF LedgerInv
<1>2. Files(disk', lo, hi, unsynced', acked') /\ Filed(disk, lo, hi) /\ Ordered(disk) /\ disk' = disk
  BY <1>1 DEF Ledger, Files, Open
<1>3. PICK l : l = Opened(disk)
  OBVIOUS
<1>4. /\ l.io = "Ready" /\ IsLedger(l) /\ Lined(l, hi) /\ Behind(disk, l) /\ Level(disk, hi, l)
      /\ Len(l.segs) = hi - lo + 1
  BY <1>2, <1>3, OpenedLedger
<1>5. led' = l
  BY <1>3 DEF Open
<1>6. PICK ph : /\ job' = [IdleJob EXCEPT !.ph = ph]
                /\ ph = "idle" \/ (ph = "write" /\ torn)
                   \/ (ph = "rotate" /\ torn /\ ~(Last(l.segs).n < SegmentFrames))
  <2>1. CASE torn
    BY <2>1, <1>3 DEF Open
  <2>2. CASE ~torn
    <3>1. IdleJob = [IdleJob EXCEPT !.ph = "idle"]
      BY DEF IdleJob
    <3> QED
      BY <2>2, <3>1 DEF Open
  <2> QED
    BY <2>1, <2>2
<1>7. IsJob(job') /\ job'.ph = ph /\ job'.cp = NoMeta
  BY <1>6 DEF IsJob, IdleJob
<1>8. ph = "rotate" => Last(l.segs).n # 0
  <2>1. IsSegment(Last(l.segs))
    BY <1>4, CurrentIsNewest
  <2> QED
    BY <2>1, <1>6, BoundsAssumption DEF IsSegment
<1>9. Ready(disk', lo, hi, unsynced', led', job')
  BY <1>2, <1>4, <1>5, <1>6, <1>7, <1>8 DEF Ready
<1>10. Ledger(disk', lo, hi, unsynced', acked', led', job')
  BY <1>2, <1>4, <1>5, <1>7, <1>9 DEF Ledger
<1> QED
  BY <1>4, <1>5, <1>6, <1>7, <1>10 DEF LedgerInv

(* One empty file, and no ledger open.                                     *)
LEMMA LedgerStarts ==
    ASSUME LedgerInit
    PROVE  LedgerInv
<1>1. PICK lo \in Nat, hi \in Nat : lo = 1 /\ hi = 1
  OBVIOUS
<1>2. disk = [n \in {1} |-> <<>>] /\ unsynced = 0 /\ acked = 0 /\ led = Closed /\ job = IdleJob
  BY DEF LedgerInit
<1>3. DOMAIN disk = lo..hi /\ disk = [n \in lo..hi |-> disk[n]] /\ \A n \in lo..hi : disk[n] = <<>>
  <2>1. lo..hi = {1}
    BY <1>1
  <2> QED
    BY <2>1, <1>2
<1>4. \A n \in lo..hi : IsSeq(disk[n]) /\ Len(disk[n]) = 0
  <2>1. PICK none : none = <<>>
    OBVIOUS
  <2>2. none \in Seq({}) /\ Len(none) = 0
    BY <2>1
  <2>3. IsSeq(none)
    BY <2>2, SeqIsSeq
  <2> QED
    BY <2>1, <2>2, <2>3, <1>3
<1>5. Filed(disk, lo, hi)
  BY <1>1, <1>3, <1>4 DEF Filed
<1>6. Ordered(disk) /\ Chain(disk, hi, unsynced) /\ Safe(disk, hi, unsynced, acked)
  BY <1>2, <1>3, <1>4 DEF Ordered, Chain, Safe
<1>7. Files(disk, lo, hi, unsynced, acked)
  BY <1>2, <1>5, <1>6 DEF Files
<1>8. led.io = "Closed" /\ job.ph = "idle" /\ IsJob(job)
  BY <1>2 DEF Closed, IdleJob, IsJob
<1>9. Ledger(disk, lo, hi, unsynced, acked, led, job)
  BY <1>7, <1>8 DEF Ledger, Working
<1> QED
  BY <1>9 DEF LedgerInv

-----------------------------------------------------------------------------
(* The process and its requests.                                           *)

(* What concerns only the repository and the snapshots leaves the ledger.  *)
LEMMA LedgerLeft ==
    ASSUME LedgerInv, UNCHANGED <<disk, unsynced, acked, led, job>>
    PROVE  LedgerInv'
<1>1. PICK lo \in Nat, hi \in Nat : Ledger(disk, lo, hi, unsynced, acked, led, job)
  BY DEF LedgerInv
<1>2. Ledger(disk', lo, hi, unsynced', acked', led', job')
  BY <1>1
<1> QED
  BY <1>2 DEF LedgerInv

(* A file operation goes on with the append that is in progress.           *)
LEMMA LedgerStepIs ==
    ASSUME LedgerInv, LedgerStep
    PROVE  /\ job.ph \in {"rotate", "write", "sync", "delete"} /\ led.io = "Ready"
           /\ led'.io \in {"Ready", "Degraded"} /\ job'.rec = job.rec
<1>1. job.ph \in {"rotate", "write", "sync", "delete"} /\ job.ph \in Working
  BY DEF LedgerStep, Rotate, RotateFails, Write, WriteFails, Sync, SyncFails, DeleteOldest,
         DeleteFails, DeletionEnds, Working
<1>2. PICK lo \in Nat, hi \in Nat : AtWork(lo, hi)
  BY <1>1, WorkingLedger
<1>3. led.io = "Ready" /\ IsJob(job) /\ IsLed(led)
  BY <1>2 DEF AtWork, IsLedger, IsLed
<1>4. job'.rec = job.rec
  <2>1. \/ \E ph : job' = [job EXCEPT !.ph = ph]
        \/ \E ph, cp : job' = [job EXCEPT !.ph = ph, !.cp = cp]
        \/ \E ph, cp, left : job' = [job EXCEPT !.ph = ph, !.cp = cp, !.left = left]
        \/ \E left : job' = [job EXCEPT !.left = left]
    <3>1. CASE Rotate
      <4> DEFINE segs == Append(led.segs, NewSegment)
                 k == RemoveCount(segs)
      <4>1. \/ job' = [job EXCEPT !.ph = "failed"]
            \/ job' = [job EXCEPT !.ph = "write",
                          !.cp = [first |-> segs[1].first, last |-> segs[k].last],
                          !.left = {segs[i].num : i \in 1..k}]
            \/ job' = [job EXCEPT !.ph = "write"]
        BY <3>1, Zenon DEF Rotate
      <4>2. PICK cp, left : cp = [first |-> segs[1].first, last |-> segs[k].last]
                            /\ left = {segs[i].num : i \in 1..k}
        OBVIOUS
      <4> HIDE DEF segs, k
      <4>3. \/ job' = [job EXCEPT !.ph = "failed"]
            \/ job' = [job EXCEPT !.ph = "write", !.cp = cp, !.left = left]
            \/ job' = [job EXCEPT !.ph = "write"]
        BY <4>1, <4>2
      <4> QED
        BY <4>3, Zenon
    <3>2. CASE Write
      BY <3>2, Zenon DEF Write
    <3>3. CASE Sync
      BY <3>3, Zenon DEF Sync
    <3>4. CASE RotateFails \/ WriteFails \/ SyncFails \/ DeleteFails
      BY <3>4, Zenon DEF RotateFails, WriteFails, SyncFails, DeleteFails, Fail
    <3>5. CASE DeleteOldest
      <4>1. job' = [job EXCEPT !.left = @ \ {Min(job.left)}]
        BY <3>5 DEF DeleteOldest
      <4> QED
        BY <4>1, Zenon
    <3>6. CASE DeletionEnds
      BY <3>6, Zenon DEF DeletionEnds
    <3> QED
      BY <3>1, <3>2, <3>3, <3>4, <3>5, <3>6 DEF LedgerStep
  <2> QED
    BY <2>1, <1>3 DEF IsJob
<1>5. led'.io \in {"Ready", "Degraded"}
  <2>1. Published.io = "Ready" /\ IsLed(Published)
    BY <1>2, <1>3, PublishedIs DEF OneFrameMore
  <2>2. \/ \E segs : led' = [led EXCEPT !.segs = segs]
        \/ \E segs : led' = [led EXCEPT !.segs = segs, !.io = "Degraded"]
        \/ led' = [led EXCEPT !.io = "Degraded"]
        \/ led' = led
        \/ led' = Published
        \/ \E segs : led' = [Published EXCEPT !.segs = segs]
        \/ \E recs, gen : led' = [led EXCEPT !.recs = recs, !.gen = gen]
    BY Zenon DEF LedgerStep, Rotate, RotateFails, Write, WriteFails, Sync, SyncFails, DeleteOldest,
                 DeleteFails, DeletionEnds, Fail
  <2> QED
    BY <2>1, <2>2, <1>3 DEF IsLed
<1> QED
  BY <1>1, <1>3, <1>4, <1>5

IsReq(r) == r = [ph |-> r.ph, op |-> r.op, what |-> r.what, id |-> r.id, to |-> r.to,
                 head |-> r.head, restart |-> r.restart, out |-> r.out]

(* A process that ended holds no ledger and no request.                    *)
LEMMA ExitedKeeps ==
    ASSUME Exited, led' = Closed
    PROVE  PlaneInv'
  BY DEF Exited, PlaneInv, Closed, NoReq

(* A process that ended in order.                                          *)
LEMMA ExitKeeps ==
    ASSUME LedgerInv, Exit
    PROVE  ControlInv'
<1>1. led' = Closed /\ job' = IdleJob /\ UNCHANGED <<disk, unsynced, acked>> /\ Exited
  BY DEF Exit, LedgerClose
<1> QED
  BY <1>1, CloseKeeps, ExitedKeeps DEF ControlInv

(* A request whose record is being appended or whose append has ended.     *)
LEMMA RequestKeeps ==
    ASSUME PlaneInv, pc' = pc, led'.io = led.io, pc = "serving", IsReq(req'),
           req'.ph \notin {"effect", "saved", "commit"},
           req'.ph = "intent" => job'.rec = IntentOf(req')
    PROVE  PlaneInv'
<1>1. led'.io # "Closed" /\ pc' = "serving"
  BY DEF PlaneInv
<1> QED
  BY <1>1 DEF PlaneInv, IsReq, IntentOf

(* A request that goes on to its next phase under the same intent.         *)
LEMMA EffectKeeps ==
    ASSUME PlaneInv, UNCHANGED <<pc, led, job, disk, unsynced>>, IsReq(req'),
           req.ph \in {"effect", "saved", "commit"}, req'.ph \in {"effect", "saved", "commit"},
           req'.op = req.op, req'.head = req.head
    PROVE  PlaneInv'
<1>1. pc = "serving" /\ led.io # "Closed" /\ job.ph = "idle" /\ unsynced = 0
  BY DEF PlaneInv
<1>2. PICK hi \in DOMAIN disk : /\ \A n \in DOMAIN disk : n <= hi
                               /\ Ends(disk, hi, Frame(req.head, IntentOf(req), NoMeta))
  BY DEF PlaneInv
<1>3. IntentOf(req') = IntentOf(req)
  BY DEF IntentOf
<1>4. /\ hi \in DOMAIN disk' /\ \A n \in DOMAIN disk' : n <= hi
      /\ Ends(disk', hi, Frame(req'.head, IntentOf(req'), NoMeta))
  BY <1>2, <1>3
<1>5. \E top \in DOMAIN disk' :
          /\ \A n \in DOMAIN disk' : n <= top
          /\ Ends(disk', top, Frame(req'.head, IntentOf(req'), NoMeta))
  BY <1>4
<1> QED
  BY <1>1, <1>5 DEF PlaneInv, IsReq, IntentOf

(* complete_audit_operation begins the terminal record, or gives up.       *)
LEMMA CompleteKeeps ==
    ASSUME ControlInv, NEW out, Complete(out), req.ph \in {"effect", "saved", "commit"},
           UNCHANGED <<disk, unsynced, acked, led, pc>>
    PROVE  ControlInv'
<1>1. /\ LedgerInv /\ PlaneInv /\ pc = "serving" /\ led.io # "Closed" /\ job.ph = "idle"
      /\ IsReq(req)
  BY DEF ControlInv, PlaneInv, IsReq
<1>2. IsReq(req') /\ req'.ph = "terminal"
  BY <1>1 DEF Complete, IsReq
<1>3. PlaneInv'
  BY <1>1, <1>2, RequestKeeps
<1>4. LedgerInv'
  <2>1. CASE req.head = led.seq
    <3>1. PICK rec : StartAppend(rec)
      BY <2>1 DEF Complete
    <3> QED
      BY <3>1, <1>1, StartAppendKeeps
  <2>2. CASE req.head # led.seq
    <3>1. IsJob(job') /\ job'.ph = "failed"
      BY <2>2 DEF Complete, IsJob, IdleJob
    <3> QED
      BY <3>1, <1>1, JobSettles
  <2> QED
    BY <2>1, <2>2
<1> QED
  BY <1>3, <1>4 DEF ControlInv

(* The phases of the process.                                              *)
LEMMA ProcessKeeps ==
    ASSUME ControlInv,
           \/ Crash \/ Stop \/ StartRefused \/ Start \/ RecoveryEnds
           \/ InitializeAuditLedger \/ ReconciliationEnds
           \/ ResolveCurrent \/ SaveSeed \/ ResolutionFails \/ SeedMadeCurrent \/ SeedFails
    PROVE  ControlInv'
<1>1. LedgerInv /\ PlaneInv /\ IsReq(req)
  BY DEF ControlInv, PlaneInv, IsReq
<1>2. CASE Crash
  BY <1>1, <1>2, LostKeeps, ExitedKeeps DEF Crash, LedgerLost, ControlInv
<1>3. CASE Stop \/ ReconciliationEnds \/ ResolutionFails
  BY <1>1, <1>3, ExitKeeps DEF Stop, ReconciliationEnds, ResolutionFails
<1>4. CASE StartRefused
  <2>1. UNCHANGED <<disk, unsynced, acked, led, job>> /\ UNCHANGED <<pc, req>>
    BY <1>4 DEF StartRefused, vars, ledgerVars, planeVars
  <2>2. LedgerInv'
    BY <2>1, <1>1, LedgerLeft
  <2>3. PlaneInv'
    BY <2>1, <1>1 DEF PlaneInv, IntentOf
  <2> QED
    BY <2>2, <2>3 DEF ControlInv
<1>5. CASE Start
  <2>1. pc = "down" /\ Open /\ req' = req /\ pc' = IF torn THEN "recovering" ELSE "verifying"
    BY <1>5 DEF Start
  <2>2. LedgerInv' /\ led'.io = "Ready" /\ (~torn => job'.ph = "idle")
    BY <2>1, <1>1, OpenKeeps
  <2>3. req.ph = "idle"
    BY <2>1, <1>1 DEF PlaneInv
  <2>4. PlaneInv'
    BY <2>1, <2>2, <2>3, <1>1 DEF PlaneInv, IsReq
  <2> QED
    BY <2>2, <2>4 DEF ControlInv
<1>6. CASE RecoveryEnds
  <2>1. CASE Exit
    BY <2>1, <1>1, ExitKeeps
  <2>2. CASE ~Exit
    <3>1. /\ pc = "recovering" /\ job.ph = "done" /\ pc' = "verifying" /\ job' = IdleJob
          /\ UNCHANGED <<disk, unsynced, acked, led>> /\ req' = req
      BY <2>2, <1>6 DEF RecoveryEnds
    <3>2. IsJob(job') /\ job'.ph = "idle"
      BY <3>1 DEF IsJob, IdleJob
    <3>3. LedgerInv'
      BY <3>1, <3>2, <1>1, JobSettles
    <3>4. req.ph = "idle" /\ led.io # "Closed"
      BY <3>1, <1>1 DEF PlaneInv
    <3>5. PlaneInv'
      BY <3>1, <3>2, <3>4, <1>1 DEF PlaneInv, IsReq
    <3> QED
      BY <3>3, <3>5 DEF ControlInv
  <2> QED
    BY <2>1, <2>2
<1>7. CASE InitializeAuditLedger
  <2>1. CASE Exit
    BY <2>1, <1>1, ExitKeeps
  <2>2. CASE ~Exit
    <3>1. /\ pc = "verifying" /\ UNCHANGED <<disk, unsynced, acked, led>> /\ req' = req
          /\ \/ (\E rec : StartAppend(rec)) /\ pc' = "reconciling"
             \/ job' = job /\ pc' = "resolving"
      BY <2>2, <1>7 DEF InitializeAuditLedger
    <3>2. req.ph = "idle" /\ led.io # "Closed" /\ job.ph = "idle"
      BY <3>1, <1>1 DEF PlaneInv
    <3>3. CASE job' = job /\ pc' = "resolving"
      <4>1. LedgerInv'
        BY <3>1, <3>3, <1>1, LedgerLeft
      <4>2. PlaneInv'
        BY <3>1, <3>2, <3>3, <1>1 DEF PlaneInv, IsReq
      <4> QED
        BY <4>1, <4>2 DEF ControlInv
    <3>4. CASE (\E rec : StartAppend(rec)) /\ pc' = "reconciling"
      <4>1. LedgerInv'
        BY <3>1, <3>2, <3>4, <1>1, StartAppendKeeps
      <4>2. PlaneInv'
        BY <3>1, <3>2, <3>4, <1>1 DEF PlaneInv, IsReq
      <4> QED
        BY <4>1, <4>2 DEF ControlInv
    <3> QED
      BY <3>1, <3>3, <3>4
  <2> QED
    BY <2>1, <2>2
<1>8. CASE ResolveCurrent \/ SaveSeed \/ SeedMadeCurrent
  <2>1. /\ UNCHANGED <<disk, unsynced, acked, led, job>> /\ req' = req
        /\ pc \in {"resolving", "seeding"} /\ pc' \in {"seeding", "serving"}
    BY <1>8 DEF ResolveCurrent, SaveSeed, SeedMadeCurrent, Serve, ledgerVars
  <2>2. LedgerInv'
    BY <2>1, <1>1, LedgerLeft
  <2>3. req.ph = "idle" /\ led.io # "Closed" /\ job.ph = "idle"
    BY <2>1, <1>1 DEF PlaneInv
  <2>4. PlaneInv'
    BY <2>1, <2>3, <1>1 DEF PlaneInv, IsReq
  <2> QED
    BY <2>2, <2>4 DEF ControlInv
<1>9. CASE SeedFails
  <2>1. led' = Closed /\ job' = IdleJob /\ UNCHANGED <<disk, unsynced, acked>> /\ Exited
    BY <1>9 DEF SeedFails
  <2> QED
    BY <2>1, <1>1, CloseKeeps, ExitedKeeps DEF ControlInv
<1> QED
  BY <1>2, <1>3, <1>4, <1>5, <1>6, <1>7, <1>8, <1>9

(* A request begins to append its record.                                  *)
LEMMA BeginningKeeps ==
    ASSUME ControlInv, BeginRequest \/ Observe
    PROVE  ControlInv'
<1>1. PICK rec : /\ Idle /\ StartAppend(rec) /\ UNCHANGED <<disk, unsynced, acked, led, pc>>
                 /\ \/ /\ rec = Record("Intent", req'.op, "", <<>>)
                       /\ IsReq(req') /\ req'.ph = "intent"
                    \/ IsReq(req') /\ req'.ph = "observation"
  <2>1. CASE Observe
    <3>1. IsReq(req') /\ req'.ph = "observation"
      BY <2>1 DEF Observe, IsReq, NoReq
    <3> QED
      BY <2>1, <3>1 DEF Observe
  <2>2. CASE BeginRequest
    <3>1. PICK op, what, id, to : Begin(op, what, id, to)
      BY <2>2, Zenon DEF BeginRequest, ApplyConfigSource, CreateProxyHost, UpdateProxyHost,
                         DeleteProxyHost, Rollback
    <3>2. IsReq(req') /\ req'.ph = "intent" /\ req'.op = op
      BY <3>1 DEF Begin, IsReq, NoReq
    <3>3. /\ Idle /\ StartAppend(Record("Intent", op, "", <<>>))
          /\ UNCHANGED <<disk, unsynced, acked, led, pc>>
      BY <3>1 DEF Begin
    <3> QED
      BY <3>2, <3>3
  <2> QED
    BY <2>1, <2>2
<1>2. LedgerInv /\ PlaneInv /\ pc = "serving" /\ led.io # "Closed" /\ job.ph = "idle"
  BY <1>1 DEF ControlInv, PlaneInv, Idle
<1>3. LedgerInv' /\ job'.rec = rec
  BY <1>1, <1>2, StartAppendKeeps
<1>4. PlaneInv'
  <2>1. IsReq(req') /\ req'.ph \notin {"effect", "saved", "commit"} /\ led'.io = led.io /\ pc' = pc
    BY <1>1
  <2>2. req'.ph = "intent" => job'.rec = IntentOf(req')
    BY <1>1, <1>3 DEF IntentOf
  <2> QED
    BY <2>1, <2>2, <1>2, RequestKeeps
<1> QED
  BY <1>3, <1>4 DEF ControlInv

(* The intent is durable, and nothing was written after it.                *)
LEMMA IntentEndsKeeps ==
    ASSUME ControlInv, IntentEnds
    PROVE  ControlInv'
<1>1. /\ req.ph = "intent" /\ job.ph \in {"done", "failed"} /\ job' = IdleJob
      /\ UNCHANGED <<disk, unsynced, acked, led, pc>>
  BY DEF IntentEnds
<1>2. /\ LedgerInv /\ PlaneInv /\ IsReq(req) /\ pc = "serving" /\ led.io # "Closed"
      /\ job.rec = IntentOf(req)
  BY <1>1 DEF ControlInv, PlaneInv, IsReq
<1>3. IsJob(job') /\ job'.ph = "idle"
  BY <1>1 DEF IsJob, IdleJob
<1>4. LedgerInv'
  BY <1>1, <1>2, <1>3, JobSettles
<1>5. PlaneInv'
  <2>1. CASE job.ph = "failed"
    <3>1. IsReq(req') /\ req'.ph = "idle"
      BY <2>1 DEF IntentEnds, IsReq, NoReq
    <3> QED
      BY <3>1, <1>1, <1>2, RequestKeeps
  <2>2. CASE job.ph = "done"
    <3>1. req' = [req EXCEPT !.ph = "effect", !.head = led.seq]
      BY <2>2 DEF IntentEnds
    <3>2. IsReq(req') /\ req'.ph = "effect" /\ req'.head = led.seq /\ req'.op = req.op
      BY <3>1, <1>2 DEF IsReq
    <3>3. PICK lo \in Nat, hi \in Nat : AtWork(lo, hi)
      BY <2>2, <1>2, WorkingLedger DEF Working
    <3>4. unsynced = 0 /\ Ends(disk, hi, Frame(led.seq, job.rec, NoMeta)) /\ Filed(disk, lo, hi)
      BY <2>2, <3>3 DEF AtWork, Ready, Files
    <3>5. IntentOf(req') = job.rec
      BY <3>2, <1>2 DEF IntentOf
    <3>6. hi \in DOMAIN disk /\ \A n \in DOMAIN disk : n <= hi
      BY <3>4 DEF Filed
    <3>7. /\ hi \in DOMAIN disk' /\ \A n \in DOMAIN disk' : n <= hi
          /\ Ends(disk', hi, Frame(req'.head, IntentOf(req'), NoMeta))
      BY <3>2, <3>4, <3>5, <3>6, <1>1
    <3>8. \E top \in DOMAIN disk' :
              /\ \A n \in DOMAIN disk' : n <= top
              /\ Ends(disk', top, Frame(req'.head, IntentOf(req'), NoMeta))
      BY <3>7
    <3>9. pc' = "serving" /\ led'.io # "Closed" /\ unsynced' = 0
      BY <3>4, <1>1, <1>2
    <3> QED
      BY <3>2, <3>8, <3>9, <1>3 DEF PlaneInv, IsReq
  <2> QED
    BY <2>1, <2>2, <1>1
<1> QED
  BY <1>4, <1>5 DEF ControlInv

(* The effect of a mutation, step by step.                                 *)
LEMMA EffectStepsKeep ==
    ASSUME ControlInv,
           EffectRefused \/ SaveRevision \/ SaveFails \/ CoreAnswers \/ SetCurrent \/ SetCurrentFails
    PROVE  ControlInv'
<1>1. LedgerInv /\ PlaneInv /\ IsReq(req)
  BY DEF ControlInv, PlaneInv, IsReq
<1>2. ASSUME NEW out, Complete(out), req.ph \in {"effect", "saved", "commit"},
             UNCHANGED <<disk, unsynced, acked, led, pc>>
      PROVE  ControlInv'
  BY <1>2, CompleteKeeps
<1>3. CASE EffectRefused \/ SaveFails
  BY <1>2, <1>3 DEF EffectRefused, SaveFails
<1>4. CASE SetCurrent \/ SetCurrentFails
  BY <1>2, <1>4 DEF SetCurrent, SetCurrentFails
<1>5. ASSUME NEW ph \in {"saved", "commit"}, NEW restart,
             req' = [req EXCEPT !.ph = ph, !.restart = restart],
             req.ph \in {"effect", "saved", "commit"},
             UNCHANGED <<disk, unsynced, acked, led, job, pc>>
      PROVE  ControlInv'
  <2>1. IsReq(req') /\ req'.ph = ph /\ req'.op = req.op /\ req'.head = req.head
    BY <1>1, <1>5 DEF IsReq
  <2>2. PlaneInv'
    BY <2>1, <1>1, <1>5, EffectKeeps
  <2>3. LedgerInv'
    BY <1>1, <1>5, LedgerLeft
  <2> QED
    BY <2>2, <2>3 DEF ControlInv
<1>6. CASE SaveRevision
  <2>1. PICK restart : req' = [req EXCEPT !.ph = "saved", !.restart = restart]
    BY <1>6 DEF SaveRevision
  <2>2. req.ph = "effect" /\ UNCHANGED <<disk, unsynced, acked, led, job, pc>>
    BY <1>6 DEF SaveRevision, ledgerVars
  <2> QED
    BY <2>1, <2>2, <1>5
<1>7. CASE CoreAnswers
  <2>1. req.ph = "saved" /\ UNCHANGED <<disk, unsynced, acked, led, pc>>
    BY <1>7 DEF CoreAnswers
  <2>2. CASE Complete("Failed")
    BY <2>1, <2>2, <1>2
  <2>3. CASE req' = [req EXCEPT !.ph = "commit"] /\ job' = job
    <3>1. PICK restart : restart = req.restart
      OBVIOUS
    <3>2. req' = [req EXCEPT !.ph = "commit", !.restart = restart]
      BY <2>3, <3>1, <1>1 DEF IsReq
    <3> QED
      BY <2>1, <2>3, <3>2, <1>5
  <2> QED
    BY <2>2, <2>3, <1>7 DEF CoreAnswers
<1> QED
  BY <1>3, <1>4, <1>6, <1>7

(* A request is answered once its record was written or refused.           *)
LEMMA AnswersKeep ==
    ASSUME ControlInv, TerminalEnds \/ ObservationEnds
    PROVE  ControlInv'
<1>1. /\ req.ph \in {"terminal", "observation"} /\ job.ph \in {"done", "failed"}
      /\ req' = NoReq /\ job' = IdleJob /\ UNCHANGED <<disk, unsynced, acked, led, pc>>
  BY DEF TerminalEnds, ObservationEnds
<1>2. LedgerInv /\ PlaneInv /\ pc = "serving"
  BY <1>1 DEF ControlInv, PlaneInv
<1>3. IsJob(job') /\ job'.ph = "idle" /\ IsReq(req') /\ req'.ph = "idle"
  BY <1>1 DEF IsJob, IdleJob, IsReq, NoReq
<1>4. LedgerInv'
  BY <1>1, <1>2, <1>3, JobSettles
<1>5. PlaneInv'
  BY <1>1, <1>2, <1>3, RequestKeeps
<1> QED
  BY <1>4, <1>5 DEF ControlInv

(* A file operation of the append in progress.                             *)
LEMMA FileStepKeeps ==
    ASSUME ControlInv, LedgerStep, UNCHANGED planeVars
    PROVE  ControlInv'
<1>1. LedgerInv /\ PlaneInv /\ pc' = pc /\ req' = req
  BY DEF ControlInv, planeVars
<1>2. /\ job.ph \in {"rotate", "write", "sync", "delete"} /\ led.io = "Ready"
      /\ led'.io \in {"Ready", "Degraded"} /\ job'.rec = job.rec
  BY <1>1, LedgerStepIs
<1>3. LedgerInv'
  BY <1>1, LedgerStepKeeps
<1>4. /\ pc # "down" /\ pc \notin {"verifying", "resolving", "seeding"}
      /\ req.ph \notin {"effect", "saved", "commit"}
  BY <1>1, <1>2 DEF PlaneInv
<1>5. PlaneInv'
  BY <1>1, <1>2, <1>4 DEF PlaneInv, IntentOf
<1> QED
  BY <1>3, <1>5 DEF ControlInv

-----------------------------------------------------------------------------
(* The theorems.                                                           *)

(* The inductive invariant, preserved by every step.                       *)
LEMMA ControlStep ==
    ASSUME ControlInv, [Next]_vars
    PROVE  ControlInv'
<1>1. CASE \/ Crash \/ Stop \/ StartRefused \/ Start \/ RecoveryEnds
           \/ InitializeAuditLedger \/ ReconciliationEnds
           \/ ResolveCurrent \/ SaveSeed \/ ResolutionFails \/ SeedMadeCurrent \/ SeedFails
  BY <1>1, ProcessKeeps
<1>2. CASE BeginRequest \/ Observe
  BY <1>2, BeginningKeeps
<1>3. CASE IntentEnds
  BY <1>3, IntentEndsKeeps
<1>4. CASE EffectRefused \/ SaveRevision \/ SaveFails \/ CoreAnswers \/ SetCurrent \/ SetCurrentFails
  BY <1>4, EffectStepsKeep
<1>5. CASE TerminalEnds \/ ObservationEnds
  BY <1>5, AnswersKeep
<1>6. CASE LedgerStep /\ UNCHANGED planeVars
  BY <1>6, FileStepKeeps
<1>7. CASE UNCHANGED vars
  <2>1. UNCHANGED <<disk, unsynced, acked, led, job>> /\ UNCHANGED <<pc, req>>
    BY <1>7 DEF vars, ledgerVars, planeVars
  <2>2. LedgerInv'
    BY <2>1, LedgerLeft DEF ControlInv
  <2>3. PlaneInv'
    BY <2>1 DEF ControlInv, PlaneInv, IntentOf
  <2> QED
    BY <2>2, <2>3 DEF ControlInv
<1> QED
  BY <1>1, <1>2, <1>3, <1>4, <1>5, <1>6, <1>7 DEF Next

(* At every moment the audit ledger's files are a chain that only the      *)
(* newest frames can be cut from, the ledger in memory and the append in   *)
(* progress agree with them, and an operation whose effect has begun has   *)
(* its intent as the newest durable frame.                                 *)
THEOREM ControlInvariant == Spec => []ControlInv
<1>1. ASSUME Init PROVE ControlInv
  <2>1. LedgerInv
    BY <1>1, LedgerStarts DEF Init
  <2>2. PlaneInv
    BY <1>1 DEF Init, LedgerInit, PlaneInv, NoReq, Closed
  <2> QED
    BY <2>1, <2>2 DEF ControlInv
<1> QED
  BY <1>1, ControlStep, PTL DEF Spec

(* A record whose append was acknowledged is in the files, or a checkpoint *)
(* in the files says that it was pruned.                                   *)
LEMMA FilesKeepAcknowledged ==
    ASSUME LedgerInv
    PROVE  AcknowledgedIsKept
<1>1. PICK lo \in Nat, hi \in Nat : Ledger(disk, lo, hi, unsynced, acked, led, job)
  BY DEF LedgerInv
<1>2. Safe(disk, hi, unsynced, acked)
  BY <1>1 DEF Ledger, Files
<1>3. SUFFICES ASSUME NEW s \in 1..acked
               PROVE  \E n \in DOMAIN disk : \E i \in 1..Len(disk[n]) :
                          disk[n][i].seq = s \/ s <= disk[n][i].meta.last
  BY DEF AcknowledgedIsKept
<1> QED
  BY <1>2 DEF Safe, Durable, Gone

(* No crash, failed write, rotation, retention or recovery loses a record  *)
(* of the audit ledger whose append was acknowledged, whatever the bounds  *)
(* of the files and however often the process fails and restarts.          *)
THEOREM AcknowledgedStaysKept == Spec => []AcknowledgedIsKept
<1>1. ControlInv => AcknowledgedIsKept
  BY FilesKeepAcknowledged DEF ControlInv
<1> QED
  BY <1>1, ControlInvariant, PTL

(* What the invariant says of an operation whose effect has begun.         *)
LEMMA EffectHasIntent ==
    ASSUME ControlInv, req.ph \in {"effect", "saved", "commit"}
    PROVE  IntentIsDurable
<1>1. unsynced = 0
  BY DEF ControlInv, PlaneInv
<1>2. PICK hi \in DOMAIN disk : /\ \A n \in DOMAIN disk : n <= hi
                               /\ Ends(disk, hi, Frame(req.head, IntentOf(req), NoMeta))
  BY DEF ControlInv, PlaneInv
<1>3. PICK lo \in Nat, top \in Nat : Filed(disk, lo, top)
  BY DEF ControlInv, LedgerInv, Ledger, Files
<1>4. /\ DOMAIN disk = lo..top /\ hi \in Nat
      /\ \A n \in lo..top : Len(disk[n]) \in Nat
  BY <1>2, <1>3 DEF Filed, IsSeq
<1>5. PICK i \in 1..Len(disk[hi]) :
          i = Len(disk[hi]) /\ disk[hi][i] = Frame(req.head, IntentOf(req), NoMeta)
  BY <1>2, <1>4 DEF Ends
<1>6. disk[hi][i].seq = req.head /\ disk[hi][i].rec.kind = "Intent" /\ disk[hi][i].rec.op = req.op
  <2>1. PICK f : f = disk[hi][i]
    OBVIOUS
  <2>2. f.seq = req.head /\ f.rec = IntentOf(req)
    BY <2>1, <1>5 DEF Frame
  <2>3. PICK op, r, none, no : op = req.op /\ r = f.rec /\ none = <<>> /\ no = ""
    OBVIOUS
  <2>4. r = [kind |-> "Intent", op |-> op, out |-> no, after |-> none]
    BY <2>2, <2>3 DEF IntentOf, Record
  <2>5. r.kind = "Intent" /\ r.op = op
    BY <2>4
  <2> QED
    BY <2>1, <2>2, <2>3, <2>5
<1>7. \A m \in DOMAIN disk : \A j \in 1..Len(disk[m]) : ~(m > hi \/ (m = hi /\ j > i))
  BY <1>2, <1>4, <1>5
<1> QED
  BY <1>1, <1>6, <1>7 DEF IntentIsDurable

(* The repository and the event loop change, while the process serves,     *)
(* only in these three steps of a mutation.                                *)
LEMMA EffectSteps ==
    ASSUME [Next]_vars, revs' # revs \/ cur' # cur \/ core' # core, pc = "serving", pc' = "serving"
    PROVE  SaveRevision \/ CoreAnswers \/ SetCurrent
<1>1. Next
  BY DEF vars, planeVars
<1>2. ~Exited
  BY DEF Exited
<1>3. ~Crash /\ ~Stop /\ ~ReconciliationEnds /\ ~ResolutionFails /\ ~SeedFails
  BY <1>2 DEF Crash, Stop, ReconciliationEnds, ResolutionFails, SeedFails, Exit
<1>4. /\ ~StartRefused /\ ~Start /\ ~RecoveryEnds /\ ~InitializeAuditLedger
      /\ ~ResolveCurrent /\ ~SaveSeed /\ ~SeedMadeCurrent
  BY DEF StartRefused, Start, RecoveryEnds, InitializeAuditLedger, ResolveCurrent, SaveSeed,
         SeedMadeCurrent
<1>5. ~BeginRequest
  <2>1. SUFFICES ASSUME BeginRequest PROVE FALSE
    OBVIOUS
  <2>2. PICK op, what, id, to : Begin(op, what, id, to)
    BY <2>1, Zenon DEF BeginRequest, ApplyConfigSource, CreateProxyHost, UpdateProxyHost,
                       DeleteProxyHost, Rollback
  <2> QED
    BY <2>2 DEF Begin, repository
<1>6. ~IntentEnds /\ ~EffectRefused /\ ~SaveFails /\ ~SetCurrentFails
  BY DEF IntentEnds, EffectRefused, SaveFails, SetCurrentFails, repository
<1>7. ~TerminalEnds /\ ~Observe /\ ~ObservationEnds /\ ~UNCHANGED planeVars
  BY DEF TerminalEnds, Observe, ObservationEnds, planeVars, repository
<1> QED
  BY <1>1, <1>3, <1>4, <1>5, <1>6, <1>7 DEF Next

(* While the process serves, no revision is saved or made current and the  *)
(* event loop is not switched unless the intent of the operation is synced *)
(* and not yet closed by a terminal record: a crash at any point of the    *)
(* effect is visible to the next start.                                    *)
THEOREM EffectsNeedIntent == Spec => EffectNeedsIntent
<1>1. ASSUME ControlInv, [Next]_vars
      PROVE  [(revs' # revs \/ cur' # cur \/ core' # core) /\ pc = "serving" /\ pc' = "serving"
                  => IntentIsDurable]_vars
  <2>1. SUFFICES ASSUME revs' # revs \/ cur' # cur \/ core' # core, pc = "serving", pc' = "serving"
                 PROVE  IntentIsDurable
    OBVIOUS
  <2>2. SaveRevision \/ CoreAnswers \/ SetCurrent
    BY <1>1, <2>1, EffectSteps
  <2>3. req.ph \in {"effect", "saved", "commit"}
    BY <2>2 DEF SaveRevision, CoreAnswers, SetCurrent
  <2> QED
    BY <1>1, <2>3, EffectHasIntent
<1> QED
  BY <1>1, ControlInvariant, PTL DEF Spec, EffectNeedsIntent
=============================================================================

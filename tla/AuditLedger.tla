----------------------------- MODULE AuditLedger -----------------------------
(***************************************************************************)
(* FileAuditLedger (edge-adapters/src/audit_ledger.rs): an append-only     *)
(* chain of frames in numbered segment files.  An append may rotate to a   *)
(* new segment, write a retention checkpoint and delete the oldest         *)
(* segments before it writes its own frame; each of these file operations  *)
(* is a step of its own, may fail, and may be the last one before a crash. *)
(* Frames are all of one size, the unit of the storage bounds.             *)
(***************************************************************************)
EXTENDS Integers, SequencesExt, FiniteSetsExt

CONSTANTS
    SegmentFrames,      \* max_segment_bytes, in frames
    MaxSegments,        \* max_segments
    MaxTotalFrames,     \* max_total_bytes, in frames
    MaxFaults           \* bound: file operations that fail

ASSUME BoundsAssumption ==
    /\ SegmentFrames \in Nat \ {0} /\ MaxSegments \in Nat \ {0}
    /\ MaxTotalFrames \in Nat /\ MaxTotalFrames >= SegmentFrames
    /\ MaxFaults \in Nat

VARIABLES
    disk,       \* segment number -> the complete frames of that file
    torn,       \* the newest file ends in a part of a frame
    unsynced,   \* how many of the newest frames were written and not synced
    led,        \* the FileAuditLedger in memory
    job,        \* the append in progress
    acked,      \* the last sequence number an append answered with
    faults

ledgerVars == <<disk, torn, unsynced, led, job, acked, faults>>

-----------------------------------------------------------------------------
(* Records and frames.  A frame's hash covers its payload and the previous *)
(* hash: within one chain the sequence number identifies it, and 0 is the  *)
(* hash before the first frame.                                            *)

Record(kind, op, out, after) == [kind |-> kind, op |-> op, out |-> out, after |-> after]

NoMeta == [first |-> 0, last |-> 0]
Frame(seq, rec, meta) == [seq |-> seq, prev |-> seq - 1, rec |-> rec, meta |-> meta]

RecoveryRecord  == Record("SystemRecovery", "recovery", "Succeeded", <<>>)
RetentionRecord == Record("RetentionCheckpoint", "retention", "Succeeded", <<>>)

IdleJob == [ph |-> "idle", rec |-> RecoveryRecord, cp |-> NoMeta, left |-> {}]

-----------------------------------------------------------------------------
(* Opening: discover_segments and scan_segments over the files found.      *)

(* The files in order; discover_segments refuses numbers with a gap.       *)
Numbers(d) == [i \in 1..Max(DOMAIN d) - Min(DOMAIN d) + 1 |-> Min(DOMAIN d) + i - 1]
Frames(d) == FlattenSeq([i \in 1..Len(Numbers(d)) |-> d[Numbers(d)[i]]])

Contiguous(d) == \A n \in DOMAIN d : n = Min(DOMAIN d) \/ n - 1 \in DOMAIN d

(* Whether the chain may begin where it does: at the genesis of segment 1, *)
(* or after what some retained checkpoint says was pruned.                 *)
Anchored(d) ==
    LET fs == Frames(d)
        begins == fs[1].seq
    IN  fs # <<>> =>
           IF Min(DOMAIN d) = 1
              THEN begins = 1
              ELSE \E i \in 1..Len(fs) : fs[i].meta # NoMeta /\ fs[i].meta.last + 1 = begins

Chained(d) ==
    LET fs == Frames(d)
    IN  \A i \in 1..Len(fs) - 1 : fs[i + 1].seq = fs[i].seq + 1 /\ fs[i + 1].prev = fs[i].seq

(* scan_segments: a partial frame is tolerated at the end of the newest    *)
(* file, and only by an opener with a recovery context.                    *)
ScanOk(recovery) == Contiguous(disk) /\ Chained(disk) /\ Anchored(disk) /\ (torn => recovery)

Segment(d, n) ==
    [num |-> n, n |-> Len(d[n]),
     first |-> IF d[n] = <<>> THEN 0 ELSE d[n][1].seq,
     last  |-> IF d[n] = <<>> THEN 0 ELSE Last(d[n]).seq]

(* The sequence number of the last frame read.                             *)
HeadOf(d) ==
    LET filled == {n \in DOMAIN d : d[n] # <<>>}
    IN  IF filled = {} THEN 0 ELSE Last(d[Max(filled)]).seq

(* The ledger that open returns: the records, the segments and the head    *)
(* [generation, sequence] are rebuilt from the files.                      *)
Opened(d) ==
    [io   |-> "Ready",
     gen  |-> Min(DOMAIN d) - 1,
     seq  |-> HeadOf(d),
     segs |-> [i \in 1..Len(Numbers(d)) |-> Segment(d, Numbers(d)[i])],
     recs |-> FlattenSeq([i \in 1..Len(Numbers(d)) |->
                 [j \in 1..Len(d[Numbers(d)[i]]) |->
                     [num |-> Numbers(d)[i], seq |-> d[Numbers(d)[i]][j].seq,
                      rec |-> d[Numbers(d)[i]][j].rec]]])]

Closed == [io |-> "Closed", gen |-> 0, seq |-> 0, segs |-> <<>>, recs |-> <<>>]

LedgerInit ==
    /\ disk = [n \in {1} |-> <<>>]
    /\ torn = FALSE /\ unsynced = 0
    /\ led = Closed
    /\ job = IdleJob
    /\ acked = 0
    /\ faults = 0

-----------------------------------------------------------------------------
(* Appending *)

Current == Last(led.segs)
TotalFrames(segs) == FoldLeft(LAMBDA sum, s : sum + s.n, 0, segs)
RetentionRequired ==
    Len(led.segs) + 1 > MaxSegments \/ TotalFrames(led.segs) + 1 > MaxTotalFrames

Fits == Current.n = 0 \/ Current.n + 1 <= SegmentFrames

(* append: refused by a degraded ledger, else through prepare_storage.     *)
StartAppend(rec) ==
    job' = [IdleJob EXCEPT !.rec = rec,
                           !.ph = CASE led.io = "Degraded" -> "failed"
                                    [] led.io # "Degraded" /\ Fits -> "write"
                                    [] OTHER -> "rotate"]

Fault == faults < MaxFaults /\ faults' = faults + 1

Fail == job' = [job EXCEPT !.ph = "failed"] /\ led' = [led EXCEPT !.io = "Degraded"]

(* How many of the oldest segments retain_for gives up, counting the new   *)
(* empty segment, the checkpoint and the frame to come; 0 when no number   *)
(* of them would do.                                                       *)
Enough(segs, k) ==
    /\ Len(segs) - k <= MaxSegments
    /\ TotalFrames(segs) - TotalFrames(SubSeq(segs, 1, k)) + 2 <= MaxTotalFrames
RemoveCount(segs) ==
    LET counts == {k \in 1..Len(segs) - 1 : Enough(segs, k)}
    IN  IF counts = {} THEN 0 ELSE Min(counts)

NewSegment == [num |-> Current.num + 1, n |-> 0, first |-> 0, last |-> 0]

(* The files with a new empty one.                                         *)
WithFile(d, n) == [m \in DOMAIN d \cup {n} |-> IF m \in DOMAIN d THEN d[m] ELSE <<>>]

(* rotate_segment publishes an empty file; prepare_storage then decides    *)
(* whether the oldest segments must go, and if so for which checkpoint.    *)
Rotate ==
    /\ job.ph = "rotate"
    /\ LET segs == Append(led.segs, NewSegment)
           k == RemoveCount(segs)
       IN  /\ disk' = WithFile(disk, NewSegment.num)
           /\ IF RetentionRequired
                 THEN IF k = 0
                         THEN /\ led' = [led EXCEPT !.segs = segs, !.io = "Degraded"]
                              /\ job' = [job EXCEPT !.ph = "failed"]
                         ELSE /\ led' = [led EXCEPT !.segs = segs]
                              /\ job' = [job EXCEPT !.ph = "write",
                                            !.cp = [first |-> segs[1].first, last |-> segs[k].last],
                                            !.left = {segs[i].num : i \in 1..k}]
                 ELSE /\ led' = [led EXCEPT !.segs = segs]
                      /\ job' = [job EXCEPT !.ph = "write"]
    /\ unsynced' = 0
    /\ UNCHANGED <<torn, acked, faults>>

(* The new file may exist although its publication failed.                 *)
RotateFails ==
    /\ job.ph = "rotate"
    /\ Fault
    /\ Fail
    /\ \/ disk' = WithFile(disk, NewSegment.num)
       \/ UNCHANGED disk
    /\ UNCHANGED <<torn, unsynced, acked>>

NextFrame ==
    IF job.cp # NoMeta THEN Frame(led.seq + 1, RetentionRecord, job.cp)
                       ELSE Frame(led.seq + 1, job.rec, NoMeta)

(* append_encoded: the frame is written to the current file ...            *)
Write ==
    /\ job.ph = "write"
    /\ disk' = [disk EXCEPT ![Current.num] = Append(@, NextFrame)]
    /\ unsynced' = unsynced + 1
    /\ job' = [job EXCEPT !.ph = "sync"]
    /\ UNCHANGED <<torn, led, acked, faults>>

WriteFails ==
    /\ job.ph = "write"
    /\ Fault
    /\ Fail
    /\ torn' \in BOOLEAN
    /\ UNCHANGED <<disk, unsynced, acked>>

(* ... and published once it is synced: the head, the records and the      *)
(* segment's bounds.  A checkpoint is followed by the deletions.           *)
Published ==
    LET seg == [Current EXCEPT !.n = @ + 1, !.last = led.seq + 1,
                               !.first = IF @ = 0 THEN led.seq + 1 ELSE @]
    IN  [led EXCEPT !.seq = @ + 1,
                    !.segs = Append(Front(@), seg),
                    !.recs = Append(@, [num |-> Current.num, seq |-> led.seq + 1,
                                        rec |-> NextFrame.rec])]

Dropped(segs, k) == SubSeq(segs, k + 1, Len(segs))

(* Mutant: published before it is synced.                                  *)
PublishUnsynced ==
    /\ job.ph = "sync"
    /\ led' = IF job.cp # NoMeta THEN [Published EXCEPT !.segs = Dropped(@, Cardinality(job.left))]
                                 ELSE Published
    /\ job' = [job EXCEPT !.ph = IF job.cp # NoMeta THEN "delete" ELSE "done"]
    /\ acked' = IF job.cp # NoMeta THEN acked ELSE led.seq + 1
    /\ UNCHANGED <<disk, torn, unsynced, faults>>

Sync ==
    /\ job.ph = "sync"
    /\ unsynced' = 0
    /\ IF job.cp # NoMeta
          THEN /\ led' = [Published EXCEPT !.segs = Dropped(@, Cardinality(job.left))]
               /\ job' = [job EXCEPT !.ph = "delete"]
               /\ UNCHANGED acked
          ELSE /\ led' = Published
               /\ job' = [job EXCEPT !.ph = "done"]
               /\ acked' = led.seq + 1
    /\ UNCHANGED <<disk, torn, faults>>

SyncFails ==
    /\ job.ph = "sync"
    /\ Fault
    /\ Fail
    /\ UNCHANGED <<disk, torn, unsynced, acked>>

(* retain_for removes the pruned files one by one, oldest first, and only  *)
(* after the last of them the records and the generation in memory.        *)
DeleteOldest ==
    /\ job.ph = "delete" /\ job.left # {}
    /\ LET n == Min(job.left)
       IN  /\ disk' = [m \in DOMAIN disk \ {n} |-> disk[m]]
           /\ job' = [job EXCEPT !.left = @ \ {n}]
    /\ UNCHANGED <<torn, unsynced, led, acked, faults>>

DeleteFails ==
    /\ job.ph = "delete"
    /\ Fault
    /\ Fail
    /\ UNCHANGED <<disk, torn, unsynced, acked>>

Pruned(recs, segs) == SelectSeq(recs, LAMBDA r : \E i \in 1..Len(segs) : segs[i].num = r.num)

DeletionEnds ==
    /\ job.ph = "delete" /\ job.left = {}
    /\ led' = [led EXCEPT !.recs = Pruned(@, led.segs), !.gen = led.segs[1].num - 1]
    /\ job' = [job EXCEPT !.ph = "write", !.cp = NoMeta]
    /\ UNCHANGED <<disk, torn, unsynced, acked, faults>>

LedgerStep ==
    \/ Rotate \/ RotateFails
    \/ Write \/ WriteFails
    \/ Sync \/ SyncFails
    \/ DeleteOldest \/ DeleteFails \/ DeletionEnds

-----------------------------------------------------------------------------
(* Opening and stopping *)

(* open by a process with a recovery context: a partial frame is cut off   *)
(* and a recovery record is appended.                                      *)
Open ==
    /\ led' = Opened(disk)
    /\ torn' = FALSE
    /\ IF torn THEN job' = [IdleJob EXCEPT !.ph = IF Last(Opened(disk).segs).n < SegmentFrames
                                                     THEN "write" ELSE "rotate"]
               ELSE job' = IdleJob
    /\ UNCHANGED <<disk, unsynced, acked, faults>>

(* What is left of the newest frames when the machine stops: those that    *)
(* were not synced may be there or not, and the first one missing may be   *)
(* there in part, as may a frame whose write was cut off.                  *)
LedgerLost ==
    /\ led' = Closed
    /\ job' = IdleJob
    /\ unsynced' = 0
    /\ LET n == Max(DOMAIN disk)
       IN  \E lost \in 0..unsynced :
              /\ disk' = [disk EXCEPT ![n] = SubSeq(@, 1, Len(@) - lost)]
              /\ torn' \in {torn} \cup IF lost > 0 \/ job.ph = "write" THEN {TRUE} ELSE {}
    /\ UNCHANGED <<acked, faults>>

LedgerClose ==
    /\ led' = Closed
    /\ job' = IdleJob
    /\ UNCHANGED <<disk, torn, unsynced, acked, faults>>

-----------------------------------------------------------------------------
(* Reading *)

(* incomplete_operations: the intents whose operation id was opened last   *)
(* by an intent.  Every intent with such an id is returned.                *)
Closing == {"Terminal", "Reconciliation"}
OpenIds(recs) ==
    FoldLeft(LAMBDA open, r : CASE r.rec.kind = "Intent" -> open \cup {r.rec.op}
                                [] r.rec.kind \in Closing -> open \ {r.rec.op}
                                [] OTHER -> open,
             {}, recs)
IncompleteOperations(recs) ==
    SelectSeq(recs, LAMBDA r : r.rec.kind = "Intent" /\ r.rec.op \in OpenIds(recs))

UnresolvedReconciliations(recs) ==
    FoldLeft(LAMBDA ids, r : CASE r.rec.kind # "Reconciliation" -> ids
                               [] r.rec.out = "ReconciliationUnknown" -> ids \cup {r.rec.op}
                               [] OTHER -> ids \ {r.rec.op},
             {}, recs)

(* query: newest first, strictly before the cursor's sequence number.      *)
CursorValid(gen, before) == gen = led.gen /\ before > 0 /\ before <= led.seq + 1

Page(before, limit) ==
    LET older == Reverse(SelectSeq(led.recs, LAMBDA r : r.seq < before))
    IN  SubSeq(older, 1, Min({limit, Len(older)}))


(* The sequence number of the next cursor, 0 for none.                     *)
NextBefore(page) ==
    IF page # <<>> /\ \E i \in 1..Len(led.recs) : led.recs[i].seq < Last(page).seq
       THEN Last(page).seq ELSE 0

(* All the records a client gets by following the cursors from the head.   *)
FollowCursors(limit) ==
    LET all[before \in 1..led.seq + 1] ==
            LET page == Page(before, limit)
                next == NextBefore(page)
            IN  page \o (IF CursorValid(led.gen, next) THEN all[next] ELSE <<>>)
    IN  all[led.seq + 1]
=============================================================================

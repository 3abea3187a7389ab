------------------------- MODULE DataDirectoryProofs -------------------------
(***************************************************************************)
(* Proofs about DataDirectory, for any number of commands of each kind,    *)
(* kills and failing file-system calls.                                    *)
(*                                                                         *)
(* The properties speak of single moments: a cut-off replacement, a        *)
(* command that ends.  What carries them is a statement about every step   *)
(* of every command.  As long as no upset has happened one command at a    *)
(* time is between its lock and its end (Active); AtStep says what the two *)
(* directories and the journal are at each of its steps, and Settled what  *)
(* they are when there is no such command.                                 *)
(***************************************************************************)
EXTENDS DataDirectory, TLAPS

Idle == {"ready", "lock", "done", "failed"}

ReplaceSteps ==
    {"extract", "extracting", "preflight", "persistPrepared", "move", "persistMoved", "publish",
     "persistPublished", "verify", "provenance", "cleanup", "delete"}
RollingSteps   == {"rollback", "restoreOld", "forget"}
NewTargetSteps == {"extract", "extracting", "preflight", "publish", "verify", "provenance"}
RecoverySteps  == {"load", "rollback", "restoreOld", "cleanup", "provenance", "delete"}

ActiveSteps == ReplaceSteps \cup RollingSteps \cup RecoverySteps \cup ServeSteps \cup BackupSteps

(* A command that has the lock, or is rolling back without it. *)
Active(p)  == pc[p] \in ActiveSteps
Rolling(p) == p \in Replaces /\ pc[p] \in RollingSteps

Outcomes == {"none", "restored", "commit_completed", "restore_aborted", "rollback_restored"}
Upsets   == {"unlocked", "swept", "cut", "redone", "bare", "filled"}

TypeOK ==
    /\ target \in Contents /\ stage \in Contents /\ rollback \in Contents
    /\ maker \in Processes \cup {NoOne}
    /\ journal \in {NoJournal} \cup
          [operation : Replaces, state : {"prepared", "target_moved", "stage_published"}]
    /\ lock \in Processes \cup {NoOne}
    /\ pc \in [Processes -> Idle \cup {"sweep"} \cup ActiveSteps]
    /\ answer \in [Processes -> Outcomes \cup Contents]
    /\ archive \in [temporary : Contents, output : Contents]
    /\ upsets \subseteq Upsets
    /\ crashes \in Nat /\ errors \in Nat

(* Every command keeps to its own steps, and owns the lock at them. *)
Locking ==
    /\ \A p \in Replaces   : pc[p] \in Idle \cup {"sweep"} \cup ReplaceSteps \cup RollingSteps
    /\ \A p \in NewTargets : pc[p] \in Idle \cup {"sweep"} \cup NewTargetSteps
    /\ \A p \in Recoveries : pc[p] \in Idle \cup RecoverySteps
    /\ \A p \in Serves     : pc[p] \in Idle \cup ServeSteps
    /\ \A p \in Backups    : pc[p] \in Idle \cup BackupSteps
    /\ \A p \in Processes  : lock = p <=> Active(p) /\ ~Rolling(p)

-----------------------------------------------------------------------------
(* What the disk holds when nothing is under way.                          *)

Blank == {"absent", "layout", "junk"}

Untouched == /\ journal = NoJournal /\ rollback = "absent"
             /\ target \in {"absent", "layout", "old", "new"}
Prepared  == journal.state = "prepared" /\ rollback = "absent" /\ Whole(target)
MovedAway == journal # NoJournal /\ Whole(rollback) /\ target \in Blank
Exchanged == /\ journal.state \in {"target_moved", "stage_published"}
             /\ Whole(rollback) /\ target = "new"
Committed == /\ journal.state = "stage_published" /\ target = "new"
             /\ rollback \in {"absent", "torn", "junk", "old", "new"}

Settled == Untouched \/ Prepared \/ MovedAway \/ Exchanged \/ Committed

(* The old target is back, or the new one in its place, and the journal has *)
(* still to be removed.                                                    *)
PutBack == journal # NoJournal /\ rollback = "absent" /\ Whole(target)

NoTarget == target \in {"absent", "layout"}

(* What an active command has made of the disk. *)
AtReplaceStep(step) ==
    /\ step = "persistPrepared"  => Settled /\ rollback = "absent" /\ Whole(target)
    /\ step = "move"             => Prepared
    /\ step = "persistMoved"     => journal.state = "prepared" /\ Whole(rollback) /\ NoTarget
    /\ step = "publish"          => journal.state = "target_moved" /\ Whole(rollback) /\ NoTarget
    /\ step = "persistPublished" => journal.state = "target_moved" /\ Exchanged
    /\ step \in {"verify", "provenance"} => journal.state = "stage_published" /\ Exchanged
    /\ step = "cleanup"          => Committed
    /\ step = "delete"           => Committed /\ rollback = "absent"
    /\ step = "rollback"         => Prepared \/ MovedAway \/ Exchanged
    /\ step = "restoreOld"       => MovedAway /\ NoTarget
    /\ step = "forget"           => PutBack

AtNewTargetStep(step) ==
    /\ step = "publish"                  => Untouched /\ NoTarget
    /\ step \in {"verify", "provenance"} => Untouched /\ target = "new"

AtRecoveryStep(step, outcome) ==
    /\ step \in {"rollback", "restoreOld"} => MovedAway /\ outcome = "rollback_restored"
    /\ step = "restoreOld"                 => NoTarget
    /\ step = "cleanup" =>
          \/ outcome = "commit_completed" /\ (Exchanged \/ Committed)
          \/ outcome = "restore_aborted" /\ Prepared
    /\ step = "provenance" => outcome = "commit_completed"
    /\ step \in {"provenance", "delete"} =>
          /\ PutBack
          /\ outcome \in {"commit_completed", "restore_aborted", "rollback_restored"}
          /\ outcome = "commit_completed" =>
                target = "new" /\ journal.state \in {"target_moved", "stage_published"}
          /\ outcome = "restore_aborted" => journal.state = "prepared"

(* The stage is the command's own until it is published. *)
AtStageStep(p, step) ==
    /\ step = "extracting" => stage = "partial" /\ maker = p
    /\ step \in {"preflight", "persistPrepared", "move", "persistMoved", "publish"} =>
          stage = "new" /\ maker = p

AtBackupStep(p, step) ==
    /\ step = "stream"         => Whole(answer[p])
    /\ step = "publishArchive" => archive.temporary # "partial"

Looking == {"load", "extract", "extracting", "preflight", "open", "serving"} \cup BackupSteps

AtStep(p) ==
    /\ pc[p] \in Looking => Settled
    /\ pc[p] = "serving" => Whole(target)
    /\ p \in Replaces   => AtReplaceStep(pc[p])
    /\ p \in NewTargets => AtNewTargetStep(pc[p])
    /\ p \in Recoveries => AtRecoveryStep(pc[p], answer[p])
    /\ AtStageStep(p, pc[p]) /\ AtBackupStep(p, pc[p])

ArchiveInOrder ==
    /\ archive.output \in {"absent", "old", "new"}
    /\ archive.temporary \in {"absent", "partial", "old", "new"}

Orderly ==
    /\ \A p, q \in Processes : Active(p) /\ Active(q) => p = q
    /\ \A p \in Processes : Active(p) => AtStep(p)
    /\ (\A p \in Processes : ~Active(p)) => Settled
    /\ ArchiveInOrder

IInv == TypeOK /\ Locking /\ (upsets = {} => Orderly)

-----------------------------------------------------------------------------
(* What the contents of a directory say about its revisions.               *)

(* The two files that make a current revision are among those an archive   *)
(* may hold.                                                               *)
LEMMA CurrentFiles ==
    /\ <<"pointer", "current">> \in Files
    /\ <<"revision", "r2">> \in Files
    /\ <<"hash", "admin">> \in Files
    /\ \A f \in Files : f[1] = "revision" => f \in {<<"revision", "r1">>, <<"revision", "r2">>}
<1>1. DOMAIN PathOrder = 1..11
  BY DEF PathOrder
<1>2. /\ PathOrder[6] = <<"pointer", "current">>
      /\ PathOrder[8] = <<"revision", "r2">>
      /\ PathOrder[9] = <<"hash", "admin">>
  BY DEF PathOrder
<1>3. ASSUME NEW i \in 1..11, PathOrder[i][1] = "revision"
      PROVE  PathOrder[i] \in {<<"revision", "r1">>, <<"revision", "r2">>}
  BY <1>3 DEF PathOrder
<1>4. Files = {PathOrder[i] : i \in 1..11}
  BY <1>1 DEF Files, Range
<1> QED
  BY <1>2, <1>3, <1>4

(* Valid is told by the content alone. *)
LEMMA ValidIs ==
    ASSUME NEW c \in Contents
    PROVE  Valid(c) <=> c \in {"old", "new", "torn", "seed"}
<1>1. \A fs : Holding(fs).files = fs /\ Holding(fs).current = "r2"
  BY DEF Holding, WholeDirectory
<1>2. WholeDirectory.files = Files /\ WholeDirectory.current = "r2"
  BY DEF WholeDirectory
<1>3. CASE c \in {"absent", "layout"}
  <2>1. DirectoriesOf[c] = {Holding({})}
    BY <1>3 DEF DirectoriesOf
  <2> QED
    BY <1>1, <1>3, <2>1 DEF Valid, ValidContents, HasCurrent
<1>4. CASE c \in {"old", "new"}
  <2>1. DirectoriesOf[c] = {WholeDirectory}
    BY <1>4 DEF DirectoriesOf
  <2> QED
    BY <1>2, <1>4, <2>1, CurrentFiles DEF Valid, ValidContents, HasCurrent
<1>5. CASE c \in {"torn", "seed"}
  <2>1. DirectoriesOf[c] = {d \in {Holding(fs) : fs \in (SUBSET Files) \ {Files}} : HasCurrent(d)}
    BY <1>5 DEF DirectoriesOf
  <2> DEFINE two == {<<"pointer", "current">>, <<"revision", "r2">>}
  <2>2. two \in (SUBSET Files) \ {Files}
    <3>1. <<"hash", "admin">> \notin two
      OBVIOUS
    <3> QED
      BY <3>1, CurrentFiles
  <2>3. HasCurrent(Holding(two))
    BY <1>1 DEF HasCurrent
  <2> QED
    BY <1>5, <2>1, <2>2, <2>3 DEF Valid, ValidContents
<1>6. CASE c \in {"partial", "junk"}
  <2>1. DirectoriesOf[c] = {d \in {Holding(fs) : fs \in SUBSET Files} : ~HasCurrent(d)}
    BY <1>6 DEF DirectoriesOf
  <2> QED
    BY <1>6, <2>1 DEF Valid, ValidContents
<1> QED
  BY <1>3, <1>4, <1>5, <1>6 DEF Contents

(* An inventory that succeeds has found a current revision. *)
LEMMA InventoriedIsValid == Inventoried \subseteq ValidContents
<1> SUFFICES ASSUME NEW c \in Contents, c \in Inventoried, ~Valid(c)
             PROVE  FALSE
  BY DEF Inventoried, ValidContents, Valid
<1>1. PICK d \in DirectoriesOf[c] : CreateBackup(d, 3) # <<>>
  BY DEF Inventoried
<1>2. InspectConfig(d)
  BY <1>1 DEF CreateBackup, SourceIsValid
<1>3. d.files \subseteq Files
  <2>1. c \in {"absent", "layout", "partial", "junk"}
    BY ValidIs DEF Contents
  <2>2. CASE c \in {"absent", "layout"}
    <3>1. d = Holding({})
      BY <2>2 DEF DirectoriesOf
    <3> QED
      BY <3>1 DEF Holding, WholeDirectory
  <2>3. CASE c \in {"partial", "junk"}
    <3>1. DirectoriesOf[c] = {e \in {Holding(fs) : fs \in SUBSET Files} : ~HasCurrent(e)}
      BY <2>3 DEF DirectoriesOf
    <3>2. PICK fs \in SUBSET Files : d = Holding(fs)
      BY <3>1
    <3> QED
      BY <3>2 DEF Holding, WholeDirectory
  <2> QED
    BY <2>1, <2>2, <2>3
<1>4. HasCurrent(d)
  <2>1. PICK f \in d.files : f[1] = "revision" /\ f[2] = d.current
    BY <1>2 DEF InspectConfig, Ids
  <2>2. f = <<"revision", d.current>>
    BY <2>1, <1>3, CurrentFiles
  <2> QED
    BY <1>2, <2>1, <2>2 DEF InspectConfig, HasCurrent
<1> QED
  BY <1>4 DEF Valid, ValidContents
-----------------------------------------------------------------------------
(* The steps of the commands, and what every action is built from. *)
USE DEF Idle, ReplaceSteps, RollingSteps, NewTargetSteps, RecoverySteps, ServeSteps, BackupSteps,
        ActiveSteps, Restores, Processes, dirs, Goto, NoJournal

(* A step of the one active command leaves everything in order when it has *)
(* left the disk as its next step, or the next command, expects it.        *)
LEMMA OneMoves ==
    ASSUME TypeOK, Orderly, NEW p \in Processes, Active(p), NEW step,
           pc' = [pc EXCEPT ![p] = step],
           Active(p)' => AtStep(p)', ~Active(p)' => Settled', ArchiveInOrder'
    PROVE  Orderly'
<1>1. \A q \in Processes \ {p} : ~Active(q) /\ ~Active(q)'
  BY DEF Orderly, Active, TypeOK
<1> QED
  BY <1>1 DEF Orderly

(* A step of a command that is not active, before or after it, does so     *)
(* when the active one and the next one find what they expect.             *)
LEMMA OutsiderMoves ==
    ASSUME TypeOK, Orderly, NEW p \in Processes, ~Active(p), NEW step, step \notin ActiveSteps,
           pc' = [pc EXCEPT ![p] = step],
           \A q \in Processes \ {p} : Active(q) /\ AtStep(q) => AtStep(q)',
           Settled => Settled', ArchiveInOrder'
    PROVE  Orderly'
<1>1. ~Active(p)' /\ \A q \in Processes \ {p} : Active(q)' <=> Active(q)
  BY DEF Active, TypeOK
<1> QED
  BY <1>1 DEF Orderly

(* Where an active command is cut off, the disk is as the next one expects  *)
(* it, or what the cut leaves is one of the upsets.                        *)
LEMMA CutSettles ==
    ASSUME TypeOK, Locking, NEW p \in Processes, Active(p), AtStep(p), Upset(p) = {},
           UNCHANGED dirs \/ PartlyDone(p), UNCHANGED journal
    PROVE  Settled'
<1> USE DEF Active, TypeOK, Locking, AtStep, AtReplaceStep, AtNewTargetStep, AtRecoveryStep,
            AtStageStep, AtBackupStep, Looking,
            Settled, Untouched, Prepared, MovedAway, Exchanged, Committed, PutBack, NoTarget,
            Blank, Whole
<1>1. CASE UNCHANGED dirs
  BY <1>1, ProcessesAssumption DEF Upset
<1>2. CASE PartlyDone(p) /\ pc[p] = "rollback"
  <2>1. /\ target' \in Remains(target) /\ rollback' = rollback /\ rollback # "absent"
        /\ target' # target => ~Valid(target')
    BY <1>2 DEF PartlyDone, Upset
  <2>2. MovedAway \/ Exchanged
    BY <1>2, <2>1, ProcessesAssumption
  <2>3. target' = "junk"
    BY <2>1, <2>2, ValidIs DEF Remains, Contents
  <2> QED
    BY <2>1, <2>2, <2>3
<1>3. CASE PartlyDone(p) /\ pc[p] = "restoreOld"
  BY <1>3, ProcessesAssumption, ValidIs DEF PartlyDone, Upset
<1>4. CASE PartlyDone(p) /\ pc[p] = "cleanup"
  BY <1>4, ProcessesAssumption, ValidIs DEF PartlyDone, Upset, Remains
<1> QED
  BY <1>1, <1>2, <1>3, <1>4 DEF PartlyDone

LEMMA InitKeeps == Init => IInv
<1> SUFFICES ASSUME Init PROVE IInv
  OBVIOUS
<1> USE DEF Init
<1>1. TypeOK
  BY DEF TypeOK, Contents, Outcomes, Upsets
<1>2. \A p \in Processes : ~Active(p)
  BY DEF Active
<1>3. Locking
  BY <1>2, ProcessesAssumption DEF Locking, Rolling
<1>4. Orderly
  BY <1>2 DEF Orderly, Settled, Untouched, ArchiveInOrder
<1> QED
  BY <1>1, <1>3, <1>4 DEF IInv

LEMMA CreateStageKeeps ==
    ASSUME IInv, NEW p \in Processes, CreateStage(p)
    PROVE  IInv'
<1> USE DEF CreateStage, Abort, Release, Committing
<1>1. TypeOK'
  BY ProcessesAssumption DEF IInv, TypeOK, Contents, Outcomes, Upsets, Locking
<1>2. Locking'
  BY ProcessesAssumption DEF IInv, TypeOK, Locking, Active, Rolling
<1>3. ASSUME upsets' = {} PROVE Orderly'
  <2>1. TypeOK /\ Locking /\ Orderly /\ upsets = {} /\ Active(p)
    BY <1>3 DEF IInv, Active
  <2>2. AtStep(p)
    BY <2>1 DEF Orderly
  <2>3. (Active(p)' => AtStep(p)') /\ (~Active(p)' => Settled')
    BY <1>3, <2>1, <2>2, ProcessesAssumption
    DEF Active, TypeOK, Locking, AtStep, AtReplaceStep, AtNewTargetStep, AtRecoveryStep,
        AtStageStep, AtBackupStep, Looking, Settled, Untouched, Prepared, MovedAway, Exchanged,
        Committed, PutBack, NoTarget, Blank, Whole
  <2>4. ArchiveInOrder'
    BY <2>1 DEF Orderly, ArchiveInOrder, TypeOK
  <2> QED
    BY <2>1, <2>3, <2>4, OneMoves
<1> QED
  BY <1>1, <1>2, <1>3 DEF IInv

LEMMA ExtractKeeps ==
    ASSUME IInv, NEW p \in Processes, Extract(p)
    PROVE  IInv'
<1> USE DEF Extract
<1>1. TypeOK'
  BY ProcessesAssumption DEF IInv, TypeOK, Contents, Outcomes, Upsets, Locking
<1>2. Locking'
  BY ProcessesAssumption DEF IInv, TypeOK, Locking, Active, Rolling
<1>3. ASSUME upsets' = {} PROVE Orderly'
  <2>1. TypeOK /\ Locking /\ Orderly /\ upsets = {} /\ Active(p)
    BY <1>3 DEF IInv, Active
  <2>2. AtStep(p)
    BY <2>1 DEF Orderly
  <2>3. (Active(p)' => AtStep(p)') /\ (~Active(p)' => Settled')
    BY <1>3, <2>1, <2>2, ProcessesAssumption
    DEF Active, TypeOK, Locking, AtStep, AtReplaceStep, AtNewTargetStep, AtRecoveryStep,
        AtStageStep, AtBackupStep, Looking, Settled, Untouched, Prepared, MovedAway, Exchanged,
        Committed, PutBack, NoTarget, Blank, Whole
  <2>4. ArchiveInOrder'
    BY <2>1 DEF Orderly, ArchiveInOrder, TypeOK
  <2> QED
    BY <2>1, <2>3, <2>4, OneMoves
<1> QED
  BY <1>1, <1>2, <1>3 DEF IInv

LEMMA ExtractFailsKeeps ==
    ASSUME IInv, NEW p \in Processes, ExtractFails(p)
    PROVE  IInv'
<1> USE DEF ExtractFails, Abort, Release, Committing
<1>1. TypeOK'
  BY ProcessesAssumption DEF IInv, TypeOK, Contents, Outcomes, Upsets, Locking
<1>2. Locking'
  BY ProcessesAssumption DEF IInv, TypeOK, Locking, Active, Rolling
<1>3. ASSUME upsets' = {} PROVE Orderly'
  <2>1. TypeOK /\ Locking /\ Orderly /\ upsets = {} /\ Active(p)
    BY <1>3 DEF IInv, Active
  <2>2. AtStep(p)
    BY <2>1 DEF Orderly
  <2>3. (Active(p)' => AtStep(p)') /\ (~Active(p)' => Settled')
    BY <1>3, <2>1, <2>2, ProcessesAssumption
    DEF Active, TypeOK, Locking, AtStep, AtReplaceStep, AtNewTargetStep, AtRecoveryStep,
        AtStageStep, AtBackupStep, Looking, Settled, Untouched, Prepared, MovedAway, Exchanged,
        Committed, PutBack, NoTarget, Blank, Whole
  <2>4. ArchiveInOrder'
    BY <2>1 DEF Orderly, ArchiveInOrder, TypeOK
  <2> QED
    BY <2>1, <2>3, <2>4, OneMoves
<1> QED
  BY <1>1, <1>2, <1>3 DEF IInv

LEMMA PreflightKeeps ==
    ASSUME IInv, NEW p \in Processes, Preflight(p)
    PROVE  IInv'
<1> USE DEF Preflight, PrepareReplace, PrepareNewTarget
<1>1. TypeOK'
  BY ProcessesAssumption DEF IInv, TypeOK, Contents, Outcomes, Upsets, Locking
<1>2. Locking'
  BY ProcessesAssumption DEF IInv, TypeOK, Locking, Active, Rolling
<1>3. ASSUME upsets' = {} PROVE Orderly'
  <2>1. TypeOK /\ Locking /\ Orderly /\ upsets = {} /\ Active(p)
    BY <1>3 DEF IInv, Active
  <2>2. AtStep(p)
    BY <2>1 DEF Orderly
  <2>3. (Active(p)' => AtStep(p)') /\ (~Active(p)' => Settled')
    BY <1>3, <2>1, <2>2, ProcessesAssumption, ValidIs
    DEF Active, TypeOK, Locking, AtStep, AtReplaceStep, AtNewTargetStep, AtRecoveryStep,
        AtStageStep, AtBackupStep, Looking, Settled, Untouched, Prepared, MovedAway, Exchanged,
        Committed, PutBack, NoTarget, Blank, Whole
  <2>4. ArchiveInOrder'
    BY <2>1 DEF Orderly, ArchiveInOrder, TypeOK
  <2> QED
    BY <2>1, <2>3, <2>4, OneMoves
<1> QED
  BY <1>1, <1>2, <1>3 DEF IInv

LEMMA PreflightFailsKeeps ==
    ASSUME IInv, NEW p \in Processes, PreflightFails(p)
    PROVE  IInv'
<1> USE DEF PreflightFails, Abort, Release, Committing
<1>1. TypeOK'
  BY ProcessesAssumption DEF IInv, TypeOK, Contents, Outcomes, Upsets, Locking
<1>2. Locking'
  BY ProcessesAssumption DEF IInv, TypeOK, Locking, Active, Rolling
<1>3. ASSUME upsets' = {} PROVE Orderly'
  <2>1. TypeOK /\ Locking /\ Orderly /\ upsets = {} /\ Active(p)
    BY <1>3 DEF IInv, Active
  <2>2. AtStep(p)
    BY <2>1 DEF Orderly
  <2>3. (Active(p)' => AtStep(p)') /\ (~Active(p)' => Settled')
    BY <1>3, <2>1, <2>2, ProcessesAssumption
    DEF Active, TypeOK, Locking, AtStep, AtReplaceStep, AtNewTargetStep, AtRecoveryStep,
        AtStageStep, AtBackupStep, Looking, Settled, Untouched, Prepared, MovedAway, Exchanged,
        Committed, PutBack, NoTarget, Blank, Whole
  <2>4. ArchiveInOrder'
    BY <2>1 DEF Orderly, ArchiveInOrder, TypeOK
  <2> QED
    BY <2>1, <2>3, <2>4, OneMoves
<1> QED
  BY <1>1, <1>2, <1>3 DEF IInv

LEMMA PersistKeeps ==
    ASSUME IInv, NEW p \in Processes, Persist(p)
    PROVE  IInv'
<1> USE DEF Persist, JournalStep
<1>1. TypeOK'
  BY ProcessesAssumption DEF IInv, TypeOK, Contents, Outcomes, Upsets, Locking
<1>2. Locking'
  BY ProcessesAssumption DEF IInv, TypeOK, Locking, Active, Rolling
<1>3. ASSUME upsets' = {} PROVE Orderly'
  <2>1. TypeOK /\ Locking /\ Orderly /\ upsets = {} /\ Active(p)
    BY <1>3 DEF IInv, Active
  <2>2. AtStep(p)
    BY <2>1 DEF Orderly
  <2>3. (Active(p)' => AtStep(p)') /\ (~Active(p)' => Settled')
    BY <1>3, <2>1, <2>2, ProcessesAssumption
    DEF Active, TypeOK, Locking, AtStep, AtReplaceStep, AtNewTargetStep, AtRecoveryStep,
        AtStageStep, AtBackupStep, Looking, Settled, Untouched, Prepared, MovedAway, Exchanged,
        Committed, PutBack, NoTarget, Blank, Whole
  <2>4. ArchiveInOrder'
    BY <2>1 DEF Orderly, ArchiveInOrder, TypeOK
  <2> QED
    BY <2>1, <2>3, <2>4, OneMoves
<1> QED
  BY <1>1, <1>2, <1>3 DEF IInv

LEMMA PersistFailsKeeps ==
    ASSUME IInv, NEW p \in Processes, PersistFails(p)
    PROVE  IInv'
<1> USE DEF PersistFails, JournalStep, Abort, Release, Committing
<1>1. TypeOK'
  BY ProcessesAssumption DEF IInv, TypeOK, Contents, Outcomes, Upsets, Locking
<1>2. Locking'
  BY ProcessesAssumption DEF IInv, TypeOK, Locking, Active, Rolling
<1>3. ASSUME upsets' = {} PROVE Orderly'
  <2>1. TypeOK /\ Locking /\ Orderly /\ upsets = {} /\ Active(p)
    BY <1>3 DEF IInv, Active
  <2>2. AtStep(p)
    BY <2>1 DEF Orderly
  <2>3. (Active(p)' => AtStep(p)') /\ (~Active(p)' => Settled')
    BY <1>3, <2>1, <2>2, ProcessesAssumption
    DEF Active, TypeOK, Locking, AtStep, AtReplaceStep, AtNewTargetStep, AtRecoveryStep,
        AtStageStep, AtBackupStep, Looking, Settled, Untouched, Prepared, MovedAway, Exchanged,
        Committed, PutBack, NoTarget, Blank, Whole
  <2>4. ArchiveInOrder'
    BY <2>1 DEF Orderly, ArchiveInOrder, TypeOK
  <2> QED
    BY <2>1, <2>3, <2>4, OneMoves
<1> QED
  BY <1>1, <1>2, <1>3 DEF IInv

LEMMA MoveTargetToRollbackKeeps ==
    ASSUME IInv, NEW p \in Processes, MoveTargetToRollback(p)
    PROVE  IInv'
<1> USE DEF MoveTargetToRollback, Abort, Release, Committing
<1>1. TypeOK'
  BY ProcessesAssumption DEF IInv, TypeOK, Contents, Outcomes, Upsets, Locking
<1>2. Locking'
  BY ProcessesAssumption DEF IInv, TypeOK, Locking, Active, Rolling
<1>3. ASSUME upsets' = {} PROVE Orderly'
  <2>1. TypeOK /\ Locking /\ Orderly /\ upsets = {} /\ Active(p)
    BY <1>3 DEF IInv, Active
  <2>2. AtStep(p)
    BY <2>1 DEF Orderly
  <2>3. (Active(p)' => AtStep(p)') /\ (~Active(p)' => Settled')
    BY <1>3, <2>1, <2>2, ProcessesAssumption
    DEF Active, TypeOK, Locking, AtStep, AtReplaceStep, AtNewTargetStep, AtRecoveryStep,
        AtStageStep, AtBackupStep, Looking, Settled, Untouched, Prepared, MovedAway, Exchanged,
        Committed, PutBack, NoTarget, Blank, Whole
  <2>4. ArchiveInOrder'
    BY <2>1 DEF Orderly, ArchiveInOrder, TypeOK
  <2> QED
    BY <2>1, <2>3, <2>4, OneMoves
<1> QED
  BY <1>1, <1>2, <1>3 DEF IInv

LEMMA PublishStageKeeps ==
    ASSUME IInv, NEW p \in Processes, PublishStage(p)
    PROVE  IInv'
<1> USE DEF PublishStage, Abort, Release, Committing
<1>1. TypeOK'
  BY ProcessesAssumption DEF IInv, TypeOK, Contents, Outcomes, Upsets, Locking
<1>2. Locking'
  BY ProcessesAssumption DEF IInv, TypeOK, Locking, Active, Rolling
<1>3. ASSUME upsets' = {} PROVE Orderly'
  <2>1. TypeOK /\ Locking /\ Orderly /\ upsets = {} /\ Active(p)
    BY <1>3 DEF IInv, Active
  <2>2. AtStep(p)
    BY <2>1 DEF Orderly
  <2>3. (Active(p)' => AtStep(p)') /\ (~Active(p)' => Settled')
    BY <1>3, <2>1, <2>2, ProcessesAssumption
    DEF Active, TypeOK, Locking, AtStep, AtReplaceStep, AtNewTargetStep, AtRecoveryStep,
        AtStageStep, AtBackupStep, Looking, Settled, Untouched, Prepared, MovedAway, Exchanged,
        Committed, PutBack, NoTarget, Blank, Whole
  <2>4. ArchiveInOrder'
    BY <2>1 DEF Orderly, ArchiveInOrder, TypeOK
  <2> QED
    BY <2>1, <2>3, <2>4, OneMoves
<1> QED
  BY <1>1, <1>2, <1>3 DEF IInv

LEMMA PublishNewTargetKeeps ==
    ASSUME IInv, NEW p \in Processes, PublishNewTarget(p)
    PROVE  IInv'
<1> USE DEF PublishNewTarget, Abort, Release, Committing
<1>1. TypeOK'
  BY ProcessesAssumption DEF IInv, TypeOK, Contents, Outcomes, Upsets, Locking
<1>2. Locking'
  BY ProcessesAssumption DEF IInv, TypeOK, Locking, Active, Rolling
<1>3. ASSUME upsets' = {} PROVE Orderly'
  <2>1. TypeOK /\ Locking /\ Orderly /\ upsets = {} /\ Active(p)
    BY <1>3 DEF IInv, Active
  <2>2. AtStep(p)
    BY <2>1 DEF Orderly
  <2>3. (Active(p)' => AtStep(p)') /\ (~Active(p)' => Settled')
    BY <1>3, <2>1, <2>2, ProcessesAssumption
    DEF Active, TypeOK, Locking, AtStep, AtReplaceStep, AtNewTargetStep, AtRecoveryStep,
        AtStageStep, AtBackupStep, Looking, Settled, Untouched, Prepared, MovedAway, Exchanged,
        Committed, PutBack, NoTarget, Blank, Whole
  <2>4. ArchiveInOrder'
    BY <2>1 DEF Orderly, ArchiveInOrder, TypeOK
  <2> QED
    BY <2>1, <2>3, <2>4, OneMoves
<1> QED
  BY <1>1, <1>2, <1>3 DEF IInv

LEMMA VerifyTargetKeeps ==
    ASSUME IInv, NEW p \in Processes, VerifyTarget(p)
    PROVE  IInv'
<1> USE DEF VerifyTarget, Abort, Release, Committing
<1>1. TypeOK'
  BY ProcessesAssumption DEF IInv, TypeOK, Contents, Outcomes, Upsets, Locking
<1>2. Locking'
  BY ProcessesAssumption DEF IInv, TypeOK, Locking, Active, Rolling
<1>3. ASSUME upsets' = {} PROVE Orderly'
  <2>1. TypeOK /\ Locking /\ Orderly /\ upsets = {} /\ Active(p)
    BY <1>3 DEF IInv, Active
  <2>2. AtStep(p)
    BY <2>1 DEF Orderly
  <2>3. (Active(p)' => AtStep(p)') /\ (~Active(p)' => Settled')
    BY <1>3, <2>1, <2>2, ProcessesAssumption
    DEF Active, TypeOK, Locking, AtStep, AtReplaceStep, AtNewTargetStep, AtRecoveryStep,
        AtStageStep, AtBackupStep, Looking, Settled, Untouched, Prepared, MovedAway, Exchanged,
        Committed, PutBack, NoTarget, Blank, Whole
  <2>4. ArchiveInOrder'
    BY <2>1 DEF Orderly, ArchiveInOrder, TypeOK
  <2> QED
    BY <2>1, <2>3, <2>4, OneMoves
<1> QED
  BY <1>1, <1>2, <1>3 DEF IInv

LEMMA CommitStepFailsKeeps ==
    ASSUME IInv, NEW p \in Processes, CommitStepFails(p)
    PROVE  IInv'
<1> USE DEF CommitStepFails, Abort, Release, Committing
<1>1. TypeOK'
  BY ProcessesAssumption DEF IInv, TypeOK, Contents, Outcomes, Upsets, Locking
<1>2. Locking'
  BY ProcessesAssumption DEF IInv, TypeOK, Locking, Active, Rolling
<1>3. ASSUME upsets' = {} PROVE Orderly'
  <2>1. TypeOK /\ Locking /\ Orderly /\ upsets = {} /\ Active(p)
    BY <1>3 DEF IInv, Active
  <2>2. AtStep(p)
    BY <2>1 DEF Orderly
  <2>3. (Active(p)' => AtStep(p)') /\ (~Active(p)' => Settled')
    BY <1>3, <2>1, <2>2, ProcessesAssumption
    DEF Active, TypeOK, Locking, AtStep, AtReplaceStep, AtNewTargetStep, AtRecoveryStep,
        AtStageStep, AtBackupStep, Looking, Settled, Untouched, Prepared, MovedAway, Exchanged,
        Committed, PutBack, NoTarget, Blank, Whole
  <2>4. ArchiveInOrder'
    BY <2>1 DEF Orderly, ArchiveInOrder, TypeOK
  <2> QED
    BY <2>1, <2>3, <2>4, OneMoves
<1> QED
  BY <1>1, <1>2, <1>3 DEF IInv

LEMMA AppendProvenanceKeeps ==
    ASSUME IInv, NEW p \in Processes, AppendProvenance(p)
    PROVE  IInv'
<1> USE DEF AppendProvenance, Release, Answer
<1>1. TypeOK'
  BY ProcessesAssumption DEF IInv, TypeOK, Contents, Outcomes, Upsets, Locking
<1>2. Locking'
  BY ProcessesAssumption DEF IInv, TypeOK, Locking, Active, Rolling
<1>3. ASSUME upsets' = {} PROVE Orderly'
  <2>1. TypeOK /\ Locking /\ Orderly /\ upsets = {} /\ Active(p)
    BY <1>3 DEF IInv, Active
  <2>2. AtStep(p)
    BY <2>1 DEF Orderly
  <2>3. (Active(p)' => AtStep(p)') /\ (~Active(p)' => Settled')
    BY <1>3, <2>1, <2>2, ProcessesAssumption
    DEF Active, TypeOK, Locking, AtStep, AtReplaceStep, AtNewTargetStep, AtRecoveryStep,
        AtStageStep, AtBackupStep, Looking, Settled, Untouched, Prepared, MovedAway, Exchanged,
        Committed, PutBack, NoTarget, Blank, Whole
  <2>4. ArchiveInOrder'
    BY <2>1 DEF Orderly, ArchiveInOrder, TypeOK
  <2> QED
    BY <2>1, <2>3, <2>4, OneMoves
<1> QED
  BY <1>1, <1>2, <1>3 DEF IInv

LEMMA AppendProvenanceFailsKeeps ==
    ASSUME IInv, NEW p \in Processes, AppendProvenanceFails(p)
    PROVE  IInv'
<1> USE DEF AppendProvenanceFails, GiveUp, Release, Upset
<1>1. TypeOK'
  BY ProcessesAssumption DEF IInv, TypeOK, Contents, Outcomes, Upsets, Locking
<1>2. Locking'
  BY ProcessesAssumption DEF IInv, TypeOK, Locking, Active, Rolling
<1>3. ASSUME upsets' = {} PROVE Orderly'
  <2>1. TypeOK /\ Locking /\ Orderly /\ upsets = {} /\ Active(p)
    BY <1>3 DEF IInv, Active
  <2>2. AtStep(p)
    BY <2>1 DEF Orderly
  <2>3. (Active(p)' => AtStep(p)') /\ (~Active(p)' => Settled')
    BY <1>3, <2>1, <2>2, ProcessesAssumption
    DEF Active, TypeOK, Locking, AtStep, AtReplaceStep, AtNewTargetStep, AtRecoveryStep,
        AtStageStep, AtBackupStep, Looking, Settled, Untouched, Prepared, MovedAway, Exchanged,
        Committed, PutBack, NoTarget, Blank, Whole
  <2>4. ArchiveInOrder'
    BY <2>1 DEF Orderly, ArchiveInOrder, TypeOK
  <2> QED
    BY <2>1, <2>3, <2>4, OneMoves
<1> QED
  BY <1>1, <1>2, <1>3 DEF IInv

LEMMA CleanupCommittedKeeps ==
    ASSUME IInv, NEW p \in Processes, CleanupCommitted(p)
    PROVE  IInv'
<1> USE DEF CleanupCommitted
<1>1. TypeOK'
  BY ProcessesAssumption DEF IInv, TypeOK, Contents, Outcomes, Upsets, Locking
<1>2. Locking'
  BY ProcessesAssumption DEF IInv, TypeOK, Locking, Active, Rolling
<1>3. ASSUME upsets' = {} PROVE Orderly'
  <2>1. TypeOK /\ Locking /\ Orderly /\ upsets = {} /\ Active(p)
    BY <1>3 DEF IInv, Active
  <2>2. AtStep(p)
    BY <2>1 DEF Orderly
  <2>3. (Active(p)' => AtStep(p)') /\ (~Active(p)' => Settled')
    BY <1>3, <2>1, <2>2, ProcessesAssumption
    DEF Active, TypeOK, Locking, AtStep, AtReplaceStep, AtNewTargetStep, AtRecoveryStep,
        AtStageStep, AtBackupStep, Looking, Settled, Untouched, Prepared, MovedAway, Exchanged,
        Committed, PutBack, NoTarget, Blank, Whole
  <2>4. ArchiveInOrder'
    BY <2>1 DEF Orderly, ArchiveInOrder, TypeOK
  <2> QED
    BY <2>1, <2>3, <2>4, OneMoves
<1> QED
  BY <1>1, <1>2, <1>3 DEF IInv

LEMMA DeleteJournalKeeps ==
    ASSUME IInv, NEW p \in Processes, DeleteJournal(p)
    PROVE  IInv'
<1> USE DEF DeleteJournal, Release, Answer
<1>1. TypeOK'
  BY ProcessesAssumption DEF IInv, TypeOK, Contents, Outcomes, Upsets, Locking
<1>2. Locking'
  BY ProcessesAssumption DEF IInv, TypeOK, Locking, Active, Rolling
<1>3. ASSUME upsets' = {} PROVE Orderly'
  <2>1. TypeOK /\ Locking /\ Orderly /\ upsets = {} /\ Active(p)
    BY <1>3 DEF IInv, Active
  <2>2. AtStep(p)
    BY <2>1 DEF Orderly
  <2>3. (Active(p)' => AtStep(p)') /\ (~Active(p)' => Settled')
    BY <1>3, <2>1, <2>2, ProcessesAssumption
    DEF Active, TypeOK, Locking, AtStep, AtReplaceStep, AtNewTargetStep, AtRecoveryStep,
        AtStageStep, AtBackupStep, Looking, Settled, Untouched, Prepared, MovedAway, Exchanged,
        Committed, PutBack, NoTarget, Blank, Whole
  <2>4. ArchiveInOrder'
    BY <2>1 DEF Orderly, ArchiveInOrder, TypeOK
  <2> QED
    BY <2>1, <2>3, <2>4, OneMoves
<1> QED
  BY <1>1, <1>2, <1>3 DEF IInv

LEMMA RollbackNotRequiredKeeps ==
    ASSUME IInv, NEW p \in Processes, RollbackNotRequired(p)
    PROVE  IInv'
<1> USE DEF RollbackNotRequired, Release
<1>1. TypeOK'
  BY ProcessesAssumption DEF IInv, TypeOK, Contents, Outcomes, Upsets, Locking
<1>2. Locking'
  BY ProcessesAssumption DEF IInv, TypeOK, Locking, Active, Rolling
<1>3. ASSUME upsets' = {} PROVE Orderly'
  <2>1. TypeOK /\ Locking /\ Orderly /\ upsets = {} /\ Active(p)
    BY <1>3 DEF IInv, Active
  <2>2. AtStep(p)
    BY <2>1 DEF Orderly
  <2>3. (Active(p)' => AtStep(p)') /\ (~Active(p)' => Settled')
    BY <1>3, <2>1, <2>2, ProcessesAssumption
    DEF Active, TypeOK, Locking, AtStep, AtReplaceStep, AtNewTargetStep, AtRecoveryStep,
        AtStageStep, AtBackupStep, Looking, Settled, Untouched, Prepared, MovedAway, Exchanged,
        Committed, PutBack, NoTarget, Blank, Whole
  <2>4. ArchiveInOrder'
    BY <2>1 DEF Orderly, ArchiveInOrder, TypeOK
  <2> QED
    BY <2>1, <2>3, <2>4, OneMoves
<1> QED
  BY <1>1, <1>2, <1>3 DEF IInv

LEMMA RemoveTargetKeeps ==
    ASSUME IInv, NEW p \in Processes, RemoveTarget(p)
    PROVE  IInv'
<1> USE DEF RemoveTarget
<1>1. TypeOK'
  BY ProcessesAssumption DEF IInv, TypeOK, Contents, Outcomes, Upsets, Locking
<1>2. Locking'
  BY ProcessesAssumption DEF IInv, TypeOK, Locking, Active, Rolling
<1>3. ASSUME upsets' = {} PROVE Orderly'
  <2>1. TypeOK /\ Locking /\ Orderly /\ upsets = {} /\ Active(p)
    BY <1>3 DEF IInv, Active
  <2>2. AtStep(p)
    BY <2>1 DEF Orderly
  <2>3. (Active(p)' => AtStep(p)') /\ (~Active(p)' => Settled')
    BY <1>3, <2>1, <2>2, ProcessesAssumption
    DEF Active, TypeOK, Locking, AtStep, AtReplaceStep, AtNewTargetStep, AtRecoveryStep,
        AtStageStep, AtBackupStep, Looking, Settled, Untouched, Prepared, MovedAway, Exchanged,
        Committed, PutBack, NoTarget, Blank, Whole
  <2>4. ArchiveInOrder'
    BY <2>1 DEF Orderly, ArchiveInOrder, TypeOK
  <2> QED
    BY <2>1, <2>3, <2>4, OneMoves
<1> QED
  BY <1>1, <1>2, <1>3 DEF IInv

LEMMA RestoreOldKeeps ==
    ASSUME IInv, NEW p \in Processes, RestoreOld(p)
    PROVE  IInv'
<1> USE DEF RestoreOld, GiveUp, Release
<1>1. TypeOK'
  BY ProcessesAssumption DEF IInv, TypeOK, Contents, Outcomes, Upsets, Locking
<1>2. Locking'
  BY ProcessesAssumption DEF IInv, TypeOK, Locking, Active, Rolling
<1>3. ASSUME upsets' = {} PROVE Orderly'
  <2>1. TypeOK /\ Locking /\ Orderly /\ upsets = {} /\ Active(p)
    BY <1>3 DEF IInv, Active
  <2>2. AtStep(p)
    BY <2>1 DEF Orderly
  <2>3. (Active(p)' => AtStep(p)') /\ (~Active(p)' => Settled')
    BY <1>3, <2>1, <2>2, ProcessesAssumption
    DEF Active, TypeOK, Locking, AtStep, AtReplaceStep, AtNewTargetStep, AtRecoveryStep,
        AtStageStep, AtBackupStep, Looking, Settled, Untouched, Prepared, MovedAway, Exchanged,
        Committed, PutBack, NoTarget, Blank, Whole
  <2>4. ArchiveInOrder'
    BY <2>1 DEF Orderly, ArchiveInOrder, TypeOK
  <2> QED
    BY <2>1, <2>3, <2>4, OneMoves
<1> QED
  BY <1>1, <1>2, <1>3 DEF IInv

LEMMA RemovalFailsKeeps ==
    ASSUME IInv, NEW p \in Processes, RemovalFails(p)
    PROVE  IInv'
<1> USE DEF RemovalFails, GiveUp, Release, Upset, PartlyDone, Remains
<1>1. TypeOK'
  BY ProcessesAssumption DEF IInv, TypeOK, Contents, Outcomes, Upsets, Locking
<1>2. Locking'
  BY ProcessesAssumption DEF IInv, TypeOK, Locking, Active, Rolling
<1>3. ASSUME upsets' = {} PROVE Orderly'
  <2>1. TypeOK /\ Locking /\ Orderly /\ upsets = {} /\ Active(p)
    BY <1>3 DEF IInv, Active
  <2>2. AtStep(p)
    BY <2>1 DEF Orderly
  <2>3. ~Active(p)'
    BY <2>1 DEF TypeOK, Active
  <2>4. Settled'
    <3>1. Upset(p) = {}
      BY <1>3
    <3> QED
      BY <2>1, <2>2, <3>1, CutSettles
  <2>5. ArchiveInOrder'
    BY <2>1 DEF Orderly, ArchiveInOrder, TypeOK
  <2> QED
    BY <2>1, <2>3, <2>4, <2>5, OneMoves
<1> QED
  BY <1>1, <1>2, <1>3 DEF IInv

LEMMA ForgetJournalKeeps ==
    ASSUME IInv, NEW p \in Processes, ForgetJournal(p)
    PROVE  IInv'
<1> USE DEF ForgetJournal
<1>1. TypeOK'
  BY ProcessesAssumption DEF IInv, TypeOK, Contents, Outcomes, Upsets, Locking
<1>2. Locking'
  BY ProcessesAssumption DEF IInv, TypeOK, Locking, Active, Rolling
<1>3. ASSUME upsets' = {} PROVE Orderly'
  <2>1. TypeOK /\ Locking /\ Orderly /\ upsets = {} /\ Active(p)
    BY <1>3 DEF IInv, Active
  <2>2. AtStep(p)
    BY <2>1 DEF Orderly
  <2>3. (Active(p)' => AtStep(p)') /\ (~Active(p)' => Settled')
    BY <1>3, <2>1, <2>2, ProcessesAssumption
    DEF Active, TypeOK, Locking, AtStep, AtReplaceStep, AtNewTargetStep, AtRecoveryStep,
        AtStageStep, AtBackupStep, Looking, Settled, Untouched, Prepared, MovedAway, Exchanged,
        Committed, PutBack, NoTarget, Blank, Whole
  <2>4. ArchiveInOrder'
    BY <2>1 DEF Orderly, ArchiveInOrder, TypeOK
  <2> QED
    BY <2>1, <2>3, <2>4, OneMoves
<1> QED
  BY <1>1, <1>2, <1>3 DEF IInv

LEMMA LoadJournalKeeps ==
    ASSUME IInv, NEW p \in Processes, LoadJournal(p)
    PROVE  IInv'
<1> USE DEF LoadJournal, Outcome, Release, Answer
<1>1. TypeOK'
  BY ProcessesAssumption DEF IInv, TypeOK, Contents, Outcomes, Upsets, Locking
<1>2. Locking'
  BY ProcessesAssumption DEF IInv, TypeOK, Locking, Active, Rolling
<1>3. ASSUME upsets' = {} PROVE Orderly'
  <2>1. TypeOK /\ Locking /\ Orderly /\ upsets = {} /\ Active(p)
    BY <1>3 DEF IInv, Active
  <2>2. AtStep(p)
    BY <2>1 DEF Orderly
  <2>3. (Active(p)' => AtStep(p)') /\ (~Active(p)' => Settled')
    BY <1>3, <2>1, <2>2, ProcessesAssumption, ValidIs
    DEF Active, TypeOK, Locking, AtStep, AtReplaceStep, AtNewTargetStep, AtRecoveryStep,
        AtStageStep, AtBackupStep, Looking, Settled, Untouched, Prepared, MovedAway, Exchanged,
        Committed, PutBack, NoTarget, Blank, Whole
  <2>4. ArchiveInOrder'
    BY <2>1 DEF Orderly, ArchiveInOrder, TypeOK
  <2> QED
    BY <2>1, <2>3, <2>4, OneMoves
<1> QED
  BY <1>1, <1>2, <1>3 DEF IInv

LEMMA ServeKeeps ==
    ASSUME IInv, NEW p \in Processes, Serve(p)
    PROVE  IInv'
<1> USE DEF Serve
<1>1. TypeOK'
  <2>1. target' \in Contents /\ upsets' \subseteq Upsets
    BY DEF IInv, TypeOK, Contents, Upsets
  <2> QED
    BY <2>1 DEF IInv, TypeOK
<1>2. Locking'
  BY ProcessesAssumption DEF IInv, TypeOK, Locking, Active, Rolling
<1>3. ASSUME upsets' = {} PROVE Orderly'
  <2>1. TypeOK /\ Locking /\ Orderly /\ upsets = {} /\ Active(p)
    BY <1>3 DEF IInv, Active
  <2>2. AtStep(p)
    BY <2>1 DEF Orderly
  <2>3. (Active(p)' => AtStep(p)') /\ (~Active(p)' => Settled')
    BY <1>3, <2>1, <2>2, ProcessesAssumption, ValidIs
    DEF Active, TypeOK, Locking, AtStep, AtReplaceStep, AtNewTargetStep, AtRecoveryStep,
        AtStageStep, AtBackupStep, Looking, Settled, Untouched, Prepared, MovedAway, Exchanged,
        Committed, PutBack, NoTarget, Blank, Whole
  <2>4. ArchiveInOrder'
    BY <2>1 DEF Orderly, ArchiveInOrder, TypeOK
  <2> QED
    BY <2>1, <2>3, <2>4, OneMoves
<1> QED
  BY <1>1, <1>2, <1>3 DEF IInv

LEMMA ServeEndsKeeps ==
    ASSUME IInv, NEW p \in Processes, ServeEnds(p)
    PROVE  IInv'
<1> USE DEF ServeEnds, Release
<1>1. TypeOK'
  BY ProcessesAssumption DEF IInv, TypeOK, Contents, Outcomes, Upsets, Locking
<1>2. Locking'
  BY ProcessesAssumption DEF IInv, TypeOK, Locking, Active, Rolling
<1>3. ASSUME upsets' = {} PROVE Orderly'
  <2>1. TypeOK /\ Locking /\ Orderly /\ upsets = {} /\ Active(p)
    BY <1>3 DEF IInv, Active
  <2>2. AtStep(p)
    BY <2>1 DEF Orderly
  <2>3. (Active(p)' => AtStep(p)') /\ (~Active(p)' => Settled')
    BY <1>3, <2>1, <2>2, ProcessesAssumption
    DEF Active, TypeOK, Locking, AtStep, AtReplaceStep, AtNewTargetStep, AtRecoveryStep,
        AtStageStep, AtBackupStep, Looking, Settled, Untouched, Prepared, MovedAway, Exchanged,
        Committed, PutBack, NoTarget, Blank, Whole
  <2>4. ArchiveInOrder'
    BY <2>1 DEF Orderly, ArchiveInOrder, TypeOK
  <2> QED
    BY <2>1, <2>3, <2>4, OneMoves
<1> QED
  BY <1>1, <1>2, <1>3 DEF IInv

LEMMA BackupFailsKeeps ==
    ASSUME IInv, NEW p \in Processes, BackupFails(p)
    PROVE  IInv'
<1> USE DEF BackupFails, Release
<1>1. TypeOK'
  BY ProcessesAssumption DEF IInv, TypeOK, Contents, Outcomes, Upsets, Locking
<1>2. Locking'
  BY ProcessesAssumption DEF IInv, TypeOK, Locking, Active, Rolling
<1>3. ASSUME upsets' = {} PROVE Orderly'
  <2>1. TypeOK /\ Locking /\ Orderly /\ upsets = {} /\ Active(p)
    BY <1>3 DEF IInv, Active
  <2>2. AtStep(p)
    BY <2>1 DEF Orderly
  <2>3. (Active(p)' => AtStep(p)') /\ (~Active(p)' => Settled')
    BY <1>3, <2>1, <2>2, ProcessesAssumption
    DEF Active, TypeOK, Locking, AtStep, AtReplaceStep, AtNewTargetStep, AtRecoveryStep,
        AtStageStep, AtBackupStep, Looking, Settled, Untouched, Prepared, MovedAway, Exchanged,
        Committed, PutBack, NoTarget, Blank, Whole
  <2>4. ArchiveInOrder'
    BY <2>1 DEF Orderly, ArchiveInOrder, TypeOK
  <2> QED
    BY <2>1, <2>3, <2>4, OneMoves
<1> QED
  BY <1>1, <1>2, <1>3 DEF IInv

LEMMA InventoryKeeps ==
    ASSUME IInv, NEW p \in Processes, Inventory(p)
    PROVE  IInv'
<1> USE DEF Inventory, Answer
<1>1. TypeOK'
  BY ProcessesAssumption DEF IInv, TypeOK, Contents, Outcomes, Upsets, Locking
<1>2. Locking'
  BY ProcessesAssumption DEF IInv, TypeOK, Locking, Active, Rolling
<1>3. ASSUME upsets' = {} PROVE Orderly'
  <2>1. TypeOK /\ Locking /\ Orderly /\ upsets = {} /\ Active(p)
    BY <1>3 DEF IInv, Active
  <2>2. AtStep(p)
    BY <2>1 DEF Orderly
  <2>3. Active(p)' => AtStep(p)'
    <3>1. Settled /\ p \in Backups
      BY <2>1, <2>2, ProcessesAssumption DEF AtStep, Looking, Locking
    <3>2. Whole(target)
      <4>1. Valid(target)
        BY InventoriedIsValid DEF Valid
      <4> QED
        BY <2>1, <3>1, <4>1, ValidIs
        DEF TypeOK, Settled, Untouched, Prepared, MovedAway, Exchanged, Committed, Blank, Whole
    <3>3. Settled'
      BY <3>1
      DEF Settled, Untouched, Prepared, MovedAway, Exchanged, Committed, PutBack, NoTarget, Blank,
          Whole
    <3>4. pc'[p] = "stream" /\ answer'[p] = target
      BY <2>1 DEF TypeOK
    <3> QED
      BY <3>1, <3>2, <3>3, <3>4, ProcessesAssumption
      DEF AtStep, AtReplaceStep, AtNewTargetStep, AtRecoveryStep, AtStageStep, AtBackupStep,
          Looking, Whole
  <2>4. ~Active(p)' => Settled'
    BY <1>3, <2>1, <2>2, ProcessesAssumption, ValidIs, InventoriedIsValid
    DEF Active, TypeOK, Locking, AtStep, AtReplaceStep, AtNewTargetStep, AtRecoveryStep,
        AtStageStep, AtBackupStep, Looking, Settled, Untouched, Prepared, MovedAway, Exchanged,
        Committed, PutBack, NoTarget, Blank, Whole
  <2>5. ArchiveInOrder'
    BY <2>1 DEF Orderly, ArchiveInOrder, TypeOK
  <2> QED
    BY <2>1, <2>3, <2>4, <2>5, OneMoves
<1> QED
  BY <1>1, <1>2, <1>3 DEF IInv

LEMMA StreamRecordsKeeps ==
    ASSUME IInv, NEW p \in Processes, StreamRecords(p)
    PROVE  IInv'
<1> USE DEF StreamRecords, ReadArtifact
<1>1. TypeOK'
  BY ProcessesAssumption DEF IInv, TypeOK, Contents, Outcomes, Upsets, Locking
<1>2. Locking'
  BY ProcessesAssumption DEF IInv, TypeOK, Locking, Active, Rolling
<1>3. ASSUME upsets' = {} PROVE Orderly'
  <2>1. TypeOK /\ Locking /\ Orderly /\ upsets = {} /\ Active(p)
    BY <1>3 DEF IInv, Active
  <2>2. AtStep(p)
    BY <2>1 DEF Orderly
  <2>3. (Active(p)' => AtStep(p)') /\ (~Active(p)' => Settled')
    BY <1>3, <2>1, <2>2, ProcessesAssumption
    DEF Active, TypeOK, Locking, AtStep, AtReplaceStep, AtNewTargetStep, AtRecoveryStep,
        AtStageStep, AtBackupStep, Looking, Settled, Untouched, Prepared, MovedAway, Exchanged,
        Committed, PutBack, NoTarget, Blank, Whole
  <2>4. ArchiveInOrder'
    BY <2>1, <2>2 DEF Orderly, ArchiveInOrder, TypeOK, AtStep, AtBackupStep, Whole
  <2> QED
    BY <2>1, <2>3, <2>4, OneMoves
<1> QED
  BY <1>1, <1>2, <1>3 DEF IInv

LEMMA PublishArchiveKeeps ==
    ASSUME IInv, NEW p \in Processes, PublishArchive(p)
    PROVE  IInv'
<1> USE DEF PublishArchive, Release
<1>1. TypeOK'
  BY ProcessesAssumption DEF IInv, TypeOK, Contents, Outcomes, Upsets, Locking
<1>2. Locking'
  BY ProcessesAssumption DEF IInv, TypeOK, Locking, Active, Rolling
<1>3. ASSUME upsets' = {} PROVE Orderly'
  <2>1. TypeOK /\ Locking /\ Orderly /\ upsets = {} /\ Active(p)
    BY <1>3 DEF IInv, Active
  <2>2. AtStep(p)
    BY <2>1 DEF Orderly
  <2>3. (Active(p)' => AtStep(p)') /\ (~Active(p)' => Settled')
    BY <1>3, <2>1, <2>2, ProcessesAssumption
    DEF Active, TypeOK, Locking, AtStep, AtReplaceStep, AtNewTargetStep, AtRecoveryStep,
        AtStageStep, AtBackupStep, Looking, Settled, Untouched, Prepared, MovedAway, Exchanged,
        Committed, PutBack, NoTarget, Blank, Whole
  <2>4. ArchiveInOrder'
    BY <2>1, <2>2 DEF Orderly, ArchiveInOrder, TypeOK, AtStep, AtBackupStep
  <2> QED
    BY <2>1, <2>3, <2>4, OneMoves
<1> QED
  BY <1>1, <1>2, <1>3 DEF IInv

LEMMA TryAcquireExclusiveKeeps ==
    ASSUME IInv, NEW p \in Processes, TryAcquireExclusive(p)
    PROVE  IInv'
<1> USE DEF TryAcquireExclusive
<1>0. ~Active(p) /\ ~Rolling(p) /\ Active(p)' /\ ~Rolling(p)' /\ p # NoOne
  BY ProcessesAssumption DEF IInv, Active, Rolling, TypeOK
<1>1. TypeOK'
  BY ProcessesAssumption DEF IInv, TypeOK, Upsets
<1>2. Locking'
  <2>1. \A q \in Processes \ {p} : /\ pc'[q] = pc[q] /\ lock # q /\ lock' # q
                                   /\ Active(q)' = Active(q) /\ Rolling(q)' = Rolling(q)
    BY ProcessesAssumption DEF IInv, TypeOK, Active, Rolling
  <2> QED
    BY <1>0, <2>1, ProcessesAssumption DEF IInv, TypeOK, Locking
<1>3. ASSUME upsets' = {} PROVE Orderly'
  <2>1. TypeOK /\ Locking /\ Orderly /\ upsets = {}
    BY <1>3 DEF IInv
  <2>2. \A q \in Processes : ~Active(q)
    BY <1>3, <2>1, ProcessesAssumption DEF Locking, Rolling
  <2>3. Settled'
    BY <2>1, <2>2
    DEF Orderly, Settled, Untouched, Prepared, MovedAway, Exchanged, Committed, PutBack, NoTarget,
        Blank, Whole
  <2>4. \A q \in Processes \ {p} : ~Active(q)'
    BY <2>1, <2>2 DEF Active, TypeOK
  <2>5. AtStep(p)'
    BY <2>1, <2>3, ProcessesAssumption
    DEF AtStep, AtReplaceStep, AtNewTargetStep, AtRecoveryStep, AtStageStep, AtBackupStep, Looking,
        TypeOK
  <2> QED
    BY <2>1, <2>3, <2>4, <2>5 DEF Orderly, ArchiveInOrder
<1> QED
  BY <1>1, <1>2, <1>3 DEF IInv

LEMMA EnsureDataLayoutKeeps ==
    ASSUME IInv, NEW p \in Processes, EnsureDataLayout(p)
    PROVE  IInv'
<1> USE DEF EnsureDataLayout
<1>1. TypeOK'
  BY ProcessesAssumption DEF IInv, TypeOK, Contents, Outcomes, Upsets, Locking
<1>2. Locking'
  BY ProcessesAssumption DEF IInv, TypeOK, Locking, Active, Rolling
<1>3. ASSUME upsets' = {} PROVE Orderly'
  <2>1. TypeOK /\ Locking /\ Orderly /\ upsets = {} /\ ~Active(p)
    BY <1>3 DEF IInv, Active
  <2>2. Settled => Settled'
    BY DEF Settled, Untouched, Prepared, MovedAway, Exchanged, Committed, PutBack, NoTarget, Blank,
           Whole
  <2>3. ASSUME NEW q \in Processes \ {p}, Active(q), AtStep(q) PROVE AtStep(q)'
    <3>1. pc'[q] = pc[q] /\ answer' = answer
      BY <2>1 DEF TypeOK
    <3> QED
      BY <1>3, <2>1, <2>3, <3>1
      DEF AtStep, AtReplaceStep, AtNewTargetStep, AtRecoveryStep, AtStageStep, AtBackupStep,
          Looking, Settled, Untouched, Prepared, MovedAway, Exchanged, Committed, PutBack,
          NoTarget, Blank, Whole
  <2>4. ArchiveInOrder'
    BY <2>1 DEF Orderly, ArchiveInOrder, TypeOK
  <2> QED
    BY <2>1, <2>2, <2>3, <2>4, OutsiderMoves
<1> QED
  BY <1>1, <1>2, <1>3 DEF IInv

LEMMA BackupBeginKeeps ==
    ASSUME IInv, NEW p \in Processes, BackupBegin(p)
    PROVE  IInv'
<1> USE DEF BackupBegin
<1>1. TypeOK'
  BY ProcessesAssumption DEF IInv, TypeOK, Contents, Outcomes, Upsets, Locking
<1>2. Locking'
  BY ProcessesAssumption DEF IInv, TypeOK, Locking, Active, Rolling
<1>3. ASSUME upsets' = {} PROVE Orderly'
  <2>1. TypeOK /\ Locking /\ Orderly /\ upsets = {} /\ ~Active(p)
    BY <1>3 DEF IInv, Active
  <2>2. Settled => Settled'
    BY DEF Settled, Untouched, Prepared, MovedAway, Exchanged, Committed, PutBack, NoTarget, Blank,
           Whole
  <2>3. ASSUME NEW q \in Processes \ {p}, Active(q), AtStep(q) PROVE AtStep(q)'
    <3>1. pc'[q] = pc[q] /\ answer' = answer
      BY <2>1 DEF TypeOK
    <3> QED
      BY <1>3, <2>1, <2>3, <3>1
      DEF AtStep, AtReplaceStep, AtNewTargetStep, AtRecoveryStep, AtStageStep, AtBackupStep,
          Looking, Settled, Untouched, Prepared, MovedAway, Exchanged, Committed, PutBack,
          NoTarget, Blank, Whole
  <2>4. ArchiveInOrder'
    BY <2>1 DEF Orderly, ArchiveInOrder, TypeOK
  <2> QED
    BY <2>1, <2>2, <2>3, <2>4, OutsiderMoves
<1> QED
  BY <1>1, <1>2, <1>3 DEF IInv

LEMMA RestoreBeginKeeps ==
    ASSUME IInv, NEW p \in Processes, RestoreBegin(p)
    PROVE  IInv'
<1> USE DEF RestoreBegin
<1>1. TypeOK'
  BY ProcessesAssumption DEF IInv, TypeOK, Contents, Outcomes, Upsets, Locking
<1>2. Locking'
  BY ProcessesAssumption DEF IInv, TypeOK, Locking, Active, Rolling
<1>3. ASSUME upsets' = {} PROVE Orderly'
  <2>1. TypeOK /\ Locking /\ Orderly /\ upsets = {} /\ ~Active(p)
    BY <1>3 DEF IInv, Active
  <2>2. Settled => Settled'
    BY DEF Settled, Untouched, Prepared, MovedAway, Exchanged, Committed, PutBack, NoTarget, Blank,
           Whole
  <2>3. ASSUME NEW q \in Processes \ {p}, Active(q), AtStep(q) PROVE AtStep(q)'
    <3>1. pc'[q] = pc[q] /\ answer' = answer
      BY <2>1 DEF TypeOK
    <3> QED
      BY <1>3, <2>1, <2>3, <3>1
      DEF AtStep, AtReplaceStep, AtNewTargetStep, AtRecoveryStep, AtStageStep, AtBackupStep,
          Looking, Settled, Untouched, Prepared, MovedAway, Exchanged, Committed, PutBack,
          NoTarget, Blank, Whole
  <2>4. ArchiveInOrder'
    BY <2>1 DEF Orderly, ArchiveInOrder, TypeOK
  <2> QED
    BY <2>1, <2>2, <2>3, <2>4, OutsiderMoves
<1> QED
  BY <1>1, <1>2, <1>3 DEF IInv

LEMMA DataDirectoryBusyKeeps ==
    ASSUME IInv, NEW p \in Processes, DataDirectoryBusy(p)
    PROVE  IInv'
<1> USE DEF DataDirectoryBusy
<1>1. TypeOK'
  BY ProcessesAssumption DEF IInv, TypeOK, Contents, Outcomes, Upsets, Locking
<1>2. Locking'
  BY ProcessesAssumption DEF IInv, TypeOK, Locking, Active, Rolling
<1>3. ASSUME upsets' = {} PROVE Orderly'
  <2>1. TypeOK /\ Locking /\ Orderly /\ upsets = {} /\ ~Active(p)
    BY <1>3 DEF IInv, Active
  <2>2. Settled => Settled'
    BY DEF Settled, Untouched, Prepared, MovedAway, Exchanged, Committed, PutBack, NoTarget, Blank,
           Whole
  <2>3. ASSUME NEW q \in Processes \ {p}, Active(q), AtStep(q) PROVE AtStep(q)'
    <3>1. pc'[q] = pc[q] /\ answer' = answer
      BY <2>1 DEF TypeOK
    <3> QED
      BY <1>3, <2>1, <2>3, <3>1
      DEF AtStep, AtReplaceStep, AtNewTargetStep, AtRecoveryStep, AtStageStep, AtBackupStep,
          Looking, Settled, Untouched, Prepared, MovedAway, Exchanged, Committed, PutBack,
          NoTarget, Blank, Whole, TypeOK
  <2>4. ArchiveInOrder'
    BY <2>1 DEF Orderly, ArchiveInOrder, TypeOK
  <2> QED
    BY <2>1, <2>2, <2>3, <2>4, OutsiderMoves
<1> QED
  BY <1>1, <1>2, <1>3 DEF IInv

LEMMA CleanupStageKeeps ==
    ASSUME IInv, NEW p \in Processes, CleanupStage(p)
    PROVE  IInv'
<1> USE DEF CleanupStage, Upset
<1>1. TypeOK'
  BY ProcessesAssumption DEF IInv, TypeOK, Contents, Outcomes, Upsets, Locking
<1>2. Locking'
  BY ProcessesAssumption DEF IInv, TypeOK, Locking, Active, Rolling
<1>3. ASSUME upsets' = {} PROVE Orderly'
  <2>1. TypeOK /\ Locking /\ Orderly /\ upsets = {} /\ ~Active(p)
    BY <1>3 DEF IInv, Active
  <2>2. Settled => Settled'
    BY DEF Settled, Untouched, Prepared, MovedAway, Exchanged, Committed, PutBack, NoTarget, Blank,
           Whole
  <2>3. ASSUME NEW q \in Processes \ {p}, Active(q), AtStep(q) PROVE AtStep(q)'
    <3>1. pc'[q] = pc[q] /\ answer' = answer
      BY <2>1 DEF TypeOK
    <3> QED
      BY <1>3, <2>1, <2>3, <3>1
      DEF AtStep, AtReplaceStep, AtNewTargetStep, AtRecoveryStep, AtStageStep, AtBackupStep,
          Looking, Settled, Untouched, Prepared, MovedAway, Exchanged, Committed, PutBack,
          NoTarget, Blank, Whole, Active, Alive, RestoreSteps
  <2>4. ArchiveInOrder'
    BY <2>1 DEF Orderly, ArchiveInOrder, TypeOK
  <2> QED
    BY <2>1, <2>2, <2>3, <2>4, OutsiderMoves
<1> QED
  BY <1>1, <1>2, <1>3 DEF IInv

LEMMA KillKeeps ==
    ASSUME IInv, NEW p \in Processes, Kill(p)
    PROVE  IInv'
<1> USE DEF Kill, Release
<1>1. TypeOK'
  <2>1. target' \in Contents /\ stage' \in Contents /\ rollback' \in Contents /\ maker' = maker
    BY DEF IInv, TypeOK, PartlyDone, Remains, Contents
  <2>2. upsets' \subseteq Upsets
    BY DEF IInv, TypeOK, Upset, Upsets
  <2> QED
    BY <2>1, <2>2 DEF IInv, TypeOK
<1>2. Locking'
  BY ProcessesAssumption DEF IInv, TypeOK, Locking, Active, Rolling
<1>3. ASSUME upsets' = {} PROVE Orderly'
  <2>1. TypeOK /\ Locking /\ Orderly /\ upsets = {} /\ Upset(p) = {}
    BY <1>3 DEF IInv
  <2>2. ArchiveInOrder'
    BY <2>1 DEF Orderly, ArchiveInOrder
  <2>3. CASE Active(p)
    <3>1. AtStep(p) /\ ~Active(p)'
      BY <2>1, <2>3 DEF Orderly, Active, TypeOK
    <3>2. Settled'
      BY <2>1, <2>3, <3>1, CutSettles
    <3> QED
      BY <2>1, <2>2, <2>3, <3>1, <3>2, OneMoves
  <2>4. CASE ~Active(p)
    <3>1. target' = target /\ rollback' = rollback
      BY <2>1, <2>4 DEF PartlyDone, Active
    <3>2. Settled => Settled'
      BY <3>1
      DEF Settled, Untouched, Prepared, MovedAway, Exchanged, Committed, PutBack, NoTarget, Blank,
          Whole
    <3>3. ASSUME NEW q \in Processes \ {p}, Active(q), AtStep(q) PROVE AtStep(q)'
      <4>1. pc'[q] = pc[q] /\ answer' = answer /\ maker' = maker
        BY <2>1 DEF TypeOK, PartlyDone
      <4>2. stage' # stage => ~(maker # p /\ Alive(maker))
        BY <2>1, <2>4 DEF PartlyDone, Upset, Active
      <4>3. Alive(q)
        BY <3>3 DEF Active, Alive, RestoreSteps
      <4>4. AtStageStep(q, pc[q])'
        BY <2>1, <3>3, <4>1, <4>2, <4>3 DEF AtStep, AtStageStep
      <4>5. AtBackupStep(q, pc[q])'
        BY <3>3, <4>1 DEF AtStep, AtBackupStep, Whole
      <4> QED
        BY <3>1, <3>3, <4>1, <4>4, <4>5
        DEF AtStep, AtReplaceStep, AtNewTargetStep, AtRecoveryStep, Looking, Settled, Untouched,
            Prepared, MovedAway, Exchanged, Committed, PutBack, NoTarget, Blank, Whole
    <3> QED
      BY <2>1, <2>2, <2>4, <3>2, <3>3, OutsiderMoves
  <2> QED
    BY <2>3, <2>4
<1> QED
  BY <1>1, <1>2, <1>3 DEF IInv

(* The disjuncts of Next.  Every action of the module is among them. *)
LEMMA NextKeeps == IInv /\ [Next]_vars => IInv'
<1> SUFFICES ASSUME IInv, [Next]_vars PROVE IInv'
  OBVIOUS
<1>1. CASE UNCHANGED vars
  BY <1>1
  DEF vars, IInv, TypeOK, Locking, Orderly, Active, Rolling, ArchiveInOrder, AtStep, AtReplaceStep,
      AtNewTargetStep, AtRecoveryStep, AtStageStep, AtBackupStep, Looking, Settled, Untouched,
      Prepared, MovedAway, Exchanged, Committed, PutBack, NoTarget, Blank, Whole
<1>2. ASSUME NEW p \in Processes,
             EnsureDataLayout(p) \/ Serve(p) \/ ServeEnds(p) \/ TryAcquireExclusive(p)
               \/ DataDirectoryBusy(p) \/ CreateBackupStep(p) \/ Kill(p)
      PROVE  IInv'
  BY <1>2, EnsureDataLayoutKeeps, ServeKeeps, ServeEndsKeeps, TryAcquireExclusiveKeeps,
     DataDirectoryBusyKeeps, BackupBeginKeeps, BackupFailsKeeps, InventoryKeeps,
     StreamRecordsKeeps, PublishArchiveKeeps, KillKeeps
  DEF CreateBackupStep
<1>3. ASSUME NEW p \in Processes, Staging(p) PROVE IInv'
  BY <1>3, RestoreBeginKeeps, CreateStageKeeps, ExtractKeeps, ExtractFailsKeeps, PreflightKeeps,
     PreflightFailsKeeps, VerifyTargetKeeps, CommitStepFailsKeeps, AppendProvenanceKeeps,
     AppendProvenanceFailsKeeps, CleanupStageKeeps
  DEF Staging
<1>4. ASSUME NEW p \in Processes, RollbackStep(p) PROVE IInv'
  BY <1>4, RollbackNotRequiredKeeps, RemoveTargetKeeps, RestoreOldKeeps, RemovalFailsKeeps
  DEF RollbackStep
<1>5. ASSUME NEW p \in Processes, RestoreBackup(p) PROVE IInv'
  BY <1>3, <1>5, PublishNewTargetKeeps, RemovalFailsKeeps DEF RestoreBackup
<1>6. ASSUME NEW p \in Processes, ReplaceRestoreBackup(p) PROVE IInv'
  BY <1>3, <1>4, <1>6, PersistKeeps, PersistFailsKeeps, MoveTargetToRollbackKeeps,
     PublishStageKeeps, CleanupCommittedKeeps, DeleteJournalKeeps, ForgetJournalKeeps
  DEF ReplaceRestoreBackup
<1>7. ASSUME NEW p \in Processes, RecoverRestore(p) PROVE IInv'
  BY <1>4, <1>7, RestoreBeginKeeps, LoadJournalKeeps, CleanupCommittedKeeps, AppendProvenanceKeeps,
     AppendProvenanceFailsKeeps, DeleteJournalKeeps
  DEF RecoverRestore
<1> QED
  BY <1>1, <1>2, <1>5, <1>6, <1>7 DEF Next

-----------------------------------------------------------------------------
(* The inductive invariant holds in every state that the commands of       *)
(* backup.rs, restore.rs and bootstrap.rs can reach, whichever of them     *)
(* run, fail or are killed.                                                *)
THEOREM DataDirectoryInvariant == Spec => []IInv
  BY InitKeeps, NextKeeps, PTL DEF Spec

LEMMA CutOffNow == IInv => CutOffIsDecided
<1> SUFFICES ASSUME IInv PROVE RollbackHasJournal /\ RecoveryDecides
  BY DEF CutOffIsDecided
<1>1. RollbackHasJournal
  <2> SUFFICES ASSUME upsets = {}, rollback # "absent" PROVE journal # NoJournal
    BY DEF RollbackHasJournal
  <2>1. Settled => journal # NoJournal
    BY DEF Settled, Untouched, Prepared, MovedAway, Exchanged, Committed
  <2>2. \A p \in Processes : Active(p) => AtStep(p)
    BY DEF IInv, Orderly
  <2>3. ASSUME NEW p \in Processes, Active(p) PROVE journal # NoJournal
    BY <2>1, <2>2, <2>3, ProcessesAssumption
    DEF Active, IInv, Locking, AtStep, AtReplaceStep, AtNewTargetStep, AtRecoveryStep, AtStageStep,
        AtBackupStep, Looking, PutBack, Untouched, Prepared, MovedAway, Exchanged, Committed
  <2> QED
    BY <2>1, <2>3 DEF IInv, Orderly
<1>2. RecoveryDecides
  <2> SUFFICES ASSUME upsets = {}, journal # NoJournal, lock = NoOne,
                      \A p \in Replaces : ~Alive(p)
               PROVE  Outcome(journal.state, Valid(target), Valid(rollback)) # "ambiguous"
    BY DEF RecoveryDecides
  <2>1. \A p \in Processes : ~Active(p)
    BY ProcessesAssumption DEF IInv, Locking, Rolling, Alive, RestoreSteps
  <2>2. Settled /\ TypeOK
    BY <2>1 DEF IInv, Orderly
  <2> QED
    BY <2>2, ValidIs
    DEF TypeOK, Outcome, Settled, Untouched, Prepared, MovedAway, Exchanged, Committed, Blank,
        Whole
<1> QED
  BY <1>1, <1>2

(* A replacement that was cut off anywhere can be finished or undone: a     *)
(* rollback copy is never without a journal, and whenever no command is at *)
(* work RecoverRestoreUseCase's table has an answer for what is on disk.   *)
THEOREM CutOffAlwaysDecided == Spec => []CutOffIsDecided
  BY CutOffNow, DataDirectoryInvariant, PTL

(* What `backup create` has published is one whole state of the directory, *)
(* although another `backup create` may remove its temporary file at any   *)
(* time.                                                                   *)
THEOREM ArchiveAlwaysWhole == Spec => []ArchiveIsWhole
<1>1. IInv => ArchiveIsWhole
  BY DEF IInv, Orderly, ArchiveInOrder, ArchiveIsWhole, Whole
<1> QED
  BY <1>1, DataDirectoryInvariant, PTL

-----------------------------------------------------------------------------
(* What a step does to the directories, and which step ends a command.     *)

(* A step that leaves no journal leaves the directories alone, fills an     *)
(* empty place, or leaves a whole target.                                  *)
SafeStep ==
    /\ \A s \in Serves : pc[s] = "serving" => target' = target
    /\ journal' = NoJournal => \/ target' = target /\ rollback' = rollback
                               \/ Whole(target')
                               \/ target = "absent" /\ journal = NoJournal

(* Between its first record and its end a replacement, or a recovery of    *)
(* it, has a journal.                                                      *)
LEMMA JournalNamesStep ==
    ASSUME IInv, upsets = {}, NEW p \in Processes,
           pc[p] \in {"move", "persistMoved", "persistPublished", "cleanup", "delete", "rollback",
                     "restoreOld", "forget"} \/ (pc[p] = "publish" /\ p \in Replaces)
    PROVE  journal # NoJournal
<1>1. AtStep(p) /\ Locking
  BY DEF IInv, Orderly, Active
<1> QED
  BY <1>1, ProcessesAssumption
  DEF Locking, AtStep, AtReplaceStep, AtRecoveryStep, PutBack, Prepared, MovedAway, Exchanged,
      Committed

(* A server that serves is the one active command. *)
LEMMA ServingIsAlone ==
    ASSUME IInv, upsets = {}, NEW s \in Serves, pc[s] = "serving", NEW p \in Processes, Active(p)
    PROVE  p = s /\ Whole(target)
  BY DEF IInv, Orderly, Active, AtStep

(* The steps of active commands that change the target or the rollback copy. *)
LEMMA ActiveStepIsSafe ==
    ASSUME IInv, upsets' = {}, upsets = {}, NEW p \in Processes, 
           \/ MoveTargetToRollback(p) \/ PublishStage(p) \/ PublishNewTarget(p)
           \/ CommitStepFails(p) \/ CleanupCommitted(p) \/ RemoveTarget(p) \/ RestoreOld(p)
           \/ RemovalFails(p) \/ Serve(p)
    PROVE  SafeStep
<1>1. Active(p) /\ pc[p] # "serving"
  BY DEF Active, MoveTargetToRollback, PublishStage, PublishNewTarget, CommitStepFails,
         CleanupCommitted, RemoveTarget, RestoreOld, RemovalFails, Serve
<1>2. \A s \in Serves : pc[s] # "serving"
  BY <1>1, ServingIsAlone
<1>3. CASE MoveTargetToRollback(p) \/ PublishStage(p) \/ CleanupCommitted(p) \/ RemoveTarget(p)
             \/ RestoreOld(p) \/ RemovalFails(p)
  <2>1. journal # NoJournal /\ journal' = journal
    BY <1>3, JournalNamesStep
    DEF MoveTargetToRollback, PublishStage, CleanupCommitted, RemoveTarget, RestoreOld,
        RemovalFails
  <2> QED
    BY <1>2, <2>1 DEF SafeStep
<1>4. CASE CommitStepFails(p)
  BY <1>2, <1>4, JournalNamesStep DEF CommitStepFails, SafeStep
<1>5. CASE PublishNewTarget(p)
  BY <1>2, <1>5 DEF PublishNewTarget, SafeStep
<1>6. CASE Serve(p)
  BY <1>2, <1>6 DEF Serve, SafeStep, Whole
<1> QED
  BY <1>3, <1>4, <1>5, <1>6
  
(* A kill, and the layout a starting server creates without the lock. *)
LEMMA OtherStepIsSafe ==
    ASSUME IInv, upsets' = {}, upsets = {}, NEW p \in Processes, Kill(p) \/ EnsureDataLayout(p)
    PROVE  SafeStep
<1>1. CASE EnsureDataLayout(p)
  <2>1. \A s \in Serves : pc[s] = "serving" => Whole(target)
    BY ServingIsAlone DEF Active
  <2> QED
    BY <1>1, <2>1 DEF EnsureDataLayout, SafeStep, Whole
<1>2. CASE Kill(p) /\ target' = target /\ rollback' = rollback
  BY <1>2 DEF SafeStep, Whole
<1>3. CASE Kill(p) /\ ~(target' = target /\ rollback' = rollback)
  <2>1. pc[p] \in {"rollback", "restoreOld", "cleanup"}
    BY <1>3 DEF Kill, PartlyDone
  <2>2. journal # NoJournal /\ journal' = journal
    BY <1>3, <2>1, JournalNamesStep DEF Kill
  <2>3. \A s \in Serves : pc[s] # "serving"
    BY <2>1, ServingIsAlone DEF Active
  <2> QED
    BY <2>2, <2>3 DEF SafeStep
<1> QED
  BY <1>1, <1>2, <1>3

(* The other actions leave the directories alone. *)
LEMMA NextIsSafe ==
    ASSUME IInv, upsets' = {}, [Next]_vars
    PROVE  upsets = {} /\ SafeStep
<1>0. upsets = {}
  <2>1. upsets \subseteq upsets'
    <3>1. ASSUME NEW p \in Processes, Staging(p) \/ RollbackStep(p) PROVE upsets \subseteq upsets'
      BY <3>1
      DEF Staging, RestoreBegin, CreateStage, Extract, ExtractFails, Preflight, PreflightFails,
          VerifyTarget, CommitStepFails, AppendProvenance, AppendProvenanceFails, CleanupStage,
          RollbackStep, RollbackNotRequired, RemoveTarget, RestoreOld, RemovalFails
    <3>2. ASSUME NEW p \in Processes,
                 RestoreBackup(p) \/ ReplaceRestoreBackup(p) \/ RecoverRestore(p)
          PROVE  upsets \subseteq upsets'
      BY <3>1, <3>2
      DEF RestoreBackup, ReplaceRestoreBackup, RecoverRestore, RollbackStep, RestoreBegin,
          PublishNewTarget, RemovalFails, Persist, PersistFails, MoveTargetToRollback,
          PublishStage, CleanupCommitted, DeleteJournal, ForgetJournal, LoadJournal,
          AppendProvenance, AppendProvenanceFails
    <3>3. ASSUME NEW p \in Processes,
                 EnsureDataLayout(p) \/ Serve(p) \/ ServeEnds(p) \/ TryAcquireExclusive(p)
                   \/ DataDirectoryBusy(p) \/ CreateBackupStep(p) \/ Kill(p)
          PROVE  upsets \subseteq upsets'
      BY <3>3
      DEF EnsureDataLayout, Serve, ServeEnds, TryAcquireExclusive, DataDirectoryBusy,
          CreateBackupStep, BackupBegin, BackupFails, Inventory, StreamRecords, PublishArchive,
          Kill
    <3> QED
      BY <3>2, <3>3 DEF Next, vars
  <2> QED
    BY <2>1
<1>1. target' = target /\ rollback' = rollback => SafeStep
  BY DEF SafeStep, Whole
<1>2. ASSUME NEW p \in Processes, Staging(p) \/ RollbackStep(p) PROVE SafeStep
  BY <1>0, <1>1, <1>2, ActiveStepIsSafe
  DEF Staging, RestoreBegin, CreateStage, Extract, ExtractFails, Preflight, PreflightFails,
      VerifyTarget, AppendProvenance, AppendProvenanceFails, CleanupStage, RollbackStep,
      RollbackNotRequired
<1>3. ASSUME NEW p \in Processes, RestoreBackup(p) \/ ReplaceRestoreBackup(p) \/ RecoverRestore(p)
      PROVE  SafeStep
  BY <1>0, <1>1, <1>2, <1>3, ActiveStepIsSafe
  DEF RestoreBackup, ReplaceRestoreBackup, RecoverRestore, RestoreBegin, Persist, PersistFails,
      DeleteJournal, ForgetJournal, LoadJournal, AppendProvenance, AppendProvenanceFails
<1>4. ASSUME NEW p \in Processes,
             EnsureDataLayout(p) \/ Serve(p) \/ ServeEnds(p) \/ TryAcquireExclusive(p)
               \/ DataDirectoryBusy(p) \/ CreateBackupStep(p) \/ Kill(p)
      PROVE  SafeStep
  BY <1>0, <1>1, <1>4, ActiveStepIsSafe, OtherStepIsSafe
  DEF ServeEnds, TryAcquireExclusive, DataDirectoryBusy, CreateBackupStep, BackupBegin,
      BackupFails, Inventory, StreamRecords, PublishArchive
<1> QED
  BY <1>0, <1>1, <1>3, <1>4 DEF Next, vars

(* With a journal there is a whole copy. *)
LEMMA JournalMeansCopy == IInv /\ upsets = {} /\ journal # NoJournal => SomeWholeCopy
<1> SUFFICES ASSUME IInv, upsets = {}, journal # NoJournal PROVE SomeWholeCopy
  OBVIOUS
<1>1. Settled \/ PutBack => SomeWholeCopy
  BY DEF SomeWholeCopy, Settled, Untouched, Prepared, MovedAway, Exchanged, Committed, PutBack,
         Whole
<1>2. ASSUME NEW p \in Processes, Active(p) PROVE SomeWholeCopy
  <2>1. AtStep(p)
    BY <1>2 DEF IInv, Orderly
  <2> QED
    BY <1>1, <1>2, <2>1, ProcessesAssumption
    DEF Active, IInv, Locking, AtStep, AtReplaceStep, AtNewTargetStep, AtRecoveryStep, AtStageStep,
        AtBackupStep, Looking, Prepared, MovedAway, Exchanged, Committed, Untouched, PutBack,
        SomeWholeCopy, Whole
<1> QED
  BY <1>1, <1>2 DEF IInv, Orderly

(* No step of a command, no failing call and no kill between two calls     *)
(* gives up the last whole copy of the data, and nothing changes the       *)
(* directory that a server serves.                                         *)
THEOREM DataAlwaysSurvives == Spec => DataSurvives
<1>1. ASSUME IInv, IInv', [Next]_vars PROVE WholeCopySurvives
  <2> SUFFICES ASSUME upsets' = {}, SomeWholeCopy PROVE SomeWholeCopy'
    BY DEF WholeCopySurvives
  <2>1. upsets = {} /\ SafeStep
    BY <1>1, NextIsSafe
  <2>2. CASE journal' # NoJournal
    <3>1. (IInv /\ upsets = {} /\ journal # NoJournal => SomeWholeCopy)'
      BY JournalMeansCopy, PTL
    <3> QED
      BY <1>1, <2>2, <3>1
  <2>3. CASE journal' = NoJournal
    <3>1. rollback # "absent" => journal # NoJournal
      BY <1>1, <2>1, CutOffNow DEF CutOffIsDecided, RollbackHasJournal
    <3> QED
      BY <2>1, <2>3, <3>1 DEF SafeStep, SomeWholeCopy, Whole
  <2> QED
    BY <2>2, <2>3
<1>2. ASSUME IInv, [Next]_vars PROVE ServingKeepsTarget
  BY <1>2, NextIsSafe DEF SafeStep, ServingKeepsTarget
<1>3. IInv /\ IInv' /\ [Next]_vars => [WholeCopySurvives /\ ServingKeepsTarget]_vars
  BY <1>1, <1>2
<1> QED
  BY <1>3, DataDirectoryInvariant, PTL DEF Spec, DataSurvives

(* A restore into a new target ends with its provenance record; a          *)
(* replacement and a recovery end by removing the journal.                 *)
LastStep(p) == (p \in NewTargets /\ AppendProvenance(p)) \/ DeleteJournal(p)

LEMMA EndsWithLastStep ==
    ASSUME IInv, [Next]_vars, NEW q \in Restores \cup Recoveries, pc[q] # "done", pc'[q] = "done"
    PROVE  LastStep(q)
<1>0. q \in Processes /\ q \notin Serves /\ q \notin Backups
      /\ pc \in [Processes -> Idle \cup {"sweep"} \cup ActiveSteps] /\ Locking
  BY ProcessesAssumption DEF IInv, TypeOK
<1>1. ASSUME NEW p \in Processes, NEW step, pc' = [pc EXCEPT ![p] = step]
      PROVE  p = q /\ step = "done"
  BY <1>0, <1>1
<1>2. ASSUME NEW p \in Processes, NEW step, pc' = [pc EXCEPT ![p] = step],
             step # "done" \/ p \in Serves \/ p \in Backups
      PROVE  FALSE
  BY <1>0, <1>1, <1>2
<1> HIDE DEF Goto, Restores, Processes
<1>3. ASSUME NEW p \in Processes, NEW step, Goto(p, step),
             step # "done" \/ p \in Serves \/ p \in Backups
      PROVE  FALSE
  BY <1>2, <1>3 DEF Goto
<1>4. ASSUME NEW p \in Processes, Staging(p) PROVE LastStep(q)
  <2>1. CASE AppendProvenance(p)
    BY <1>1, <1>3, <2>1 DEF AppendProvenance, LastStep, Goto
  <2>2. CASE VerifyTarget(p) \/ CreateStage(p) \/ ExtractFails(p) \/ PreflightFails(p)
               \/ CommitStepFails(p) \/ AppendProvenanceFails(p)
    BY <1>3, <2>2
    DEF VerifyTarget, CreateStage, ExtractFails, PreflightFails, CommitStepFails,
        AppendProvenanceFails, Abort, GiveUp
  <2>3. CASE RestoreBegin(p) \/ Extract(p) \/ Preflight(p) \/ CleanupStage(p)
    BY <1>3, <2>3 DEF RestoreBegin, Extract, Preflight, CleanupStage
  <2> QED
    BY <1>4, <2>1, <2>2, <2>3 DEF Staging
<1>5. ASSUME NEW p \in Processes, RollbackStep(p) PROVE LastStep(q)
  BY <1>3, <1>5
  DEF RollbackStep, RollbackNotRequired, RemoveTarget, RestoreOld, RemovalFails, GiveUp
<1>6. ASSUME NEW p \in Processes, DeleteJournal(p) PROVE LastStep(q)
  BY <1>1, <1>6 DEF DeleteJournal, LastStep, Goto
<1>7. ASSUME NEW p \in Processes, RestoreBackup(p) PROVE LastStep(q)
  <2>1. CASE PublishNewTarget(p)
    BY <1>3, <2>1 DEF PublishNewTarget, Abort
  <2> QED
    BY <1>4, <1>5, <1>7, <2>1 DEF RestoreBackup, RollbackStep
<1>8. ASSUME NEW p \in Processes, ReplaceRestoreBackup(p) PROVE LastStep(q)
  <2>1. CASE Persist(p)
    BY <1>3, <2>1 DEF Persist, JournalStep
  <2>2. CASE PersistFails(p) \/ MoveTargetToRollback(p) \/ PublishStage(p)
    BY <1>3, <2>2 DEF PersistFails, MoveTargetToRollback, PublishStage, Abort
  <2>3. CASE CleanupCommitted(p) \/ ForgetJournal(p)
    BY <1>3, <2>3 DEF CleanupCommitted, ForgetJournal
  <2> QED
    BY <1>4, <1>5, <1>6, <1>8, <2>1, <2>2, <2>3 DEF ReplaceRestoreBackup
<1>9. ASSUME NEW p \in Processes, RecoverRestore(p) PROVE LastStep(q)
  <2>1. CASE LoadJournal(p)
    BY <1>3, <2>1 DEF LoadJournal
  <2>2. CASE CleanupCommitted(p)
    BY <1>3, <2>2 DEF CleanupCommitted
  <2> QED
    BY <1>4, <1>5, <1>6, <1>9, <2>1, <2>2 DEF RecoverRestore, Staging
<1>10. ASSUME NEW p \in Processes,
              EnsureDataLayout(p) \/ Serve(p) \/ TryAcquireExclusive(p)
                \/ DataDirectoryBusy(p) \/ CreateBackupStep(p) \/ Kill(p) \/ ServeEnds(p)
       PROVE  LastStep(q)
  <2>1. CASE ServeEnds(p)
    <3>1. p \in Serves
      BY <1>0, <2>1, ProcessesAssumption DEF ServeEnds, Locking, Processes, Restores
    <3> QED
      BY <1>3, <2>1, <3>1 DEF ServeEnds
  <2>2. CASE CreateBackupStep(p)
    <3>1. p \in Backups
      BY <1>0, <2>2, ProcessesAssumption
      DEF CreateBackupStep, BackupBegin, BackupFails, Inventory, StreamRecords, PublishArchive,
          Locking, Processes, Restores
    <3> QED
      BY <1>3, <2>2, <3>1
      DEF CreateBackupStep, BackupBegin, BackupFails, Inventory, StreamRecords, PublishArchive
  <2>3. CASE EnsureDataLayout(p) \/ Serve(p) \/ DataDirectoryBusy(p) \/ Kill(p)
    BY <1>3, <2>3 DEF EnsureDataLayout, Serve, DataDirectoryBusy, Kill
  <2>4. CASE TryAcquireExclusive(p)
    BY <1>3, <2>4 DEF TryAcquireExclusive, Processes
  <2> QED
    BY <1>10, <2>1, <2>2, <2>3, <2>4
<1> QED
  BY <1>7, <1>8, <1>9, <1>10 DEF Next, vars

(* A command that reports success leaves what it reports: the archive       *)
(* after a restore or a completed commit, a whole directory otherwise, and *)
(* nothing of the transaction.                                             *)
THEOREM CommandAlwaysTellsTruth == Spec => CommandTellsTruth
<1> DEFINE Told ==
       \A p \in Restores \cup Recoveries :
         upsets' = {} /\ pc[p] # "done" /\ pc'[p] = "done" =>
           /\ Whole(target')
           /\ answer'[p] \in {"restored", "commit_completed"} => target' = "new"
           /\ p \notin NewTargets => rollback' = "absent" /\ journal' = NoJournal
<1>1. ASSUME IInv, [Next]_vars PROVE Told
  <2> SUFFICES ASSUME NEW p \in Restores \cup Recoveries,
                      upsets' = {}, pc[p] # "done", pc'[p] = "done"
               PROVE  /\ Whole(target')
                      /\ answer'[p] \in {"restored", "commit_completed"} => target' = "new"
                      /\ p \notin NewTargets => rollback' = "absent" /\ journal' = NoJournal
    OBVIOUS
  <2>1. LastStep(p) /\ upsets = {} /\ p \in Processes /\ TypeOK /\ Locking
    BY <1>1, EndsWithLastStep, NextIsSafe DEF IInv
  <2>2. Active(p) /\ AtStep(p)
    BY <1>1, <2>1 DEF LastStep, AppendProvenance, DeleteJournal, Active, IInv, Orderly
  <2>3. CASE p \in NewTargets /\ AppendProvenance(p)
    BY <2>1, <2>2, <2>3 DEF AppendProvenance, AtStep, AtNewTargetStep, Whole
  <2>4. CASE p \in Replaces /\ DeleteJournal(p)
    BY <2>1, <2>2, <2>4 DEF DeleteJournal, AtStep, AtReplaceStep, Committed, Whole
  <2>5. CASE p \in Recoveries /\ DeleteJournal(p)
    BY <2>1, <2>2, <2>5, ProcessesAssumption
    DEF DeleteJournal, Answer, AtStep, AtRecoveryStep, PutBack, Whole, TypeOK
  <2>6. p \in NewTargets => ~DeleteJournal(p)
    BY <2>1 DEF DeleteJournal, Locking
  <2> QED
    BY <2>1, <2>3, <2>4, <2>5, <2>6 DEF LastStep
<1>2. IInv /\ [Next]_vars => [Told]_vars
  BY <1>1
<1> QED
  BY <1>2, DataDirectoryInvariant, PTL DEF Spec, CommandTellsTruth
=============================================================================

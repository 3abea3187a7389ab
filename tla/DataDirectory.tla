--------------------------- MODULE DataDirectory ---------------------------
(***************************************************************************)
(* The commands that share one data directory: `edge-proxy` serving it,    *)
(* `backup create`, `backup restore` into a new target, `backup restore    *)
(* --replace`, and `backup restore-recover`.  Each is a process of its own *)
(* that may be killed between any two file-system calls.                   *)
(*                                                                         *)
(* Next to the data directory (the target) lie its siblings: the stage an  *)
(* archive is extracted to, the rollback copy a replacement moves the old  *)
(* target to, the journal of that replacement, and the lock file.  A       *)
(* directory is abstracted to what it holds; a rename or a write that      *)
(* returned is durable, because the code syncs the file and its parent.    *)
(***************************************************************************)
EXTENDS BackupArchive

CONSTANTS Replaces,    \* invocations of `backup restore --replace`
          NewTargets,  \* invocations of `backup restore` into a new target
          Recoveries,  \* invocations of `backup restore-recover`
          Serves,      \* starts of the serving process
          Backups,     \* invocations of `backup create`, all to one output
          NoOne,       \* the lock has no owner, the journal no operation
          MaxCrashes,  \* bound: processes killed in the middle
          MaxErrors    \* bound: file-system calls that fail

Restores  == Replaces \cup NewTargets
Processes == Restores \cup Recoveries \cup Serves \cup Backups

ASSUME ProcessesAssumption ==
    /\ NoOne \notin Processes
    /\ Replaces \cap (NewTargets \cup Recoveries \cup Serves \cup Backups) = {}
    /\ NewTargets \cap (Recoveries \cup Serves \cup Backups) = {}
    /\ Recoveries \cap (Serves \cup Backups) = {} /\ Serves \cap Backups = {}
    /\ MaxCrashes \in Nat /\ MaxErrors \in Nat

VARIABLES target,    \* the data directory
          stage,     \* .<name>.restore-stage
          maker,     \* the restore that created the stage
          rollback,  \* .<name>.restore-rollback
          journal,   \* .<name>.restore-journal
          lock,      \* the owner of the exclusive file lock
          pc,        \* the next step of each process
          answer,    \* what each process told its operator
          archive,   \* the temporary and the published backup file
          upsets,    \* what happened that the code has no protection against
          crashes, errors

dirs == <<target, stage, maker, rollback>>
vars == <<target, stage, maker, rollback, journal, lock, pc, answer, archive,
          upsets, crashes, errors>>

\* What a directory may hold: nothing; the empty layout; an extraction under
\* way; remains without a readable current revision; remains with one; the
\* data from before; the whole archive; data a start seeded from the config
\* file while a replacement was unresolved.
Contents == {"absent", "layout", "partial", "junk", "torn", "old", "new", "seed"}

\* The directories of BackupArchive that a content stands for.
HasCurrent(d) == {<<"pointer", "current">>, <<"revision", d.current>>} \subseteq d.files
Holding(files) == [WholeDirectory EXCEPT !.files = files]
DirectoriesOf == [c \in Contents |->
    CASE c \in {"absent", "layout"}  -> {Holding({})}
      [] c \in {"old", "new"}        -> {WholeDirectory}
      [] c \in {"torn", "seed"}      -> {d \in {Holding(fs) : fs \in (SUBSET Files) \ {Files}} : HasCurrent(d)}
      [] c \in {"partial", "junk"}   -> {d \in {Holding(fs) : fs \in SUBSET Files} : ~HasCurrent(d)}]

\* FileRevisionRepository::current answers a revision; an inventory of the
\* directory, and the preflight of a stage that holds it, can succeed.
ValidContents == {c \in Contents : \E d \in DirectoriesOf[c] : HasCurrent(d)}
Valid(content) == content \in ValidContents
Inventoried == {c \in Contents : \E d \in DirectoriesOf[c] : CreateBackup(d, 3) # <<>>}
Restorable == {c \in Contents : \E d \in DirectoriesOf[c] :
                  PreflightPasses(d, ManifestOf(WholeDirectory, 3))}

Whole(content) == content \in {"old", "new"}

Remains(content) == IF Valid(content) THEN {"torn", "junk"} ELSE {"junk"}

NoJournal == [operation |-> NoOne, state |-> "none"]

Over == {"done", "failed"}

\* The states of BackupStateMachine: a failure is possible in each, once the
\* lock is held, until the archive is published.
BackupSteps == {"inventory", "stream", "publishArchive"}

\* The states of RestoreStateMachine, of a replacement and of a recovery.
RestoreSteps ==
    {"load", "extract", "extracting", "preflight", "persistPrepared", "move",
     "persistMoved", "publish", "persistPublished", "verify", "provenance",
     "cleanup", "delete", "rollback", "restoreOld", "forget", "sweep"}
ServeSteps == {"open", "serving"}

Alive(p) == pc[p] \in {"lock"} \cup BackupSteps \cup RestoreSteps \cup ServeSteps

Init ==
    /\ target \in {"absent", "old"}
    /\ stage = "absent" /\ maker = NoOne /\ rollback = "absent"
    /\ journal = NoJournal /\ lock = NoOne
    /\ pc = [p \in Processes |-> "ready"]
    /\ answer = [p \in Processes |-> "none"]
    /\ archive = [temporary |-> "absent", output |-> "absent"]
    /\ upsets = {} /\ crashes = 0 /\ errors = 0

Goto(p, step) == pc' = [pc EXCEPT ![p] = step]

Release(p) == lock' = IF lock = p THEN NoOne ELSE lock

Answer(p, said) == answer' = [answer EXCEPT ![p] = said]

-----------------------------------------------------------------------------
\* The lock

\* What a process does before it asks for the lock.  The server creates the
\* directory layout; `backup create` looks for an earlier output.
EnsureDataLayout(s) ==
    /\ pc[s] = "ready" /\ s \in Serves
    /\ target' = IF target = "absent" THEN "layout" ELSE target
    /\ Goto(s, "lock")
    /\ UNCHANGED <<stage, maker, rollback, journal, lock, answer, archive, upsets, crashes, errors>>

BackupBegin(b) ==
    /\ pc[b] = "ready" /\ b \in Backups
    /\ Goto(b, IF archive = [temporary |-> "absent", output |-> "absent"] THEN "lock" ELSE "failed")
    /\ UNCHANGED <<dirs, journal, lock, answer, archive, upsets, crashes, errors>>

RestoreBegin(p) ==
    /\ pc[p] = "ready" /\ p \in Restores \cup Recoveries
    /\ Goto(p, "lock")
    /\ UNCHANGED <<dirs, journal, lock, answer, archive, upsets, crashes, errors>>


\* "unlocked": the lock is given away while a failed replacement, which has
\* dropped it, is still rolling back.
TryAcquireExclusive(p) ==
    /\ pc[p] = "lock" /\ lock = NoOne
    /\ lock' = p
    /\ upsets' = upsets \cup
           IF \E q \in Replaces : pc[q] \in {"rollback", "restoreOld", "forget"}
           THEN {"unlocked"} ELSE {}
    /\ Goto(p, CASE p \in Restores   -> "extract"
                 [] p \in Recoveries -> "load"
                 [] p \in Serves     -> "open"
                 [] p \in Backups    -> "inventory")
    /\ UNCHANGED <<dirs, journal, answer, archive, crashes, errors>>

\* The lock is held.  A restore still cleans up its stage, and a backup its
\* temporary file, though neither has made one.
DataDirectoryBusy(p) ==
    /\ pc[p] = "lock" /\ lock # NoOne
    /\ Goto(p, IF p \in Restores THEN "sweep" ELSE "failed")
    /\ archive' = IF p \in Backups THEN [archive EXCEPT !.temporary = "absent"] ELSE archive
    /\ UNCHANGED <<dirs, journal, lock, answer, upsets, crashes, errors>>

-----------------------------------------------------------------------------
\* `backup restore`: extraction, preflight, publication

\* An error returns from execute_inner, which drops the lock; execute then
\* rolls a replacement back if it was committing, and removes the stage.
Committing == {"move", "persistMoved", "publish", "persistPublished", "verify"}

Abort(p) ==
    /\ Release(p)
    /\ Goto(p, IF p \in Replaces /\ pc[p] \in Committing THEN "rollback" ELSE "sweep")

GiveUp(p) ==
    /\ Release(p)
    /\ Goto(p, IF p \in Restores THEN "sweep" ELSE "failed")

\* What a step that removes directories leaves when it stops half way.
PartlyDone(p) ==
    \/ /\ pc[p] = "rollback" /\ rollback # "absent" /\ target # "absent"
       /\ target' \in Remains(target) /\ UNCHANGED <<stage, maker, rollback>>
    \/ /\ pc[p] = "restoreOld" /\ target = "absent" /\ rollback # "absent"
       /\ target' = rollback /\ rollback' = "absent" /\ UNCHANGED <<stage, maker>>
    \/ /\ pc[p] = "cleanup" /\ rollback # "absent"
       /\ rollback' \in {"absent"} \cup Remains(rollback)
       /\ UNCHANGED <<target, stage, maker>>
    \/ /\ pc[p] \in {"sweep", "cleanup"} /\ stage # "absent"
       /\ stage' \in Remains(stage)
       /\ rollback' = IF pc[p] = "cleanup" THEN "absent" ELSE rollback
       /\ UNCHANGED <<target, maker>>

\* What a step leaves that other processes are not protected against.
\* "swept": a restore under way has lost its stage.  "cut": the published target
\* has lost files and still reads as valid.  "redone": the directories have
\* moved on and the journal has not, so the table is read a second time.
Upset(p) ==
    (IF pc[p] = "sweep" /\ stage' # stage /\ maker # p /\ Alive(maker) THEN {"swept"} ELSE {})
    \cup
    (IF pc[p] = "rollback" /\ target' # target /\ Valid(target') THEN {"cut"} ELSE {})
    \cup
    (IF /\ journal.state # "prepared"
        /\ \/ pc[p] = "forget"
           \/ pc[p] = "restoreOld" /\ target' # target
           \/ /\ p \in Recoveries /\ pc[p] \in {"cleanup", "provenance", "delete"}
              /\ pc[p] = "cleanup" => rollback' # rollback
              /\ journal.state = "target_moved" \/ answer[p] = "rollback_restored"
     THEN {"redone"} ELSE {})

CreateStage(p) ==
    /\ pc[p] = "extract"
    /\ IF stage = "absent"
       THEN stage' = "partial" /\ maker' = p /\ Goto(p, "extracting") /\ UNCHANGED lock
       ELSE Abort(p) /\ UNCHANGED <<stage, maker>>
    /\ UNCHANGED <<target, rollback, journal, answer, archive, upsets, crashes, errors>>

\* Every artifact is written and synced.  When another process removed the
\* stage meanwhile, create_dir_all makes it again for the artifacts to come.
Extract(p) ==
    /\ pc[p] = "extracting"
    /\ stage' \in IF stage = "partial" THEN {"new"} ELSE {"torn", "junk"}
    /\ Goto(p, "preflight")
    /\ UNCHANGED <<target, maker, rollback, journal, lock, answer, archive, upsets, crashes, errors>>

\* A wrong passphrase, a limit, a digest mismatch, a write that fails.
ExtractFails(p) ==
    /\ pc[p] = "extracting"
    /\ stage' = "absent"
    /\ Abort(p)
    /\ UNCHANGED <<target, maker, rollback, journal, answer, archive, upsets, crashes, errors>>

PrepareReplace(p) == p \in Replaces /\ target # "absent" /\ rollback = "absent"

PrepareNewTarget(p) == p \in NewTargets /\ target = "absent"

\* The preflights read the stage only; then prepare_replace or
\* prepare_new_target looks at the directories.  "bare": the replaced target
\* has no revision to come back to.  "filled": the place of a target that an
\* unresolved replacement moved away is taken.
Preflight(p) ==
    /\ pc[p] = "preflight"
    /\ stage \in Restorable
    /\ PrepareReplace(p) \/ PrepareNewTarget(p)
    /\ upsets' = upsets
           \cup (IF p \in Replaces /\ ~Valid(target) THEN {"bare"} ELSE {})
           \cup (IF p \in NewTargets /\ journal # NoJournal THEN {"filled"} ELSE {})
    /\ Goto(p, IF p \in Replaces THEN "persistPrepared" ELSE "publish")
    /\ UNCHANGED <<dirs, journal, lock, answer, archive, crashes, errors>>

PreflightFails(p) ==
    /\ pc[p] = "preflight"
    /\ Abort(p)
    /\ UNCHANGED <<dirs, journal, answer, archive, upsets, crashes, errors>>

JournalStep == [persistPrepared  |-> [state |-> "prepared",        next |-> "move"],
                persistMoved     |-> [state |-> "target_moved",    next |-> "publish"],
                persistPublished |-> [state |-> "stage_published", next |-> "verify"]]


Persist(p) ==
    /\ pc[p] \in DOMAIN JournalStep
    /\ journal' = [operation |-> p, state |-> JournalStep[pc[p]].state]
    /\ Goto(p, JournalStep[pc[p]].next)
    /\ UNCHANGED <<dirs, lock, answer, archive, upsets, crashes, errors>>

\* The write fails before the rename, or the sync after it.
PersistFails(p) ==
    /\ pc[p] \in DOMAIN JournalStep
    /\ errors < MaxErrors /\ errors' = errors + 1
    /\ journal' \in {journal, [operation |-> p, state |-> JournalStep[pc[p]].state]}
    /\ Abort(p)
    /\ UNCHANGED <<dirs, answer, archive, upsets, crashes>>

MoveTargetToRollback(p) ==
    /\ pc[p] = "move"
    /\ IF target # "absent" /\ rollback = "absent"
       THEN rollback' = target /\ target' = "absent" /\ Goto(p, "persistMoved") /\ UNCHANGED lock
       ELSE Abort(p) /\ UNCHANGED <<target, rollback>>
    /\ UNCHANGED <<stage, maker, journal, answer, archive, upsets, crashes, errors>>

\* A rename onto a directory that is not empty is refused.
PublishStage(p) ==
    /\ pc[p] = "publish" /\ p \in Replaces
    /\ IF stage # "absent" /\ target = "absent"
       THEN target' = stage /\ stage' = "absent" /\ Goto(p, "persistPublished") /\ UNCHANGED lock
       ELSE Abort(p) /\ UNCHANGED <<target, stage>>
    /\ UNCHANGED <<maker, rollback, journal, answer, archive, upsets, crashes, errors>>

PublishNewTarget(p) ==
    /\ pc[p] = "publish" /\ p \in NewTargets
    /\ IF stage # "absent" /\ target = "absent"
       THEN target' = stage /\ stage' = "absent" /\ Goto(p, "verify") /\ UNCHANGED lock
       ELSE Abort(p) /\ UNCHANGED <<target, stage>>
    /\ UNCHANGED <<maker, rollback, journal, answer, archive, upsets, crashes, errors>>

\* The published target has the archive's current revision.
VerifyTarget(p) ==
    /\ pc[p] = "verify"
    /\ IF target \in {"new", "torn"} THEN Goto(p, "provenance") /\ UNCHANGED lock ELSE Abort(p)
    /\ UNCHANGED <<dirs, journal, answer, archive, upsets, crashes, errors>>

\* A rename, or the sync after it, or a read fails.
CommitStepFails(p) ==
    /\ pc[p] \in {"move", "publish", "verify"}
    /\ errors < MaxErrors /\ errors' = errors + 1
    /\ \/ UNCHANGED dirs
       \/ /\ pc[p] = "move" /\ target # "absent" /\ rollback = "absent"
          /\ rollback' = target /\ target' = "absent" /\ UNCHANGED <<stage, maker>>
       \/ /\ pc[p] = "publish" /\ stage # "absent" /\ target = "absent"
          /\ target' = stage /\ stage' = "absent" /\ UNCHANGED <<maker, rollback>>
    /\ Abort(p)
    /\ UNCHANGED <<journal, answer, archive, upsets, crashes>>

\* One provenance record goes into the ledger of the published target.
AppendProvenance(p) ==
    /\ pc[p] = "provenance"
    /\ IF p \in NewTargets
       THEN Goto(p, "done") /\ Release(p) /\ Answer(p, "restored")
       ELSE Goto(p, IF p \in Replaces THEN "cleanup" ELSE "delete") /\ UNCHANGED <<lock, answer>>
    /\ UNCHANGED <<dirs, journal, archive, upsets, crashes, errors>>

\* The published target stays, and so does the journal of a replacement.
AppendProvenanceFails(p) ==
    /\ pc[p] = "provenance"
    /\ errors < MaxErrors /\ errors' = errors + 1
    /\ UNCHANGED dirs
    /\ GiveUp(p)
    /\ upsets' = upsets \cup Upset(p)
    /\ UNCHANGED <<journal, answer, archive, crashes>>

CleanupCommitted(p) ==
    /\ pc[p] = "cleanup"
    /\ rollback' = "absent" /\ stage' = "absent"
    /\ Goto(p, IF p \in Recoveries /\ answer[p] = "commit_completed" THEN "provenance" ELSE "delete")
    /\ UNCHANGED <<target, maker, journal, lock, answer, archive, upsets, crashes, errors>>

\* The journal is removed, whichever operation it names.
DeleteJournal(p) ==
    /\ pc[p] = "delete"
    /\ journal' = NoJournal
    /\ Goto(p, "done") /\ Release(p)
    /\ Answer(p, IF p \in Restores THEN "restored" ELSE answer[p])
    /\ UNCHANGED <<dirs, archive, upsets, crashes, errors>>

-----------------------------------------------------------------------------
\* Rolling back: execute does it without the lock, recovery under it

RollbackNotRequired(p) ==
    /\ pc[p] = "rollback" /\ rollback = "absent"
    /\ Goto(p, IF p \in Restores THEN "forget" ELSE "failed")
    /\ IF p \in Restores THEN UNCHANGED lock ELSE Release(p)
    /\ UNCHANGED <<dirs, journal, answer, archive, upsets, crashes, errors>>

RemoveTarget(p) ==
    /\ pc[p] = "rollback" /\ rollback # "absent"
    /\ target' = "absent"
    /\ Goto(p, "restoreOld")
    /\ UNCHANGED <<stage, maker, rollback, journal, lock, answer, archive, upsets, crashes, errors>>

\* The rename fails when something stands at the target again.
RestoreOld(p) ==
    /\ pc[p] = "restoreOld"
    /\ IF target = "absent" /\ rollback # "absent"
       THEN /\ target' = rollback /\ rollback' = "absent" /\ stage' = "absent"
            /\ Goto(p, IF p \in Restores THEN "forget" ELSE "delete") /\ UNCHANGED lock
       ELSE GiveUp(p) /\ UNCHANGED <<target, rollback, stage>>
    /\ UNCHANGED <<maker, journal, answer, archive, upsets, crashes, errors>>

\* remove_dir_all, a rename or a sync fails: the operation ends in an error
\* and the journal stays.
RemovalFails(p) ==
    /\ pc[p] \in {"rollback", "restoreOld", "cleanup", "delete"}
    /\ errors < MaxErrors /\ errors' = errors + 1
    /\ UNCHANGED dirs \/ PartlyDone(p)
    /\ GiveUp(p)
    /\ upsets' = upsets \cup Upset(p)
    /\ UNCHANGED <<journal, answer, archive, crashes>>

ForgetJournal(p) ==
    /\ pc[p] = "forget"
    /\ journal' = NoJournal
    /\ Goto(p, "sweep")
    /\ UNCHANGED <<dirs, lock, answer, archive, upsets, crashes, errors>>

\* FileRestoreArchiveExtractor::cleanup removes the stage, whoever made it.
CleanupStage(p) ==
    /\ pc[p] = "sweep"
    /\ stage' = "absent"
    /\ upsets' = upsets \cup Upset(p)
    /\ Goto(p, "failed")
    /\ UNCHANGED <<target, maker, rollback, journal, lock, answer, archive, crashes, errors>>

-----------------------------------------------------------------------------
\* `backup restore-recover`

(* Mutant: a rollback copy is taken as proof that the stage was published. *)
OutcomeAssumesPublished(state, targetValid, rollbackValid) ==
    CASE state = "prepared" /\ targetValid /\ ~rollbackValid -> "restore_aborted"
      [] state = "target_moved" /\ rollbackValid             -> "commit_completed"
      [] state = "stage_published" /\ targetValid            -> "commit_completed"
      [] ~targetValid /\ rollbackValid                       -> "rollback_restored"
      [] OTHER                                               -> "ambiguous"

(* Mutant: the table has no row for a move the journal does not tell of. *)
OutcomeForgetsMove(state, targetValid, rollbackValid) ==
    CASE state = "prepared" /\ targetValid /\ ~rollbackValid   -> "restore_aborted"
      [] state = "target_moved" /\ targetValid /\ rollbackValid -> "commit_completed"
      [] state = "stage_published" /\ targetValid               -> "commit_completed"
      [] state # "prepared" /\ ~targetValid /\ rollbackValid    -> "rollback_restored"
      [] OTHER                                                  -> "ambiguous"

(* Mutant: a prepared transaction is reported as committed. *)
OutcomeCommitsPrepared(state, targetValid, rollbackValid) ==
    CASE targetValid /\ (state = "prepared" => ~rollbackValid) -> "commit_completed"
      [] ~targetValid /\ rollbackValid                         -> "rollback_restored"
      [] OTHER                                                 -> "ambiguous"

\* The recovery table: what the journal and the two directories mean.
Outcome(state, targetValid, rollbackValid) ==
    CASE state = "prepared" /\ targetValid /\ ~rollbackValid   -> "restore_aborted"
      [] state = "target_moved" /\ targetValid /\ rollbackValid -> "commit_completed"
      [] state = "stage_published" /\ targetValid               -> "commit_completed"
      [] ~targetValid /\ rollbackValid                          -> "rollback_restored"
      [] OTHER                                                  -> "ambiguous"

LoadJournal(c) ==
    /\ pc[c] = "load"
    /\ LET outcome == Outcome(journal.state, Valid(target), Valid(rollback))
       IN IF journal = NoJournal \/ outcome = "ambiguous"
          THEN Goto(c, "failed") /\ Release(c) /\ UNCHANGED answer
          ELSE /\ Goto(c, IF outcome = "rollback_restored" THEN "rollback" ELSE "cleanup")
               /\ Answer(c, outcome) /\ UNCHANGED lock
    /\ UNCHANGED <<dirs, journal, archive, upsets, crashes, errors>>

-----------------------------------------------------------------------------
\* Serving

\* The server opens the ledger and resolves its configuration: the current
\* revision if there is one, else the config file, which it saves as the
\* first revision.  It never looks at the restore journal.
Serve(s) ==
    /\ pc[s] = "open"
    /\ IF Valid(target)
       THEN UNCHANGED <<target, upsets>>
       ELSE IF journal = NoJournal
            THEN target' = "old" /\ UNCHANGED upsets
            ELSE target' = "seed" /\ upsets' = upsets \cup {"filled"}
    /\ Goto(s, "serving")
    /\ UNCHANGED <<stage, maker, rollback, journal, lock, answer, archive, crashes, errors>>

\* The start fails, or a drain ends the process.
ServeEnds(s) ==
    /\ pc[s] \in ServeSteps
    /\ Goto(s, "done") /\ Release(s)
    /\ UNCHANGED <<dirs, journal, answer, archive, upsets, crashes, errors>>

-----------------------------------------------------------------------------
\* `backup create`

BackupFails(b) ==
    /\ pc[b] \in BackupSteps
    /\ archive' = [archive EXCEPT !.temporary = "absent"]
    /\ Goto(b, "failed") /\ Release(b)
    /\ UNCHANGED <<dirs, journal, answer, upsets, crashes, errors>>


\* The artifacts are listed and digested; then the envelope is opened.
Inventory(b) ==
    /\ pc[b] = "inventory"
    /\ target \in Inventoried /\ archive.temporary = "absent"
    /\ Answer(b, target)
    /\ archive' = [archive EXCEPT !.temporary = "partial"]
    /\ Goto(b, "stream")
    /\ UNCHANGED <<dirs, journal, lock, upsets, crashes, errors>>

\* An artifact is read again and must be the file the inventory saw.
ReadArtifact(b) == target = answer[b]

StreamRecords(b) ==
    /\ pc[b] = "stream"
    /\ ReadArtifact(b)
    /\ archive' = [archive EXCEPT !.temporary = IF @ = "partial" THEN answer[b] ELSE @]
    /\ Goto(b, "publishArchive")
    /\ UNCHANGED <<dirs, journal, lock, answer, upsets, crashes, errors>>

PublishArchive(b) ==
    /\ pc[b] = "publishArchive"
    /\ archive.temporary # "absent"
    /\ archive' = [temporary |-> "absent", output |-> archive.temporary]
    /\ Goto(b, "done") /\ Release(b)
    /\ UNCHANGED <<dirs, journal, answer, upsets, crashes, errors>>

-----------------------------------------------------------------------------
\* A process is killed.  Its lock is released; a directory it was removing
\* may be left in part.

Kill(p) ==
    /\ Alive(p)
    /\ crashes < MaxCrashes /\ crashes' = crashes + 1
    /\ UNCHANGED dirs \/ PartlyDone(p)
    /\ upsets' = upsets \cup Upset(p)
    /\ Goto(p, "failed") /\ Release(p)
    /\ UNCHANGED <<journal, answer, archive, errors>>

\* The use cases.  An action belongs to the ones it can be a step of.
Staging(p) ==
    \/ RestoreBegin(p) \/ CreateStage(p) \/ Extract(p) \/ ExtractFails(p)
    \/ Preflight(p) \/ PreflightFails(p) \/ VerifyTarget(p) \/ CommitStepFails(p)
    \/ AppendProvenance(p) \/ AppendProvenanceFails(p) \/ CleanupStage(p)

RestoreBackup(n) == n \in NewTargets /\ (Staging(n) \/ PublishNewTarget(n) \/ RemovalFails(n))

RollbackStep(p) ==
    RollbackNotRequired(p) \/ RemoveTarget(p) \/ RestoreOld(p) \/ RemovalFails(p)

ReplaceRestoreBackup(r) ==
    /\ r \in Replaces
    /\ \/ Staging(r) \/ Persist(r) \/ PersistFails(r)
       \/ MoveTargetToRollback(r) \/ PublishStage(r) \/ CleanupCommitted(r) \/ DeleteJournal(r)
       \/ RollbackStep(r) \/ ForgetJournal(r)

RecoverRestore(c) ==
    /\ c \in Recoveries
    /\ \/ RestoreBegin(c) \/ LoadJournal(c) \/ RollbackStep(c)
       \/ CleanupCommitted(c) \/ AppendProvenance(c) \/ AppendProvenanceFails(c)
       \/ DeleteJournal(c)

CreateBackupStep(b) ==
    BackupBegin(b) \/ BackupFails(b) \/ Inventory(b) \/ StreamRecords(b) \/ PublishArchive(b)

Next == \E p \in Processes :
    \/ EnsureDataLayout(p) \/ Serve(p) \/ ServeEnds(p)
    \/ TryAcquireExclusive(p) \/ DataDirectoryBusy(p)
    \/ RestoreBackup(p) \/ ReplaceRestoreBackup(p) \/ RecoverRestore(p)
    \/ CreateBackupStep(p)
    \/ Kill(p)

Spec == Init /\ [][Next]_vars

-----------------------------------------------------------------------------
\* Properties.  Each one holds until one of the six events `upsets` records
\* has happened; the README says what each of them leads to.

SomeWholeCopy == Whole(target) \/ Whole(rollback)

\* No step of any process, and no kill between two of them, gives up the last
\* whole copy of the data: the old one is removed only when the archive stands
\* in its place, whole.
WholeCopySurvives == upsets' = {} /\ SomeWholeCopy => SomeWholeCopy'

\* A target that was moved aside is named by a journal until it is back or
\* replaced: without one, no later command would look for it.
RollbackHasJournal == upsets = {} /\ rollback # "absent" => journal # NoJournal

\* Wherever a replacement was cut off, the recovery table knows what to do.
RecoveryDecides ==
    (/\ upsets = {} /\ journal # NoJournal
     /\ lock = NoOne /\ \A p \in Replaces : ~Alive(p))
    => Outcome(journal.state, Valid(target), Valid(rollback)) # "ambiguous"

\* A replacement that was cut off anywhere can be finished or undone: a journal
\* names it, and the recovery table has an answer for what is on disk.
CutOffIsDecided == RollbackHasJournal /\ RecoveryDecides

\* A command that reports success leaves what it reports: the archive after a
\* restore or a completed commit, the data from before otherwise, and nothing
\* of the transaction.
CommandTellsTruth ==
    [][\A p \in Restores \cup Recoveries :
         upsets' = {} /\ pc[p] # "done" /\ pc'[p] = "done" =>
           /\ Whole(target')
           /\ answer'[p] \in {"restored", "commit_completed"} => target' = "new"
           /\ p \notin NewTargets => rollback' = "absent" /\ journal' = NoJournal]_vars

\* While a server serves the directory, nothing else changes it.
ServingKeepsTarget ==
    \A s \in Serves : upsets' = {} /\ pc[s] = "serving" => target' = target

\* Every step is safe for the data: it leaves a whole copy, and leaves alone
\* the directory a server serves.
DataSurvives == [][WholeCopySurvives /\ ServingKeepsTarget]_vars

\* Whatever a directory looks like: if `backup create` accepts it, the archive
\* verifies, holds every file, can be rolled back to any of its revisions with
\* their bundles there, and is restored exactly if the proxy could run on it.
\* It speaks of no state, and is looked at before the first command.
BackupsRestore ==
    (\A p \in Processes : pc[p] = "ready") /\ target = "old" =>
        \A d \in Directories, schema \in 1..3 :
            LET made == CreateBackup(d, schema)
            IN  made # <<>> =>
                    /\ VerifyBackup(made[1])
                    /\ ExtractArchive(made[1], d).files = d.files
                    /\ \A r \in Ids(d.files, "revision") : TrustRefs(r) \subseteq Ids(d.files, "roots")
                    /\ RestoreAccepts(made[1], d) <=> Sound(d)

\* A backup that was published holds one whole state of the directory.
ArchiveIsWhole == upsets = {} => archive.output = "absent" \/ Whole(archive.output)

\* A backup is worth having: what is published is one whole state, and it can
\* be verified, extracted and restored.
BackupsAreUsable == ArchiveIsWhole /\ BackupsRestore

\* What docs/deployment.md promises: a recovery completes the commit, restores
\* the rollback copy or aborts, and loses neither.  It holds without condition
\* in the text; a start of the server in between breaks it.
NothingIsLost == [][SomeWholeCopy => SomeWholeCopy']_vars
=============================================================================

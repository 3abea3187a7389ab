--------------------------- MODULE OfflineUpgrade ---------------------------
(***************************************************************************)
(* `edge-proxy upgrade` and `edge-proxy upgrade recover`: the commands that *)
(* replace the installed artifact of a stopped service, and the fixed      *)
(* helper scripts they call, for systemd and for Compose.                  *)
(*                                                                         *)
(* An artifact is the binary (systemd) or the runtime manifest that names  *)
(* an image (Compose); both helpers keep it at the same four places.  A    *)
(* digest is the artifact itself.  The helpers and the service manager are *)
(* outside the Rust sources and stand here as the sources call them.       *)
(***************************************************************************)
EXTENDS Naturals, FiniteSets

CONSTANTS Upgrades,   \* invocations of `upgrade`; each brings an artifact of its own
          Recovers,   \* invocations of `upgrade recover`
          Installed,  \* the artifact from before
          Nothing,    \* no artifact, no operation, a stopped service
          MaxKills,   \* bound: commands killed, and reboots of the host
          MaxErrors   \* bound: helper calls and journal writes that fail

Commands  == Upgrades \cup Recovers
Artifacts == Upgrades \cup {Installed}

ASSUME CommandsAssumption ==
    /\ Nothing \notin Commands \cup Artifacts
    /\ Upgrades \cap Recovers = {}
    /\ MaxKills \in Nat /\ MaxErrors \in Nat

VARIABLES deployment,  \* the service manager of this host
          place,       \* the artifact at each place, and the staged digest
          running,     \* the artifact the service executes
          archive,     \* the upgrade backup exists
          journal,     \* <data directory>/upgrade-journal
          receipt,     \* the artifact each upgrade replaces, from its backup
          pc, answer,
          mishaps,     \* what happened that the commands are not protected against
          kills, errors

fixed == <<deployment, kills>>
vars  == <<deployment, place, running, archive, journal, receipt, pc, answer,
           mishaps, kills, errors>>

NoJournal == [operation |-> Nothing, state |-> "none", previous |-> Nothing]

Over == {"done", "failed"}

Alive(p) == pc[p] \notin Over \cup {"idle"}

Init ==
    /\ deployment \in {"systemd", "compose"}
    /\ place = [active |-> Installed, previous |-> Nothing, staged |-> Nothing,
                failed |-> Nothing, digest |-> Nothing]
    /\ running = Installed
    /\ archive = FALSE
    /\ journal = NoJournal
    /\ receipt = [u \in Upgrades |-> Nothing]
    /\ pc = [p \in Commands |-> "idle"]
    /\ answer = [p \in Commands |-> "none"]
    /\ mishaps = {} /\ kills = 0 /\ errors = 0

Goto(p, step) == pc' = [pc EXCEPT ![p] = step]

\* A call fails; without an active artifact one may fail at no cost.
Fail == \/ errors < MaxErrors /\ errors' = errors + 1
        \/ place.active = Nothing /\ UNCHANGED errors

-----------------------------------------------------------------------------
\* What the helpers do

\* `systemctl start` does nothing to a service that runs; `compose up`
\* replaces a container whose image is not the manifest's.
StartService ==
    running' = IF running = Nothing \/ deployment = "compose" THEN place.active ELSE running

\* The artifact is copied to its staged place by the admission (systemd) or by
\* the preflight, which writes the staged manifest (Compose).
StagesAt(step) == step = IF deployment = "systemd" THEN "admit" ELSE "preflight"

-----------------------------------------------------------------------------
\* `upgrade`: until the service is stopped and backed up

\* Nothing keeps a second command from starting.  "second": two upgrades at
\* once; "overlap": a recovery and another command.
Begin(p) ==
    /\ pc[p] = "idle"
    /\ Goto(p, IF p \in Upgrades THEN "admit" ELSE "load")
    /\ mishaps' = mishaps
           \cup (IF \E q \in Upgrades : Alive(q) /\ p \in Upgrades THEN {"second"} ELSE {})
           \cup (IF \E q \in Commands : Alive(q) /\ {p, q} \cap Recovers # {} THEN {"overlap"} ELSE {})
    /\ UNCHANGED <<fixed, place, running, archive, journal, receipt, answer, errors>>

AdmitAndPreflight(u) ==
    /\ pc[u] \in {"admit", "preflight"}
    /\ pc[u] = "preflight" => place.active # Nothing
    /\ place' = IF StagesAt(pc[u]) THEN [place EXCEPT !.staged = u] ELSE place
    /\ Goto(u, IF pc[u] = "admit" THEN "preflight" ELSE "drain")
    /\ UNCHANGED <<fixed, running, archive, journal, receipt, answer, mishaps, errors>>

\* A wrong digest, an unsafe file: the service has not been touched.
Refused(u) ==
    /\ pc[u] \in {"admit", "preflight"}
    /\ Goto(u, "failed")
    /\ UNCHANGED <<fixed, place, running, archive, journal, receipt, answer, mishaps, errors>>

DrainAndStop(u) ==
    /\ pc[u] = "drain"
    /\ running' = Nothing
    /\ Goto(u, "backup")
    /\ UNCHANGED <<fixed, place, archive, journal, receipt, answer, mishaps, errors>>

\* `backup create` refuses an output that exists; it asks for the lock of the
\* data directory, which a running service holds.
CreateAndVerifyBackup(u) ==
    /\ pc[u] = "backup"
    /\ IF archive \/ running # Nothing \/ place.active = Nothing
       THEN Goto(u, "restart") /\ UNCHANGED <<archive, receipt>>
       ELSE /\ archive' = TRUE
            /\ receipt' = [receipt EXCEPT ![u] = place.active]
            /\ Goto(u, "prepared")
    /\ UNCHANGED <<fixed, place, running, journal, answer, mishaps, errors>>

\* The operator takes an earlier backup away.
TakeArchive ==
    /\ archive /\ \A p \in Commands : ~Alive(p)
    /\ archive' = FALSE
    /\ UNCHANGED <<fixed, place, running, journal, receipt, pc, answer, mishaps, errors>>

-----------------------------------------------------------------------------
\* The journal

\* The journal state that is written at a step, and the step that follows.
JournalStep == [prepared     |-> "stage",    draining    |-> "stopped",
                stopped      |-> "switch",   switched    |-> "start",
                ready        |-> "committed", committed  |-> "done",
                rolling_back |-> "rollback", rolled_back |-> "failed"]

Journaled(p) ==
    IF p \in Upgrades
    THEN [operation |-> p, state |-> pc[p], previous |-> receipt[p]]
    ELSE [journal EXCEPT !.state = pc[p]]

PersistUpgradeJournal(p) ==
    /\ pc[p] \in DOMAIN JournalStep
    /\ journal' = Journaled(p)
    /\ Goto(p, IF p \in Recovers /\ pc[p] = "rolled_back" THEN "done" ELSE JournalStep[pc[p]])
    /\ answer' = [answer EXCEPT ![p] =
           CASE pc[p] = "committed" -> "committed"
             [] pc[p] = "rolled_back" /\ p \in Recovers -> "rolled_back"
             [] OTHER -> @]
    /\ UNCHANGED <<fixed, place, running, archive, receipt, mishaps, errors>>

(* Mutant: a service that does not become ready is not an error. *)
AfterErrorIgnoresReadiness(step) ==
    CASE step \in {"drain", "backup", "prepared", "stage", "draining", "stopped"} -> "restart"
      [] step = "start"                                                           -> "ready"
      [] step \in {"switch", "activate", "switched"}                              -> "rolling_back"
      [] OTHER                                                                    -> "failed"

(* Mutant: a failed backup ends the command at once. *)
AfterErrorForgetsBackup(step) ==
    CASE step \in {"drain", "prepared", "stage", "draining", "stopped"} -> "restart"
      [] step \in {"switch", "activate", "switched", "start"}           -> "rolling_back"
      [] OTHER                                                          -> "failed"

\* Where an error leads: back to a running service while the artifact has not
\* been switched, through a rollback once it has, and out of the command when
\* the new one is ready or a rollback is under way.
AfterError(step) ==
    CASE step \in {"drain", "backup", "prepared", "stage", "draining", "stopped"} -> "restart"
      [] step \in {"switch", "activate", "switched", "start"}                     -> "rolling_back"
      [] OTHER                                                                    -> "failed"

\* An error met while the command already makes good for another one.
Lost(step) ==
    IF step \in {"restart", "rolling_back", "rollback", "restore", "startAgain"}
    THEN {"lost"} ELSE {}

\* The write fails, or the sync after the rename.
PersistFails(p) ==
    /\ pc[p] \in DOMAIN JournalStep
    /\ Fail
    /\ journal' \in {journal, Journaled(p)}
    /\ mishaps' = mishaps \cup Lost(pc[p])
    /\ Goto(p, AfterError(pc[p]))
    /\ UNCHANGED <<fixed, place, running, archive, receipt, answer>>

-----------------------------------------------------------------------------
\* Staging, the switch, the start

StageArtifact(u) ==
    /\ pc[u] = "stage"
    /\ IF place.staged = u
       THEN place' = [place EXCEPT !.digest = u] /\ Goto(u, "draining")
       ELSE Goto(u, AfterError("stage")) /\ UNCHANGED place
    /\ UNCHANGED <<fixed, running, archive, journal, receipt, answer, mishaps, errors>>

\* The systemd helper compares the staged binary with the recorded digest; the
\* Compose helper does not.
SwitchAllowed ==
    /\ place.active # Nothing /\ place.staged # Nothing
    /\ deployment = "systemd" => place.staged = place.digest

(* Mutant: the active artifact is overwritten. *)
OverwriteActive(u) ==
    /\ pc[u] = "switch"
    /\ IF SwitchAllowed
       THEN place' = [place EXCEPT !.active = Nothing] /\ Goto(u, "activate")
       ELSE Goto(u, AfterError("switch")) /\ UNCHANGED place
    /\ UNCHANGED <<fixed, running, archive, journal, receipt, answer, mishaps, errors>>

\* The active artifact becomes the previous one, in place of an earlier one.
PreserveActive(u) ==
    /\ pc[u] = "switch"
    /\ IF SwitchAllowed
       THEN /\ place' = [place EXCEPT !.previous = place.active, !.active = Nothing]
            /\ Goto(u, "activate")
       ELSE Goto(u, AfterError("switch")) /\ UNCHANGED place
    /\ UNCHANGED <<fixed, running, archive, journal, receipt, answer, mishaps, errors>>

ActivateStaged(u) ==
    /\ pc[u] = "activate"
    /\ place' = [place EXCEPT !.active = place.staged, !.staged = Nothing]
    /\ Goto(u, "switched")
    /\ UNCHANGED <<fixed, running, archive, journal, receipt, answer, mishaps, errors>>

\* The move fails and the helper moves the preserved artifact back.
ActivateFails(u) ==
    /\ pc[u] = "activate"
    /\ Fail
    /\ place' = [place EXCEPT !.active = place.previous, !.previous = Nothing]
    /\ Goto(u, AfterError("activate"))
    /\ UNCHANGED <<fixed, running, archive, journal, receipt, answer, mishaps>>

\* The service answers the readiness probe, whichever artifact it executes.
StartAndWaitReady(u) ==
    /\ pc[u] \in {"start", "restart"}
    /\ place.active # Nothing
    /\ StartService
    /\ Goto(u, IF pc[u] = "start" THEN "ready" ELSE "failed")
    /\ UNCHANGED <<fixed, place, archive, journal, receipt, answer, mishaps, errors>>

\* A helper call fails: before it did anything, or after it (a sync, a probe).
HelperFails(u) ==
    /\ pc[u] \in {"drain", "backup", "stage", "switch", "start", "restart"}
    /\ Fail
    /\ CASE pc[u] = "drain"  -> running' \in {running, Nothing} /\ UNCHANGED archive
         [] pc[u] = "backup" -> archive' \in {archive, TRUE} /\ UNCHANGED running
         [] pc[u] \in {"start", "restart"} -> (StartService \/ UNCHANGED running) /\ UNCHANGED archive
         [] OTHER -> UNCHANGED <<running, archive>>
    /\ mishaps' = mishaps \cup Lost(pc[u])
    /\ Goto(u, AfterError(pc[u]))
    /\ UNCHANGED <<fixed, place, journal, receipt, answer>>

-----------------------------------------------------------------------------
\* Rolling back: after a failure, or by `upgrade recover`


Expected(p) == IF p \in Upgrades THEN receipt[p] ELSE journal.previous

\* With no previous binary the systemd helper only starts the service; the
\* Compose helper refuses.  Both refuse one that is not the expected.
RollbackArtifact(p) ==
    /\ pc[p] = "rollback"
    /\ \/ /\ place.previous = Nothing /\ deployment = "systemd"
          /\ Goto(p, "startAgain") /\ UNCHANGED <<place, mishaps>>
       \/ /\ place.previous = Expected(p) /\ deployment = "compose"
          /\ place' = [place EXCEPT !.active = place.previous, !.previous = Nothing]
          /\ Goto(p, "startAgain") /\ UNCHANGED mishaps
       \/ /\ place.previous = Expected(p) /\ deployment = "systemd" /\ place.active # Nothing
          /\ place' = [place EXCEPT !.failed = place.active, !.active = Nothing]
          /\ Goto(p, "restore") /\ UNCHANGED mishaps
       \/ /\ \/ place.previous \notin {Nothing, Expected(p)}
             \/ place.previous = Nothing /\ deployment = "compose"
             \/ place.previous # Nothing /\ place.active = Nothing /\ deployment = "systemd"
          /\ mishaps' = mishaps \cup {"refused"}
          /\ Goto(p, "failed") /\ UNCHANGED place
    /\ UNCHANGED <<fixed, running, archive, journal, receipt, answer, errors>>

RestorePrevious(p) ==
    /\ pc[p] = "restore"
    /\ place' = [place EXCEPT !.active = place.previous, !.previous = Nothing]
    /\ Goto(p, "startAgain")
    /\ UNCHANGED <<fixed, running, archive, journal, receipt, answer, mishaps, errors>>

\* "kept": the service still runs the artifact that was rolled back.
StartAgain(p) ==
    /\ pc[p] = "startAgain"
    /\ place.active # Nothing
    /\ StartService
    /\ mishaps' = mishaps \cup (IF running' # place.active THEN {"kept"} ELSE {})
    /\ Goto(p, "rolled_back")
    /\ UNCHANGED <<fixed, place, archive, journal, receipt, answer, errors>>

RollbackFails(p) ==
    /\ pc[p] \in {"rollback", "restore", "startAgain"}
    /\ Fail
    /\ place' = IF pc[p] = "restore" THEN [place EXCEPT !.active = place.failed, !.failed = Nothing]
                ELSE place
    /\ mishaps' = mishaps \cup Lost(pc[p])
    /\ Goto(p, "failed")
    /\ UNCHANGED <<fixed, running, archive, journal, receipt, answer>>

\* A journal of another operation is no journal.
LoadUpgradeJournal(operation) ==
    IF journal.operation = operation THEN journal.state ELSE "none"

\* recover_offline_upgrade, for the operation the operator names.
RecoverOfflineUpgrade(c) ==
    /\ pc[c] = "load"
    /\ \E operation \in Upgrades :
         LET state == LoadUpgradeJournal(operation)
         IN  \/ /\ state = "committed"
                /\ answer' = [answer EXCEPT ![c] = "committed"] /\ Goto(c, "done")
             \/ /\ state \in {"switched", "ready"}
                /\ Goto(c, "rolling_back") /\ UNCHANGED answer
             \/ /\ state \notin {"committed", "switched", "ready"}
                /\ Goto(c, "failed") /\ UNCHANGED answer
    /\ UNCHANGED <<fixed, place, running, archive, journal, receipt, mishaps, errors>>

-----------------------------------------------------------------------------
\* A command is killed, the service dies and is restarted, the host reboots

Kill(p) ==
    /\ Alive(p)
    /\ kills < MaxKills /\ kills' = kills + 1
    /\ Goto(p, "failed")
    /\ UNCHANGED <<deployment, place, running, archive, journal, receipt, answer, mishaps, errors>>

\* Restart=on-failure executes the binary that is there; Compose restarts the
\* container with its own image.
ServiceRestarts ==
    /\ running # Nothing /\ deployment = "systemd"
    /\ running' = place.active
    /\ UNCHANGED <<fixed, place, archive, journal, receipt, pc, answer, mishaps, errors>>

\* The unit is enabled; a stopped container stays stopped.
Reboot ==
    /\ kills < MaxKills /\ kills' = kills + 1
    /\ running' = IF deployment = "systemd" THEN place.active ELSE running
    /\ pc' = [p \in Commands |-> IF Alive(p) THEN "failed" ELSE pc[p]]
    /\ UNCHANGED <<deployment, place, archive, journal, receipt, answer, mishaps, errors>>

UpgradeStep(u) ==
    \/ AdmitAndPreflight(u) \/ Refused(u) \/ DrainAndStop(u) \/ CreateAndVerifyBackup(u)
    \/ StageArtifact(u) \/ PreserveActive(u) \/ ActivateStaged(u) \/ ActivateFails(u)
    \/ StartAndWaitReady(u) \/ HelperFails(u)

CommandStep(p) ==
    \/ Begin(p) \/ PersistUpgradeJournal(p) \/ PersistFails(p)
    \/ RollbackArtifact(p) \/ RestorePrevious(p) \/ StartAgain(p) \/ RollbackFails(p)
    \/ Kill(p)

Next == \/ \E u \in Upgrades : UpgradeStep(u)
        \/ \E p \in Commands : CommandStep(p)
        \/ \E c \in Recovers : RecoverOfflineUpgrade(c)
        \/ TakeArchive \/ ServiceRestarts \/ Reboot

Spec == Init /\ [][Next]_vars

-----------------------------------------------------------------------------
\* Properties

\* Until an operation is committed or rolled back, the artifact it replaces is
\* still on the host, at a place a rollback looks at: whichever command is
\* killed, and whatever a second upgrade does meanwhile.
PreviousIsKept ==
    "overlap" \notin mishaps /\ journal.state \notin {"none", "committed", "rolled_back"}
    => journal.previous \in {place.active, place.previous}

\* A command that answers "committed" leaves the new artifact installed; the
\* service executes it when the answer is the upgrade's own.
CommittedIsServed ==
    \A p \in Commands :
        mishaps \cap {"second", "overlap"} = {} /\ answer[p] # "committed" /\ answer'[p] = "committed" =>
            /\ place.active = journal'.operation
            /\ p \in Upgrades => running = p

\* When the journal says rolled_back the artifact from before is installed, and
\* the service executes it unless it was running all along.
RolledBackIsServed ==
    (/\ mishaps \cap {"second", "overlap"} = {}
     /\ journal'.state = "rolled_back" /\ journal.state # "rolled_back") =>
        /\ place.active = journal'.previous
        /\ mishaps = {} => running = place.active

\* The outcome an upgrade reports or records is the one that is served.
OutcomeIsServed == [][CommittedIsServed /\ RolledBackIsServed]_vars

\* An upgrade that fails after it stopped the service brings it back, if nothing else fails on the
\* way back and its rollback is not refused.
FailureRestoresService ==
    [][\A u \in Upgrades :
         (/\ mishaps' = {} /\ kills' = kills
          /\ pc[u] \notin {"admit", "preflight", "failed"} /\ pc'[u] = "failed") => running' # Nothing]_vars
=============================================================================

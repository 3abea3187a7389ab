------------------------- MODULE OfflineUpgradeProofs -------------------------
(***************************************************************************)
(* Proofs about OfflineUpgrade, for any number of upgrades and recoveries, *)
(* failures, kills and reboots.                                            *)
(*                                                                         *)
(* None of the properties is inductive.  What keeps two upgrades from      *)
(* destroying each other's artifact is the backup, of which there is one:  *)
(* an upgrade that has made it is the only one past that point (Custody).  *)
(* Keeping says where that upgrade, or a recovery, has left the artifact   *)
(* it replaces at each of its steps, and Serving what the service runs     *)
(* while it is the only command.                                           *)
(***************************************************************************)
EXTENDS OfflineUpgrade, TLAPS

Unsettled == {"prepared", "draining", "stopped", "switched", "ready", "rolling_back"}
Settled   == {"none", "committed", "rolled_back"}

RollbackSteps == {"rolling_back", "rollback", "restore", "startAgain", "rolled_back"}

(* The steps of an upgrade that has made its backup. *)
PastBackup == {"prepared", "stage", "draining", "stopped", "switch", "activate", "switched",
               "start", "ready", "committed"} \cup RollbackSteps

UpgradeSteps ==
    {"idle", "admit", "preflight", "drain", "backup", "restart"} \cup PastBackup \cup Over
RecoverSteps == {"idle", "load"} \cup RollbackSteps \cup Over

Kept == Artifacts \cup {Nothing}

TypeOK ==
    /\ deployment \in {"systemd", "compose"}
    /\ place \in [active : Kept, previous : Kept, staged : Kept, failed : Kept, digest : Kept]
    /\ running \in Kept
    /\ archive \in BOOLEAN
    /\ journal \in [operation : Upgrades \cup {Nothing}, state : Unsettled \cup Settled,
                     previous : Kept]
    /\ receipt \in [Upgrades -> Kept]
    /\ pc \in [Commands -> UpgradeSteps \cup RecoverSteps]
    /\ answer \in [Commands -> {"none", "committed", "rolled_back"}]
    /\ kills \in Nat

(* One upgrade at a time has a backup and is past it. *)
Custody ==
    /\ \A u \in Upgrades : pc[u] \in UpgradeSteps
    /\ \A c \in Recovers : pc[c] \in RecoverSteps
    /\ \A u \in Upgrades : pc[u] \in PastBackup => archive /\ receipt[u] # Nothing
    /\ \A u, v \in Upgrades : pc[u] \in PastBackup /\ pc[v] \in PastBackup => u = v
    /\ journal.state # "none" => journal.previous # Nothing
    /\ \A c \in Recovers : pc[c] \in RollbackSteps => journal.state # "none"
    /\ "overlap" \notin mishaps =>
          \A c \in Recovers, q \in Commands : Alive(c) /\ Alive(q) => c = q
    /\ mishaps \cap {"second", "overlap"} = {} =>
          \A p, q \in Commands : Alive(p) /\ Alive(q) => p = q

(* Where a command has left the artifact that it takes back or keeps. *)
HasIt(step, artifact) ==
    /\ step \in {"prepared", "stage", "draining", "stopped", "switch", "startAgain", "rolled_back"}
          => place.active = artifact
    /\ step \in {"activate", "switched", "start", "ready", "committed", "restore"}
          => place.previous = artifact
    /\ step \in {"rolling_back", "rollback"} => artifact \in {place.active, place.previous}

Keeping ==
    /\ \A u \in Upgrades :
          /\ HasIt(pc[u], receipt[u])
          /\ pc[u] \in PastBackup \ {"prepared"} =>
                journal.operation = u /\ journal.previous = receipt[u] /\ journal.state \in Unsettled
    /\ \A c \in Recovers : pc[c] \in RollbackSteps =>
          HasIt(pc[c], journal.previous) /\ journal.state \in Unsettled
    /\ journal.state \in Unsettled => journal.previous \in {place.active, place.previous}

(* What is installed and executed while one upgrade is alone. *)
Serving ==
    /\ \A u \in Upgrades :
          /\ pc[u] \in {"draining", "stopped", "switch", "activate"} => place.staged = u
          /\ pc[u] \in {"switched", "start", "ready", "committed"} => place.active = u
          /\ pc[u] \in {"backup", "prepared", "stage", "draining", "stopped", "switch", "activate",
                        "switched", "start"} => running = Nothing
          /\ pc[u] \in {"ready", "committed"} => running = u
    /\ journal.state = "committed" => place.active = journal.operation
    /\ mishaps = {} => \A p \in Commands : pc[p] = "rolled_back" =>
          running = place.active /\ place.active # Nothing

IInv == /\ TypeOK /\ Custody
        /\ "overlap" \notin mishaps => Keeping
        /\ mishaps \cap {"second", "overlap"} = {} => Serving

(* The sets of steps, and what every action is built from. *)
USE DEF UpgradeSteps, RecoverSteps, PastBackup, RollbackSteps, Over, Unsettled, Settled, Commands,
        fixed, Goto

-----------------------------------------------------------------------------
(* What a step of one command leaves of the conditions on who is alive:    *)
(* p was alive, and everything that is alive afterwards was before.        *)
LEMMA AliveOnly ==
    ASSUME TypeOK, Custody, NEW p \in Commands, Alive(p), NEW s,
           pc' = [pc EXCEPT ![p] = s], mishaps \subseteq mishaps'
    PROVE  /\ \A q \in Commands : Alive(q)' => Alive(q)
           /\ "overlap" \notin mishaps' => 
                 \A c \in Recovers, q \in Commands : Alive(c)' /\ Alive(q)' => c = q
           /\ mishaps' \cap {"second", "overlap"} = {} =>
                 \A a, b \in Commands : Alive(a)' /\ Alive(b)' => a = b
<1>1. \A q \in Commands : Alive(q)' => Alive(q)
  BY DEF Alive, TypeOK
<1> QED
  BY <1>1 DEF Custody

LEMMA AdmitKeeps ==
    ASSUME IInv, NEW u \in Upgrades, AdmitAndPreflight(u)
    PROVE  IInv'
<1> USE DEF AdmitAndPreflight
<1>0. Alive(u) /\ mishaps \subseteq mishaps'
  BY DEF Alive
<1>1. TypeOK'
  BY DEF IInv, TypeOK, Kept, Artifacts
<1>2. Custody'
  BY <1>0, AliveOnly, CommandsAssumption DEF IInv, Custody, TypeOK, Alive, Artifacts
<1>3. ASSUME "overlap" \notin mishaps' PROVE Keeping'
  BY <1>0, <1>3, CommandsAssumption DEF IInv, Custody, Keeping, HasIt, TypeOK, Alive
<1>4. ASSUME mishaps' \cap {"second", "overlap"} = {} PROVE Serving'
  BY <1>0, <1>4, CommandsAssumption
  DEF IInv, Serving, Keeping, HasIt, Custody, TypeOK, Alive, Artifacts
<1> QED
  BY <1>1, <1>2, <1>3, <1>4 DEF IInv

LEMMA RefusedKeeps ==
    ASSUME IInv, NEW u \in Upgrades, Refused(u)
    PROVE  IInv'
<1> USE DEF Refused
<1>0. Alive(u) /\ mishaps \subseteq mishaps'
  BY DEF Alive
<1>1. TypeOK'
  BY DEF IInv, TypeOK, Kept, Artifacts
<1>2. Custody'
  BY <1>0, AliveOnly, CommandsAssumption DEF IInv, Custody, TypeOK, Alive, Artifacts
<1>3. ASSUME "overlap" \notin mishaps' PROVE Keeping'
  BY <1>0, <1>3, CommandsAssumption DEF IInv, Custody, Keeping, HasIt, TypeOK, Alive
<1>4. ASSUME mishaps' \cap {"second", "overlap"} = {} PROVE Serving'
  BY <1>0, <1>4, CommandsAssumption
  DEF IInv, Serving, Keeping, HasIt, Custody, TypeOK, Alive, Artifacts
<1> QED
  BY <1>1, <1>2, <1>3, <1>4 DEF IInv

LEMMA DrainKeeps ==
    ASSUME IInv, NEW u \in Upgrades, DrainAndStop(u)
    PROVE  IInv'
<1> USE DEF DrainAndStop
<1>0. Alive(u) /\ mishaps \subseteq mishaps'
  BY DEF Alive
<1>1. TypeOK'
  BY DEF IInv, TypeOK, Kept, Artifacts
<1>2. Custody'
  BY <1>0, AliveOnly, CommandsAssumption DEF IInv, Custody, TypeOK, Alive, Artifacts
<1>3. ASSUME "overlap" \notin mishaps' PROVE Keeping'
  BY <1>0, <1>3, CommandsAssumption DEF IInv, Custody, Keeping, HasIt, TypeOK, Alive
<1>4. ASSUME mishaps' \cap {"second", "overlap"} = {} PROVE Serving'
  BY <1>0, <1>4, CommandsAssumption
  DEF IInv, Serving, Keeping, HasIt, Custody, TypeOK, Alive, Artifacts
<1> QED
  BY <1>1, <1>2, <1>3, <1>4 DEF IInv

LEMMA BackupKeeps ==
    ASSUME IInv, NEW u \in Upgrades, CreateAndVerifyBackup(u)
    PROVE  IInv'
<1>0. Alive(u) /\ mishaps \subseteq mishaps'
  BY DEF Alive, CreateAndVerifyBackup
<1>1. CASE archive \/ running # Nothing \/ place.active = Nothing
  <2>0. /\ pc[u] = "backup"
        /\ pc' = [pc EXCEPT ![u] = "restart"]
        /\ UNCHANGED <<fixed, place, running, archive, journal, receipt, answer, mishaps>>
    BY <1>0, <1>1 DEF CreateAndVerifyBackup, IInv, TypeOK
  <2>1. TypeOK'
    BY <1>1, <2>0 DEF IInv, TypeOK, Kept, Artifacts
  <2>2. Custody'
    BY <1>0, <1>1, <2>0, AliveOnly, CommandsAssumption DEF IInv, Custody, TypeOK, Alive, Artifacts
  <2>3. ASSUME "overlap" \notin mishaps' PROVE Keeping'
    BY <1>0, <1>1, <2>0, <2>3, CommandsAssumption DEF IInv, Custody, Keeping, HasIt, TypeOK, Alive
  <2>4. ASSUME mishaps' \cap {"second", "overlap"} = {} PROVE Serving'
    BY <1>0, <1>1, <2>0, <2>4, CommandsAssumption
    DEF IInv, Serving, Keeping, HasIt, Custody, TypeOK, Alive, Artifacts
  <2> QED
    BY <2>1, <2>2, <2>3, <2>4 DEF IInv
<1>2. CASE ~(archive \/ running # Nothing \/ place.active = Nothing)
  <2>0. /\ pc[u] = "backup"
        /\ pc' = [pc EXCEPT ![u] = "prepared"]
        /\ ~archive /\ running = Nothing /\ place.active # Nothing
        /\ archive' = TRUE
        /\ receipt' = [receipt EXCEPT ![u] = place.active]
        /\ UNCHANGED <<fixed, place, running, journal, answer, mishaps>>
    BY <1>0, <1>2 DEF CreateAndVerifyBackup, IInv, TypeOK
  <2>1. TypeOK'
    BY <1>2, <2>0 DEF IInv, TypeOK, Kept, Artifacts
  <2>2. Custody'
    BY <1>0, <1>2, <2>0, AliveOnly, CommandsAssumption DEF IInv, Custody, TypeOK, Alive, Artifacts
  <2>3. ASSUME "overlap" \notin mishaps' PROVE Keeping'
    BY <1>0, <1>2, <2>0, <2>3, CommandsAssumption DEF IInv, Custody, Keeping, HasIt, TypeOK, Alive
  <2>4. ASSUME mishaps' \cap {"second", "overlap"} = {} PROVE Serving'
    BY <1>0, <1>2, <2>0, <2>4, CommandsAssumption
    DEF IInv, Serving, Keeping, HasIt, Custody, TypeOK, Alive, Artifacts
  <2> QED
    BY <2>1, <2>2, <2>3, <2>4 DEF IInv
<1> QED
  BY <1>1, <1>2 DEF Fail

LEMMA StageKeeps ==
    ASSUME IInv, NEW u \in Upgrades, StageArtifact(u)
    PROVE  IInv'
<1> USE DEF StageArtifact, AfterError
<1>0. Alive(u) /\ mishaps \subseteq mishaps'
  BY DEF Alive
<1>1. TypeOK'
  BY DEF IInv, TypeOK, Kept, Artifacts
<1>2. Custody'
  BY <1>0, AliveOnly, CommandsAssumption DEF IInv, Custody, TypeOK, Alive, Artifacts
<1>3. ASSUME "overlap" \notin mishaps' PROVE Keeping'
  BY <1>0, <1>3, CommandsAssumption DEF IInv, Custody, Keeping, HasIt, TypeOK, Alive
<1>4. ASSUME mishaps' \cap {"second", "overlap"} = {} PROVE Serving'
  BY <1>0, <1>4, CommandsAssumption
  DEF IInv, Serving, Keeping, HasIt, Custody, TypeOK, Alive, Artifacts
<1> QED
  BY <1>1, <1>2, <1>3, <1>4 DEF IInv

LEMMA PreserveKeeps ==
    ASSUME IInv, NEW u \in Upgrades, PreserveActive(u)
    PROVE  IInv'
<1>0. Alive(u) /\ mishaps \subseteq mishaps'
  BY DEF Alive, PreserveActive, AfterError
<1>1. CASE SwitchAllowed
  <2>0. /\ pc[u] = "switch"
        /\ pc' = [pc EXCEPT ![u] = "activate"]
        /\ place' = [place EXCEPT !.previous = place.active, !.active = Nothing]
        /\ UNCHANGED <<fixed, running, archive, journal, receipt, answer, mishaps>>
    BY <1>0, <1>1 DEF PreserveActive, AfterError, IInv, TypeOK
  <2>1. TypeOK'
    BY <1>1, <2>0 DEF IInv, TypeOK, Kept, Artifacts
  <2>2. Custody'
    BY <1>0, <1>1, <2>0, AliveOnly, CommandsAssumption DEF IInv, Custody, TypeOK, Alive, Artifacts
  <2>3. ASSUME "overlap" \notin mishaps' PROVE Keeping'
    BY <1>0, <1>1, <2>0, <2>3, CommandsAssumption DEF IInv, Custody, Keeping, HasIt, TypeOK, Alive
  <2>4. ASSUME mishaps' \cap {"second", "overlap"} = {} PROVE Serving'
    BY <1>0, <1>1, <2>0, <2>4, CommandsAssumption
    DEF IInv, Serving, Keeping, HasIt, Custody, TypeOK, Alive, Artifacts
  <2> QED
    BY <2>1, <2>2, <2>3, <2>4 DEF IInv
<1>2. CASE ~SwitchAllowed
  <2>0. /\ pc[u] = "switch"
        /\ pc' = [pc EXCEPT ![u] = "rolling_back"]
        /\ place' = place
        /\ UNCHANGED <<fixed, running, archive, journal, receipt, answer, mishaps>>
    BY <1>0, <1>2 DEF PreserveActive, AfterError, IInv, TypeOK
  <2>1. TypeOK'
    BY <1>2, <2>0 DEF IInv, TypeOK, Kept, Artifacts
  <2>2. Custody'
    BY <1>0, <1>2, <2>0, AliveOnly, CommandsAssumption DEF IInv, Custody, TypeOK, Alive, Artifacts
  <2>3. ASSUME "overlap" \notin mishaps' PROVE Keeping'
    BY <1>0, <1>2, <2>0, <2>3, CommandsAssumption DEF IInv, Custody, Keeping, HasIt, TypeOK, Alive
  <2>4. ASSUME mishaps' \cap {"second", "overlap"} = {} PROVE Serving'
    BY <1>0, <1>2, <2>0, <2>4, CommandsAssumption
    DEF IInv, Serving, Keeping, HasIt, Custody, TypeOK, Alive, Artifacts
  <2> QED
    BY <2>1, <2>2, <2>3, <2>4 DEF IInv
<1> QED
  BY <1>1, <1>2 DEF SwitchAllowed

LEMMA ActivateKeeps ==
    ASSUME IInv, NEW u \in Upgrades, ActivateStaged(u)
    PROVE  IInv'
<1> USE DEF ActivateStaged
<1>0. Alive(u) /\ mishaps \subseteq mishaps'
  BY DEF Alive
<1>1. TypeOK'
  BY DEF IInv, TypeOK, Kept, Artifacts
<1>2. Custody'
  BY <1>0, AliveOnly, CommandsAssumption DEF IInv, Custody, TypeOK, Alive, Artifacts
<1>3. ASSUME "overlap" \notin mishaps' PROVE Keeping'
  BY <1>0, <1>3, CommandsAssumption DEF IInv, Custody, Keeping, HasIt, TypeOK, Alive
<1>4. ASSUME mishaps' \cap {"second", "overlap"} = {} PROVE Serving'
  BY <1>0, <1>4, CommandsAssumption
  DEF IInv, Serving, Keeping, HasIt, Custody, TypeOK, Alive, Artifacts
<1> QED
  BY <1>1, <1>2, <1>3, <1>4 DEF IInv

LEMMA ActivateFailsKeeps ==
    ASSUME IInv, NEW u \in Upgrades, ActivateFails(u)
    PROVE  IInv'
<1> USE DEF ActivateFails, AfterError
<1>0. Alive(u) /\ mishaps \subseteq mishaps'
  BY DEF Alive
<1>1. TypeOK'
  BY DEF IInv, TypeOK, Kept, Artifacts
<1>2. Custody'
  BY <1>0, AliveOnly, CommandsAssumption DEF IInv, Custody, TypeOK, Alive, Artifacts
<1>3. ASSUME "overlap" \notin mishaps' PROVE Keeping'
  BY <1>0, <1>3, CommandsAssumption DEF IInv, Custody, Keeping, HasIt, TypeOK, Alive
<1>4. ASSUME mishaps' \cap {"second", "overlap"} = {} PROVE Serving'
  BY <1>0, <1>4, CommandsAssumption
  DEF IInv, Serving, Keeping, HasIt, Custody, TypeOK, Alive, Artifacts
<1> QED
  BY <1>1, <1>2, <1>3, <1>4 DEF IInv

LEMMA StartKeeps ==
    ASSUME IInv, NEW u \in Upgrades, StartAndWaitReady(u)
    PROVE  IInv'
<1> USE DEF StartAndWaitReady, StartService
<1>0. Alive(u) /\ mishaps \subseteq mishaps'
  BY DEF Alive
<1>1. TypeOK'
  BY DEF IInv, TypeOK, Kept, Artifacts
<1>2. Custody'
  BY <1>0, AliveOnly, CommandsAssumption DEF IInv, Custody, TypeOK, Alive, Artifacts
<1>3. ASSUME "overlap" \notin mishaps' PROVE Keeping'
  BY <1>0, <1>3, CommandsAssumption DEF IInv, Custody, Keeping, HasIt, TypeOK, Alive
<1>4. ASSUME mishaps' \cap {"second", "overlap"} = {} PROVE Serving'
  BY <1>0, <1>4, CommandsAssumption
  DEF IInv, Serving, Keeping, HasIt, Custody, TypeOK, Alive, Artifacts
<1> QED
  BY <1>1, <1>2, <1>3, <1>4 DEF IInv

LEMMA HelperFailsKeeps ==
    ASSUME IInv, NEW u \in Upgrades, HelperFails(u)
    PROVE  IInv'
<1>0. Alive(u) /\ mishaps \subseteq mishaps'
  BY DEF Alive, HelperFails, StartService, AfterError, Lost
<1>1. CASE pc[u] = "drain"
  <2>0. /\ pc' = [pc EXCEPT ![u] = "restart"]
        /\ running' \in {running, Nothing}
        /\ archive' = archive
        /\ mishaps' = mishaps
        /\ UNCHANGED <<fixed, place, journal, receipt, answer>>
    BY <1>0, <1>1 DEF HelperFails, StartService, AfterError, Lost, IInv, TypeOK
  <2>1. TypeOK'
    BY <1>1, <2>0 DEF IInv, TypeOK, Kept, Artifacts
  <2>2. Custody'
    BY <1>0, <1>1, <2>0, AliveOnly, CommandsAssumption DEF IInv, Custody, TypeOK, Alive, Artifacts
  <2>3. ASSUME "overlap" \notin mishaps' PROVE Keeping'
    BY <1>0, <1>1, <2>0, <2>3, CommandsAssumption DEF IInv, Custody, Keeping, HasIt, TypeOK, Alive
  <2>4. ASSUME mishaps' \cap {"second", "overlap"} = {} PROVE Serving'
    BY <1>0, <1>1, <2>0, <2>4, CommandsAssumption
    DEF IInv, Serving, Keeping, HasIt, Custody, TypeOK, Alive, Artifacts
  <2> QED
    BY <2>1, <2>2, <2>3, <2>4 DEF IInv
<1>2. CASE pc[u] = "backup"
  <2>0. /\ pc' = [pc EXCEPT ![u] = "restart"]
        /\ running' = running
        /\ archive' \in BOOLEAN
        /\ archive => archive'
        /\ mishaps' = mishaps
        /\ UNCHANGED <<fixed, place, journal, receipt, answer>>
    BY <1>0, <1>2 DEF HelperFails, StartService, AfterError, Lost, IInv, TypeOK
  <2>1. TypeOK'
    BY <1>2, <2>0 DEF IInv, TypeOK, Kept, Artifacts
  <2>2. Custody'
    BY <1>0, <1>2, <2>0, AliveOnly, CommandsAssumption DEF IInv, Custody, TypeOK, Alive, Artifacts
  <2>3. ASSUME "overlap" \notin mishaps' PROVE Keeping'
    BY <1>0, <1>2, <2>0, <2>3, CommandsAssumption DEF IInv, Custody, Keeping, HasIt, TypeOK, Alive
  <2>4. ASSUME mishaps' \cap {"second", "overlap"} = {} PROVE Serving'
    BY <1>0, <1>2, <2>0, <2>4, CommandsAssumption
    DEF IInv, Serving, Keeping, HasIt, Custody, TypeOK, Alive, Artifacts
  <2> QED
    BY <2>1, <2>2, <2>3, <2>4 DEF IInv
<1>3. CASE pc[u] = "stage"
  <2>0. /\ pc' = [pc EXCEPT ![u] = "restart"]
        /\ running' = running
        /\ archive' = archive
        /\ mishaps' = mishaps
        /\ UNCHANGED <<fixed, place, journal, receipt, answer>>
    BY <1>0, <1>3 DEF HelperFails, StartService, AfterError, Lost, IInv, TypeOK
  <2>1. TypeOK'
    BY <1>3, <2>0 DEF IInv, TypeOK, Kept, Artifacts
  <2>2. Custody'
    BY <1>0, <1>3, <2>0, AliveOnly, CommandsAssumption DEF IInv, Custody, TypeOK, Alive, Artifacts
  <2>3. ASSUME "overlap" \notin mishaps' PROVE Keeping'
    BY <1>0, <1>3, <2>0, <2>3, CommandsAssumption DEF IInv, Custody, Keeping, HasIt, TypeOK, Alive
  <2>4. ASSUME mishaps' \cap {"second", "overlap"} = {} PROVE Serving'
    BY <1>0, <1>3, <2>0, <2>4, CommandsAssumption
    DEF IInv, Serving, Keeping, HasIt, Custody, TypeOK, Alive, Artifacts
  <2> QED
    BY <2>1, <2>2, <2>3, <2>4 DEF IInv
<1>4. CASE pc[u] = "switch"
  <2>0. /\ pc' = [pc EXCEPT ![u] = "rolling_back"]
        /\ running' = running
        /\ archive' = archive
        /\ mishaps' = mishaps
        /\ UNCHANGED <<fixed, place, journal, receipt, answer>>
    BY <1>0, <1>4 DEF HelperFails, StartService, AfterError, Lost, IInv, TypeOK
  <2>1. TypeOK'
    BY <1>4, <2>0 DEF IInv, TypeOK, Kept, Artifacts
  <2>2. Custody'
    BY <1>0, <1>4, <2>0, AliveOnly, CommandsAssumption DEF IInv, Custody, TypeOK, Alive, Artifacts
  <2>3. ASSUME "overlap" \notin mishaps' PROVE Keeping'
    BY <1>0, <1>4, <2>0, <2>3, CommandsAssumption DEF IInv, Custody, Keeping, HasIt, TypeOK, Alive
  <2>4. ASSUME mishaps' \cap {"second", "overlap"} = {} PROVE Serving'
    BY <1>0, <1>4, <2>0, <2>4, CommandsAssumption
    DEF IInv, Serving, Keeping, HasIt, Custody, TypeOK, Alive, Artifacts
  <2> QED
    BY <2>1, <2>2, <2>3, <2>4 DEF IInv
<1>5. CASE pc[u] = "start"
  <2>0. /\ pc' = [pc EXCEPT ![u] = "rolling_back"]
        /\ running' \in {running, place.active}
        /\ archive' = archive
        /\ mishaps' = mishaps
        /\ UNCHANGED <<fixed, place, journal, receipt, answer>>
    BY <1>0, <1>5 DEF HelperFails, StartService, AfterError, Lost, IInv, TypeOK
  <2>1. TypeOK'
    BY <1>5, <2>0 DEF IInv, TypeOK, Kept, Artifacts
  <2>2. Custody'
    BY <1>0, <1>5, <2>0, AliveOnly, CommandsAssumption DEF IInv, Custody, TypeOK, Alive, Artifacts
  <2>3. ASSUME "overlap" \notin mishaps' PROVE Keeping'
    BY <1>0, <1>5, <2>0, <2>3, CommandsAssumption DEF IInv, Custody, Keeping, HasIt, TypeOK, Alive
  <2>4. ASSUME mishaps' \cap {"second", "overlap"} = {} PROVE Serving'
    BY <1>0, <1>5, <2>0, <2>4, CommandsAssumption
    DEF IInv, Serving, Keeping, HasIt, Custody, TypeOK, Alive, Artifacts
  <2> QED
    BY <2>1, <2>2, <2>3, <2>4 DEF IInv
<1>6. CASE pc[u] = "restart"
  <2>0. /\ pc' = [pc EXCEPT ![u] = "failed"]
        /\ running' \in {running, place.active}
        /\ archive' = archive
        /\ mishaps' = mishaps \cup {"lost"}
        /\ UNCHANGED <<fixed, place, journal, receipt, answer>>
    BY <1>0, <1>6 DEF HelperFails, StartService, AfterError, Lost, IInv, TypeOK
  <2>1. TypeOK'
    BY <1>6, <2>0 DEF IInv, TypeOK, Kept, Artifacts
  <2>2. Custody'
    BY <1>0, <1>6, <2>0, AliveOnly, CommandsAssumption DEF IInv, Custody, TypeOK, Alive, Artifacts
  <2>3. ASSUME "overlap" \notin mishaps' PROVE Keeping'
    BY <1>0, <1>6, <2>0, <2>3, CommandsAssumption DEF IInv, Custody, Keeping, HasIt, TypeOK, Alive
  <2>4. ASSUME mishaps' \cap {"second", "overlap"} = {} PROVE Serving'
    BY <1>0, <1>6, <2>0, <2>4, CommandsAssumption
    DEF IInv, Serving, Keeping, HasIt, Custody, TypeOK, Alive, Artifacts
  <2> QED
    BY <2>1, <2>2, <2>3, <2>4 DEF IInv
<1> QED
  BY <1>1, <1>2, <1>3, <1>4, <1>5, <1>6 DEF HelperFails

LEMMA PersistKeeps ==
    ASSUME IInv, NEW p \in Commands, PersistUpgradeJournal(p)
    PROVE  IInv'
<1> USE DEF PersistUpgradeJournal, JournalStep, Journaled
<1>0. Alive(p) /\ mishaps \subseteq mishaps'
  BY DEF Alive
<1>1. TypeOK'
  BY DEF IInv, TypeOK, Kept, Artifacts
<1>2. Custody'
  BY <1>0, AliveOnly, CommandsAssumption DEF IInv, Custody, TypeOK, Alive, Artifacts
<1>3. ASSUME "overlap" \notin mishaps' PROVE Keeping'
  BY <1>0, <1>3, CommandsAssumption DEF IInv, Custody, Keeping, HasIt, TypeOK, Alive
<1>4. ASSUME mishaps' \cap {"second", "overlap"} = {} PROVE Serving'
  BY <1>0, <1>4, CommandsAssumption
  DEF IInv, Serving, Keeping, HasIt, Custody, TypeOK, Alive, Artifacts
<1> QED
  BY <1>1, <1>2, <1>3, <1>4 DEF IInv

LEMMA PersistFailsKeeps ==
    ASSUME IInv, NEW p \in Commands, PersistFails(p)
    PROVE  IInv'
<1> USE DEF PersistFails, JournalStep, Journaled, AfterError, Lost
<1>0. Alive(p) /\ mishaps \subseteq mishaps'
  BY DEF Alive
<1>1. TypeOK'
  BY DEF IInv, TypeOK, Kept, Artifacts
<1>2. Custody'
  BY <1>0, AliveOnly, CommandsAssumption DEF IInv, Custody, TypeOK, Alive, Artifacts
<1>3. ASSUME "overlap" \notin mishaps' PROVE Keeping'
  BY <1>0, <1>3, CommandsAssumption DEF IInv, Custody, Keeping, HasIt, TypeOK, Alive
<1>4. ASSUME mishaps' \cap {"second", "overlap"} = {} PROVE Serving'
  BY <1>0, <1>4, CommandsAssumption
  DEF IInv, Serving, Keeping, HasIt, Custody, TypeOK, Alive, Artifacts
<1> QED
  BY <1>1, <1>2, <1>3, <1>4 DEF IInv

LEMMA RollbackKeeps ==
    ASSUME IInv, NEW p \in Commands, RollbackArtifact(p)
    PROVE  IInv'
<1>0. Alive(p) /\ mishaps \subseteq mishaps'
  BY DEF Alive, RollbackArtifact, Expected
<1>1. CASE pc' = [pc EXCEPT ![p] = "startAgain"] /\ place' = place
  <2>0. /\ pc[p] = "rollback"
        /\ place.previous = Nothing /\ mishaps' = mishaps
        /\ UNCHANGED <<fixed, running, archive, journal, receipt, answer>>
    BY <1>0, <1>1 DEF RollbackArtifact, Expected, IInv, TypeOK
  <2>1. TypeOK'
    BY <1>1, <2>0 DEF IInv, TypeOK, Kept, Artifacts
  <2>2. Custody'
    BY <1>0, <1>1, <2>0, AliveOnly, CommandsAssumption DEF IInv, Custody, TypeOK, Alive, Artifacts
  <2>3. ASSUME "overlap" \notin mishaps' PROVE Keeping'
    BY <1>0, <1>1, <2>0, <2>3, CommandsAssumption DEF IInv, Custody, Keeping, HasIt, TypeOK, Alive
  <2>4. ASSUME mishaps' \cap {"second", "overlap"} = {} PROVE Serving'
    BY <1>0, <1>1, <2>0, <2>4, CommandsAssumption
    DEF IInv, Serving, Keeping, HasIt, Custody, TypeOK, Alive, Artifacts
  <2> QED
    BY <2>1, <2>2, <2>3, <2>4 DEF IInv
<1>2. CASE pc' = [pc EXCEPT ![p] = "startAgain"] /\ place' # place
  <2>0. /\ pc[p] = "rollback"
        /\ place.previous = IF p \in Upgrades THEN receipt[p] ELSE journal.previous
        /\ place' = [place EXCEPT !.active = place.previous, !.previous = Nothing]
        /\ mishaps' = mishaps
        /\ UNCHANGED <<fixed, running, archive, journal, receipt, answer>>
    BY <1>0, <1>2 DEF RollbackArtifact, Expected, IInv, TypeOK
  <2>1. TypeOK'
    BY <1>2, <2>0 DEF IInv, TypeOK, Kept, Artifacts
  <2>2. Custody'
    BY <1>0, <1>2, <2>0, AliveOnly, CommandsAssumption DEF IInv, Custody, TypeOK, Alive, Artifacts
  <2>3. ASSUME "overlap" \notin mishaps' PROVE Keeping'
    BY <1>0, <1>2, <2>0, <2>3, CommandsAssumption DEF IInv, Custody, Keeping, HasIt, TypeOK, Alive
  <2>4. ASSUME mishaps' \cap {"second", "overlap"} = {} PROVE Serving'
    BY <1>0, <1>2, <2>0, <2>4, CommandsAssumption
    DEF IInv, Serving, Keeping, HasIt, Custody, TypeOK, Alive, Artifacts
  <2> QED
    BY <2>1, <2>2, <2>3, <2>4 DEF IInv
<1>3. CASE pc' = [pc EXCEPT ![p] = "restore"]
  <2>0. /\ pc[p] = "rollback"
        /\ place.previous = IF p \in Upgrades THEN receipt[p] ELSE journal.previous
        /\ place' = [place EXCEPT !.failed = place.active, !.active = Nothing]
        /\ mishaps' = mishaps
        /\ UNCHANGED <<fixed, running, archive, journal, receipt, answer>>
    BY <1>0, <1>3 DEF RollbackArtifact, Expected, IInv, TypeOK
  <2>1. TypeOK'
    BY <1>3, <2>0 DEF IInv, TypeOK, Kept, Artifacts
  <2>2. Custody'
    BY <1>0, <1>3, <2>0, AliveOnly, CommandsAssumption DEF IInv, Custody, TypeOK, Alive, Artifacts
  <2>3. ASSUME "overlap" \notin mishaps' PROVE Keeping'
    BY <1>0, <1>3, <2>0, <2>3, CommandsAssumption DEF IInv, Custody, Keeping, HasIt, TypeOK, Alive
  <2>4. ASSUME mishaps' \cap {"second", "overlap"} = {} PROVE Serving'
    BY <1>0, <1>3, <2>0, <2>4, CommandsAssumption
    DEF IInv, Serving, Keeping, HasIt, Custody, TypeOK, Alive, Artifacts
  <2> QED
    BY <2>1, <2>2, <2>3, <2>4 DEF IInv
<1>4. CASE pc' = [pc EXCEPT ![p] = "failed"]
  <2>0. /\ pc[p] = "rollback"
        /\ place' = place
        /\ mishaps' = mishaps \cup {"refused"}
        /\ UNCHANGED <<fixed, running, archive, journal, receipt, answer>>
    BY <1>0, <1>4 DEF RollbackArtifact, Expected, IInv, TypeOK
  <2>1. TypeOK'
    BY <1>4, <2>0 DEF IInv, TypeOK, Kept, Artifacts
  <2>2. Custody'
    BY <1>0, <1>4, <2>0, AliveOnly, CommandsAssumption DEF IInv, Custody, TypeOK, Alive, Artifacts
  <2>3. ASSUME "overlap" \notin mishaps' PROVE Keeping'
    BY <1>0, <1>4, <2>0, <2>3, CommandsAssumption DEF IInv, Custody, Keeping, HasIt, TypeOK, Alive
  <2>4. ASSUME mishaps' \cap {"second", "overlap"} = {} PROVE Serving'
    BY <1>0, <1>4, <2>0, <2>4, CommandsAssumption
    DEF IInv, Serving, Keeping, HasIt, Custody, TypeOK, Alive, Artifacts
  <2> QED
    BY <2>1, <2>2, <2>3, <2>4 DEF IInv
<1> QED
  BY <1>1, <1>2, <1>3, <1>4 DEF RollbackArtifact

LEMMA RestoreKeeps ==
    ASSUME IInv, NEW p \in Commands, RestorePrevious(p)
    PROVE  IInv'
<1> USE DEF RestorePrevious
<1>0. Alive(p) /\ mishaps \subseteq mishaps'
  BY DEF Alive
<1>1. TypeOK'
  BY DEF IInv, TypeOK, Kept, Artifacts
<1>2. Custody'
  BY <1>0, AliveOnly, CommandsAssumption DEF IInv, Custody, TypeOK, Alive, Artifacts
<1>3. ASSUME "overlap" \notin mishaps' PROVE Keeping'
  BY <1>0, <1>3, CommandsAssumption DEF IInv, Custody, Keeping, HasIt, TypeOK, Alive
<1>4. ASSUME mishaps' \cap {"second", "overlap"} = {} PROVE Serving'
  BY <1>0, <1>4, CommandsAssumption
  DEF IInv, Serving, Keeping, HasIt, Custody, TypeOK, Alive, Artifacts
<1> QED
  BY <1>1, <1>2, <1>3, <1>4 DEF IInv

LEMMA StartAgainKeeps ==
    ASSUME IInv, NEW p \in Commands, StartAgain(p)
    PROVE  IInv'
<1> USE DEF StartAgain, StartService
<1>0. Alive(p) /\ mishaps \subseteq mishaps'
  BY DEF Alive
<1>1. TypeOK'
  BY DEF IInv, TypeOK, Kept, Artifacts
<1>2. Custody'
  BY <1>0, AliveOnly, CommandsAssumption DEF IInv, Custody, TypeOK, Alive, Artifacts
<1>3. ASSUME "overlap" \notin mishaps' PROVE Keeping'
  BY <1>0, <1>3, CommandsAssumption DEF IInv, Custody, Keeping, HasIt, TypeOK, Alive
<1>4. ASSUME mishaps' \cap {"second", "overlap"} = {} PROVE Serving'
  BY <1>0, <1>4, CommandsAssumption
  DEF IInv, Serving, Keeping, HasIt, Custody, TypeOK, Alive, Artifacts
<1> QED
  BY <1>1, <1>2, <1>3, <1>4 DEF IInv

LEMMA RollbackFailsKeeps ==
    ASSUME IInv, NEW p \in Commands, RollbackFails(p)
    PROVE  IInv'
<1>0. Alive(p) /\ mishaps \subseteq mishaps'
  BY DEF Alive, RollbackFails, Lost
<1>1. CASE pc[p] = "restore"
  <2>0. /\ pc' = [pc EXCEPT ![p] = "failed"]
        /\ place' = [place EXCEPT !.active = place.failed, !.failed = Nothing]
        /\ mishaps' = mishaps \cup {"lost"}
        /\ UNCHANGED <<fixed, running, archive, journal, receipt, answer>>
    BY <1>0, <1>1 DEF RollbackFails, Lost, IInv, TypeOK
  <2>1. TypeOK'
    BY <1>1, <2>0 DEF IInv, TypeOK, Kept, Artifacts
  <2>2. Custody'
    BY <1>0, <1>1, <2>0, AliveOnly, CommandsAssumption DEF IInv, Custody, TypeOK, Alive, Artifacts
  <2>3. ASSUME "overlap" \notin mishaps' PROVE Keeping'
    BY <1>0, <1>1, <2>0, <2>3, CommandsAssumption DEF IInv, Custody, Keeping, HasIt, TypeOK, Alive
  <2>4. ASSUME mishaps' \cap {"second", "overlap"} = {} PROVE Serving'
    BY <1>0, <1>1, <2>0, <2>4, CommandsAssumption
    DEF IInv, Serving, Keeping, HasIt, Custody, TypeOK, Alive, Artifacts
  <2> QED
    BY <2>1, <2>2, <2>3, <2>4 DEF IInv
<1>2. CASE pc[p] \in {"rollback", "startAgain"}
  <2>0. /\ pc' = [pc EXCEPT ![p] = "failed"]
        /\ place' = place
        /\ mishaps' = mishaps \cup {"lost"}
        /\ UNCHANGED <<fixed, running, archive, journal, receipt, answer>>
    BY <1>0, <1>2 DEF RollbackFails, Lost, IInv, TypeOK
  <2>1. TypeOK'
    BY <1>2, <2>0 DEF IInv, TypeOK, Kept, Artifacts
  <2>2. Custody'
    BY <1>0, <1>2, <2>0, AliveOnly, CommandsAssumption DEF IInv, Custody, TypeOK, Alive, Artifacts
  <2>3. ASSUME "overlap" \notin mishaps' PROVE Keeping'
    BY <1>0, <1>2, <2>0, <2>3, CommandsAssumption DEF IInv, Custody, Keeping, HasIt, TypeOK, Alive
  <2>4. ASSUME mishaps' \cap {"second", "overlap"} = {} PROVE Serving'
    BY <1>0, <1>2, <2>0, <2>4, CommandsAssumption
    DEF IInv, Serving, Keeping, HasIt, Custody, TypeOK, Alive, Artifacts
  <2> QED
    BY <2>1, <2>2, <2>3, <2>4 DEF IInv
<1> QED
  BY <1>1, <1>2 DEF RollbackFails

LEMMA RecoverKeeps ==
    ASSUME IInv, NEW c \in Recovers, RecoverOfflineUpgrade(c)
    PROVE  IInv'
<1> USE DEF RecoverOfflineUpgrade, LoadUpgradeJournal
<1>0. Alive(c) /\ mishaps \subseteq mishaps'
  BY DEF Alive
<1>1. TypeOK'
  BY DEF IInv, TypeOK, Kept, Artifacts
<1>2. Custody'
  BY <1>0, AliveOnly, CommandsAssumption DEF IInv, Custody, TypeOK, Alive, Artifacts
<1>3. ASSUME "overlap" \notin mishaps' PROVE Keeping'
  BY <1>0, <1>3, CommandsAssumption DEF IInv, Custody, Keeping, HasIt, TypeOK, Alive
<1>4. ASSUME mishaps' \cap {"second", "overlap"} = {} PROVE Serving'
  BY <1>0, <1>4, CommandsAssumption
  DEF IInv, Serving, Keeping, HasIt, Custody, TypeOK, Alive, Artifacts
<1> QED
  BY <1>1, <1>2, <1>3, <1>4 DEF IInv

LEMMA KillKeeps ==
    ASSUME IInv, NEW p \in Commands, Kill(p)
    PROVE  IInv'
<1> USE DEF Kill
<1>0. Alive(p) /\ mishaps \subseteq mishaps'
  BY DEF Alive
<1>1. TypeOK'
  BY DEF IInv, TypeOK, Kept, Artifacts
<1>2. Custody'
  BY <1>0, AliveOnly, CommandsAssumption DEF IInv, Custody, TypeOK, Alive, Artifacts
<1>3. ASSUME "overlap" \notin mishaps' PROVE Keeping'
  BY <1>0, <1>3, CommandsAssumption DEF IInv, Custody, Keeping, HasIt, TypeOK, Alive
<1>4. ASSUME mishaps' \cap {"second", "overlap"} = {} PROVE Serving'
  BY <1>0, <1>4, CommandsAssumption
  DEF IInv, Serving, Keeping, HasIt, Custody, TypeOK, Alive, Artifacts
<1> QED
  BY <1>1, <1>2, <1>3, <1>4 DEF IInv

-----------------------------------------------------------------------------
LEMMA BeginKeeps ==
    ASSUME IInv, NEW p \in Commands, Begin(p)
    PROVE  IInv'
<1> USE DEF Begin
<1>0. /\ mishaps \subseteq mishaps'
      /\ \A q \in Commands : q # p => pc'[q] = pc[q]
      /\ pc'[p] = IF p \in Upgrades THEN "admit" ELSE "load"
  BY DEF IInv, TypeOK
<1>1. TypeOK'
  BY DEF IInv, TypeOK
<1>2. Custody'
  <2>1. \A q \in Commands : Alive(q)' => Alive(q) \/ q = p
    BY <1>0 DEF Alive
  <2>2. ASSUME "overlap" \notin mishaps'
        PROVE  \A c \in Recovers, q \in Commands : Alive(c)' /\ Alive(q)' => c = q
    <3>1. \A q \in Commands : Alive(q) => {p, q} \cap Recovers = {}
      BY <2>2
    <3> QED
      BY <1>0, <2>1, <2>2, <3>1 DEF IInv, Custody
  <2>3. ASSUME mishaps' \cap {"second", "overlap"} = {}
        PROVE  \A a, b \in Commands : Alive(a)' /\ Alive(b)' => a = b
    <3>1. \A q \in Commands : Alive(q) => {p, q} \cap Recovers = {}
      BY <2>3
    <3>2. \A q \in Upgrades : Alive(q) => p \notin Upgrades
      BY <2>3
    <3> QED
      BY <1>0, <2>1, <2>3, <3>1, <3>2 DEF IInv, Custody
  <2> QED
    BY <1>0, <2>2, <2>3, CommandsAssumption DEF IInv, Custody, TypeOK
<1>3. ASSUME "overlap" \notin mishaps' PROVE Keeping'
  BY <1>0, <1>3, CommandsAssumption DEF IInv, Keeping, HasIt, TypeOK
<1>4. ASSUME mishaps' \cap {"second", "overlap"} = {} PROVE Serving'
  <2>1. mishaps' = {} => mishaps = {}
    BY <1>0
  <2>2. mishaps \cap {"second", "overlap"} = {}
    BY <1>0, <1>4
  <2> QED
    BY <1>0, <2>1, <2>2, CommandsAssumption DEF IInv, Serving, TypeOK
<1> QED
  BY <1>1, <1>2, <1>3, <1>4 DEF IInv

(* The backup is only taken away when no command is alive. *)
LEMMA TakeArchiveKeeps ==
    ASSUME IInv, TakeArchive
    PROVE  IInv'
<1> USE DEF TakeArchive
<1>1. TypeOK'
  BY DEF IInv, TypeOK
<1>2. \A u \in Upgrades : pc[u] \notin PastBackup
  BY DEF Alive
<1>3. Custody'
  BY <1>2 DEF IInv, Custody, Alive
<1>4. Keeping' <=> Keeping
  BY DEF Keeping, HasIt
<1>5. Serving' <=> Serving
  BY DEF Serving
<1> QED
  BY <1>1, <1>3, <1>4, <1>5 DEF IInv

LEMMA ServiceRestartsKeeps ==
    ASSUME IInv, ServiceRestarts
    PROVE  IInv'
<1> USE DEF ServiceRestarts
<1>1. TypeOK'
  BY DEF IInv, TypeOK
<1>2. Custody' <=> Custody
  BY DEF Custody, Alive
<1>3. Keeping' <=> Keeping
  BY DEF Keeping, HasIt
<1>4. ASSUME mishaps' \cap {"second", "overlap"} = {} PROVE Serving'
  BY <1>4 DEF IInv, Serving
<1> QED
  BY <1>1, <1>2, <1>3, <1>4 DEF IInv

(* A reboot ends every command. *)
LEMMA RebootKeeps ==
    ASSUME IInv, Reboot
    PROVE  IInv'
<1> USE DEF Reboot
<1>0. \A p \in Commands : pc'[p] \in Over \cup {"idle"} /\ ~Alive(p)'
  BY DEF Alive
<1>1. TypeOK'
  BY DEF IInv, TypeOK
<1>2. Custody'
  BY <1>0 DEF IInv, Custody
<1>3. ASSUME "overlap" \notin mishaps' PROVE Keeping'
  BY <1>0, <1>3 DEF IInv, Keeping, HasIt
<1>4. ASSUME mishaps' \cap {"second", "overlap"} = {} PROVE Serving'
  BY <1>0, <1>4 DEF IInv, Serving
<1> QED
  BY <1>1, <1>2, <1>3, <1>4 DEF IInv

-----------------------------------------------------------------------------
LEMMA InitEstablishes ==
    Init => IInv
<1> SUFFICES ASSUME Init PROVE IInv
  OBVIOUS
<1>1. \A p \in Commands : pc[p] = "idle"
  BY DEF Init
<1>2. TypeOK
  BY DEF Init, TypeOK, NoJournal, Kept, Artifacts
<1>3. Custody
  BY <1>1 DEF Init, Custody, NoJournal, Alive
<1>4. Keeping
  BY <1>1 DEF Init, Keeping, HasIt, NoJournal
<1>5. Serving
  BY <1>1 DEF Init, Serving, NoJournal
<1> QED
  BY <1>2, <1>3, <1>4, <1>5 DEF IInv

LEMMA NextKeeps ==
    IInv /\ [Next]_vars => IInv'
<1> SUFFICES ASSUME IInv, [Next]_vars PROVE IInv'
  OBVIOUS
<1>1. CASE UNCHANGED vars
  BY <1>1 DEF vars, IInv, TypeOK, Custody, Alive, Keeping, HasIt, Serving
<1>2. ASSUME NEW u \in Upgrades, UpgradeStep(u) PROVE IInv'
  BY <1>2, AdmitKeeps, RefusedKeeps, DrainKeeps, BackupKeeps, StageKeeps, PreserveKeeps,
     ActivateKeeps, ActivateFailsKeeps, StartKeeps, HelperFailsKeeps
  DEF UpgradeStep
<1>3. ASSUME NEW p \in Commands, CommandStep(p) PROVE IInv'
  BY <1>3, BeginKeeps, PersistKeeps, PersistFailsKeeps, RollbackKeeps, RestoreKeeps,
     StartAgainKeeps, RollbackFailsKeeps, KillKeeps
  DEF CommandStep
<1>4. ASSUME NEW c \in Recovers, RecoverOfflineUpgrade(c) PROVE IInv'
  BY <1>4, RecoverKeeps
<1>5. CASE TakeArchive \/ ServiceRestarts \/ Reboot
  BY <1>5, TakeArchiveKeeps, ServiceRestartsKeeps, RebootKeeps
<1> QED
  BY <1>1, <1>2, <1>3, <1>4, <1>5 DEF Next

(* One upgrade at a time is past its backup, and it knows at every step    *)
(* where the artifact is that it replaces.                                 *)
THEOREM UpgradeInvariant ==
    Spec => []IInv
  BY InitEstablishes, NextKeeps, PTL DEF Spec

(* For any upgrades, recoveries and failures: an operation that is not     *)
(* settled finds the artifact it replaces where the helpers' rollback      *)
(* looks for it.                                                           *)
THEOREM PreviousAlwaysKept ==
    Spec => []PreviousIsKept
<1>1. IInv => PreviousIsKept
  BY DEF IInv, TypeOK, Keeping, PreviousIsKept
<1> QED
  BY <1>1, UpgradeInvariant, PTL

(* What run_offline_upgrade and recover_offline_upgrade answer, and what   *)
(* the journal records, is what is installed and served.                   *)
THEOREM OutcomeAlwaysServed ==
    Spec => OutcomeIsServed
<1>1. IInv /\ [Next]_vars => [CommittedIsServed /\ RolledBackIsServed]_vars
  <2> SUFFICES ASSUME IInv, Next PROVE CommittedIsServed /\ RolledBackIsServed
    OBVIOUS
  <2>1. ASSUME UNCHANGED answer, UNCHANGED journal PROVE CommittedIsServed /\ RolledBackIsServed
    BY <2>1 DEF CommittedIsServed, RolledBackIsServed
  <2>2. ASSUME NEW p \in Commands, PersistUpgradeJournal(p)
        PROVE  CommittedIsServed /\ RolledBackIsServed
    <3>1. CommittedIsServed
      BY <2>2, CommandsAssumption
      DEF PersistUpgradeJournal, CommittedIsServed, IInv, TypeOK, Custody, Serving, JournalStep,
          Journaled
    <3>2. RolledBackIsServed
      BY <2>2, CommandsAssumption
      DEF PersistUpgradeJournal, RolledBackIsServed, IInv, TypeOK, Custody, Keeping, HasIt,
          Serving, JournalStep, Journaled
    <3> QED
      BY <3>1, <3>2
  <2>3. ASSUME NEW p \in Commands, PersistFails(p)
        PROVE  CommittedIsServed /\ RolledBackIsServed
    <3>1. CommittedIsServed
      BY <2>3 DEF PersistFails, CommittedIsServed
    <3>2. RolledBackIsServed
      BY <2>3, CommandsAssumption
      DEF PersistFails, RolledBackIsServed, IInv, TypeOK, Custody, Keeping, HasIt, Serving,
          JournalStep, Journaled
    <3> QED
      BY <3>1, <3>2
  <2>4. ASSUME NEW c \in Recovers, RecoverOfflineUpgrade(c)
        PROVE  CommittedIsServed /\ RolledBackIsServed
    BY <2>4, CommandsAssumption
    DEF RecoverOfflineUpgrade, LoadUpgradeJournal, CommittedIsServed, RolledBackIsServed, IInv,
        TypeOK, Serving
  <2>5. ASSUME NEW u \in Upgrades, UpgradeStep(u) PROVE CommittedIsServed /\ RolledBackIsServed
    BY <2>1, <2>5
    DEF UpgradeStep, AdmitAndPreflight, Refused, DrainAndStop, CreateAndVerifyBackup,
        StageArtifact, PreserveActive, ActivateStaged, ActivateFails, StartAndWaitReady,
        HelperFails
  <2>6. ASSUME NEW p \in Commands, CommandStep(p) PROVE CommittedIsServed /\ RolledBackIsServed
    BY <2>1, <2>2, <2>3, <2>6
    DEF CommandStep, Begin, RollbackArtifact, RestorePrevious, StartAgain, RollbackFails, Kill
  <2>7. CASE TakeArchive \/ ServiceRestarts \/ Reboot
    BY <2>1, <2>7 DEF TakeArchive, ServiceRestarts, Reboot
  <2> QED
    BY <2>4, <2>5, <2>6, <2>7 DEF Next
<1> QED
  BY <1>1, UpgradeInvariant, PTL DEF Spec, OutcomeIsServed

(* An upgrade that gives up after it stopped the service leaves it running,*)
(* unless something else went wrong as well.                               *)
THEOREM FailureAlwaysRestoresService ==
    Spec => FailureRestoresService
<1> DEFINE Restored ==
      \A u \in Upgrades :
         (/\ mishaps' = {} /\ kills' = kills
          /\ pc[u] \notin {"admit", "preflight", "failed"} /\ pc'[u] = "failed") => running' # Nothing
<1>1. IInv /\ [Next]_vars => [Restored]_vars
  <2> SUFFICES ASSUME IInv, Next, NEW u \in Upgrades,
                      mishaps' = {}, kills' = kills,
                      pc[u] \notin {"admit", "preflight", "failed"}, pc'[u] = "failed"
               PROVE  running' # Nothing
    OBVIOUS
  <2>0. u \in Commands /\ pc \in [Commands -> UpgradeSteps \cup RecoverSteps] /\ pc'[u] # pc[u]
    BY DEF IInv, TypeOK
  <2>1. ASSUME NEW v \in Upgrades, UpgradeStep(v) PROVE running' # Nothing
    BY <2>0, <2>1
    DEF UpgradeStep, AdmitAndPreflight, Refused, DrainAndStop, CreateAndVerifyBackup,
        StageArtifact, PreserveActive, ActivateStaged, ActivateFails, StartAndWaitReady,
        StartService, HelperFails, AfterError, Lost
  <2>2. ASSUME NEW p \in Commands, PersistUpgradeJournal(p) PROVE running' # Nothing
    <3>1. p = u /\ pc[p] = "rolled_back" /\ mishaps = {}
      BY <2>0, <2>2, CommandsAssumption DEF PersistUpgradeJournal, JournalStep
    <3> QED
      BY <2>2, <3>1 DEF PersistUpgradeJournal, IInv, Serving
  <2>3. ASSUME NEW p \in Commands, PersistFails(p) PROVE running' # Nothing
    <3>1. p = u /\ pc[p] \in {"ready", "committed", "rolled_back"} /\ mishaps = {}
      BY <2>0, <2>3 DEF PersistFails, JournalStep, AfterError, Lost
    <3> QED
      BY <2>3, <3>1, CommandsAssumption DEF PersistFails, IInv, Serving, Artifacts
  <2>4. ASSUME NEW p \in Commands,
               Begin(p) \/ RollbackArtifact(p) \/ RestorePrevious(p) \/ StartAgain(p) \/ RollbackFails(p)
        PROVE  FALSE
    BY <2>0, <2>4 DEF Begin, RollbackArtifact, RestorePrevious, StartAgain, RollbackFails, Lost
  <2>5. \A p \in Commands : ~Kill(p)
    BY DEF Kill, IInv, TypeOK
  <2>6. ~Reboot
    BY DEF Reboot, IInv, TypeOK
  <2>7. ASSUME NEW c \in Recovers, RecoverOfflineUpgrade(c) PROVE FALSE
    BY <2>0, <2>7, CommandsAssumption DEF RecoverOfflineUpgrade
  <2>8. CASE TakeArchive \/ ServiceRestarts
    BY <2>0, <2>8 DEF TakeArchive, ServiceRestarts
  <2> QED
    BY <2>1, <2>2, <2>3, <2>4, <2>5, <2>6, <2>7, <2>8 DEF Next, CommandStep
<1> QED
  BY <1>1, UpgradeInvariant, PTL DEF Spec, FailureRestoresService

=============================================================================

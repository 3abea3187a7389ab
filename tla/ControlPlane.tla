---------------------------- MODULE ControlPlane ----------------------------
(***************************************************************************)
(* The control plane of the edge-proxy process: start-up (run_serve opens  *)
(* and verifies the audit ledger, then resolves the start-up               *)
(* configuration), the audited configuration mutations of the admin server *)
(* (intent record, effect, terminal record), the revision repository and   *)
(* what the event loop ("Core") and the admin snapshots hold.  The admin   *)
(* server handles one connection at a time.                                *)
(***************************************************************************)
EXTENDS AuditLedger

CONSTANTS
    NameMax,        \* revision ids longer than this have no file name
    OperationIds,   \* "operation-" + request id, chosen by the client
    Applied,        \* the contents that config/apply requests carry
    Seeded,         \* whether a bootstrap seed file exists
    MaxRequests,    \* bound: appends asked for by requests
    MaxCrashes      \* bound

VARIABLES
    revs,       \* FileRevisionRepository: revision id -> content
    cur,        \* its current pointer, <<>> when there is none
    past,       \* the versions of both since they were last known to be on disk
    taken,      \* ghost: a power loss changed the pointer, and no edit has since
    core,       \* the snapshot the event loop routes by
    desired,    \* the admin server's snapshot of the current revision
    active,     \* the admin server's view of the active snapshot
    admission,  \* AuditAdmissionState
    pc,         \* where the process is
    req,        \* the mutation in progress
    requests, crashes

planeVars == <<revs, cur, past, taken, core, desired, active, admission, pc, req, requests, crashes>>
vars == <<ledgerVars, planeVars>>
repository == <<revs, cur, past, taken>>

-----------------------------------------------------------------------------
(* Configurations: one proxy host in some version (0: absent), and what    *)
(* restart_warnings compares (listeners, metrics, resource policy).  A     *)
(* revision id is the current id with a suffix for the operation.          *)

Contents == [host : 0..2, listen : 0..1]
ASSUME AppliedAssumption == Applied \subseteq Contents

SeedId == <<"seed">>
SeedContent == [host |-> 1, listen |-> 0]
NoContent == [host |-> 0, listen |-> 0]

RestartRequired(from, to) == from.listen # to.listen
FileNameFits(id) == Len(id) <= NameMax

AllSynced == [revs |-> {}, curs |-> {}]
NoReq == [ph |-> "idle", op |-> "", what |-> "", id |-> <<>>, to |-> NoContent,
          head |-> 0, restart |-> FALSE, out |-> ""]

Init ==
    /\ LedgerInit
    /\ revs = [id \in {} |-> NoContent]
    /\ cur = <<>>
    /\ past = AllSynced /\ taken = FALSE
    /\ core = NoContent /\ desired = NoContent /\ active = NoContent
    /\ admission = "Starting"
    /\ pc = "down"
    /\ req = NoReq
    /\ requests = 0 /\ crashes = 0

-----------------------------------------------------------------------------
(* The process *)

(* Whatever the process held is gone; the files stay.                      *)
Exited ==
    /\ pc' = "down"
    /\ req' = NoReq
    /\ admission' = "Starting"
    /\ core' = NoContent /\ desired' = NoContent /\ active' = NoContent

(* Revision files and the pointer are written and renamed without a sync.  *)
(* A power loss brings each of them back as it was at some time since it   *)
(* was last known to be on disk, or not at all; a file that comes back     *)
(* empty is not readable either.  What a start then reads is on disk.  The *)
(* versions are kept while the bound leaves a crash to come.               *)
Loose(versions, n) == IF n < MaxCrashes THEN versions ELSE AllSynced
Versions(id, of) == IF id \in DOMAIN of THEN {<<id, of[id]>>} ELSE {}
WroteRevision(id) ==
    past' = Loose([past EXCEPT !.revs = @ \cup Versions(id, revs) \cup Versions(id, revs')], crashes)
WrotePointer == past' = Loose([past EXCEPT !.curs = @ \cup {cur, cur'}], crashes)
PowerLost ==
    LET loose == {v[1] : v \in past.revs}
    IN  /\ past # AllSynced /\ past' = AllSynced
        /\ \E kept \in SUBSET past.revs :
              /\ \A v, w \in kept : v[1] = w[1] => v = w
              /\ revs' = [id \in (DOMAIN revs \ loose) \cup {v[1] : v \in kept} |->
                             IF id \in loose THEN (CHOOSE v \in kept : v[1] = id)[2] ELSE revs[id]]
        /\ cur' \in IF past.curs = {} THEN {cur} ELSE past.curs \cup {<<>>}
        /\ taken' = (taken \/ cur' # cur)

(* The process is killed, or the machine loses power, perhaps after the    *)
(* process has ended.                                                      *)
Crash ==
    /\ pc # "down" \/ past # AllSynced
    /\ crashes < MaxCrashes
    /\ crashes' = crashes + 1
    /\ LedgerLost
    /\ Exited
    /\ \/ past' = Loose(past, crashes + 1) /\ UNCHANGED <<revs, cur, taken>>
       \/ PowerLost
    /\ UNCHANGED requests

(* The process ends in order: it was drained, or start-up returned an      *)
(* error.  No frame is lost.                                               *)
Exit ==
    /\ Exited
    /\ LedgerClose
    /\ UNCHANGED <<repository, requests, crashes>>

Stop == pc = "serving" /\ req.ph = "idle" /\ job.ph = "idle" /\ Exit

StartRefused == pc = "down" /\ ~ScanOk(TRUE) /\ UNCHANGED vars

Start ==
    /\ pc = "down" /\ ScanOk(TRUE)
    /\ Open
    /\ pc' = IF torn THEN "recovering" ELSE "verifying"
    /\ UNCHANGED <<repository, core, desired, active, admission, req, requests, crashes>>

RecoveryEnds ==
    /\ pc = "recovering"
    /\ \/ job.ph = "failed" /\ Exit
       \/ /\ job.ph = "done"
          /\ pc' = "verifying" /\ job' = IdleJob
          /\ UNCHANGED <<disk, torn, unsynced, led, acked, faults, repository, core, desired,
                         active, admission, req, requests, crashes>>

(* initialize_audit_ledger: an unresolved reconciliation ends the process; *)
(* incomplete operations are reconciled, which FailClosedAuditInspector    *)
(* can only answer by Unknown; otherwise mutations are admitted.           *)
ReconciliationOf(r) == [r.rec EXCEPT !.kind = "Reconciliation", !.out = "ReconciliationUnknown"]

InitializeAuditLedger ==
    /\ pc = "verifying"
    /\ \/ UnresolvedReconciliations(led.recs) # {} /\ Exit
       \/ /\ UnresolvedReconciliations(led.recs) = {}
          /\ IF IncompleteOperations(led.recs) # <<>>
                THEN /\ StartAppend(ReconciliationOf(IncompleteOperations(led.recs)[1]))
                     /\ pc' = "reconciling" /\ admission' = "Reconciling"
                ELSE /\ UNCHANGED job
                     /\ pc' = "resolving" /\ admission' = "Healthy"
          /\ UNCHANGED <<disk, torn, unsynced, led, acked, faults, repository, core, desired,
                         active, req, requests, crashes>>

(* Unknown, or an append that failed: start-up fails closed.               *)
ReconciliationEnds == pc = "reconciling" /\ job.ph \in {"done", "failed"} /\ Exit

Serve(content) ==
    /\ pc' = "serving"
    /\ core' = content /\ desired' = content /\ active' = content

(* ResolveStartupConfigUseCase: the current revision, or in an empty       *)
(* repository the seed, which is saved and then made current.              *)
ResolveCurrent ==
    /\ pc = "resolving" /\ cur \in DOMAIN revs
    /\ Serve(revs[cur])
    /\ UNCHANGED <<ledgerVars, repository, admission, req, requests, crashes>>

SaveSeed ==
    /\ pc = "resolving" /\ cur = <<>> /\ DOMAIN revs = {} /\ Seeded
    /\ revs' = (SeedId :> SeedContent) /\ WroteRevision(SeedId)
    /\ pc' = "seeding"
    /\ UNCHANGED <<ledgerVars, cur, taken, core, desired, active, admission, req, requests, crashes>>

(* The pointer dangles, there are revisions but no pointer, there is no    *)
(* seed, or the TLS preflight of the configuration fails.                  *)
ResolutionFails == pc = "resolving" /\ Exit

SeedMadeCurrent ==
    /\ pc = "seeding"
    /\ cur' = SeedId /\ WrotePointer
    /\ Serve(SeedContent)
    /\ UNCHANGED <<ledgerVars, revs, taken, admission, req, requests, crashes>>

SeedFails ==
    /\ pc = "seeding"
    /\ Fault /\ Exited
    /\ led' = Closed /\ job' = IdleJob
    /\ UNCHANGED <<disk, torn, unsynced, acked, repository, requests, crashes>>

-----------------------------------------------------------------------------
(* Mutations *)

Idle == pc = "serving" /\ req.ph = "idle" /\ job.ph = "idle"

(* begin_audit_operation with the revision id and the content the handler  *)
(* will build from the current revision.                                   *)
Begin(op, what, id, to) ==
    /\ Idle /\ requests < MaxRequests
    /\ requests' = requests + 1
    /\ admission = "Healthy"
    /\ StartAppend(Record("Intent", op, "", <<>>))
    /\ req' = [NoReq EXCEPT !.ph = "intent", !.op = op, !.what = what, !.id = id, !.to = to]
    /\ UNCHANGED <<disk, torn, unsynced, led, acked, faults, repository, core, desired, active,
                   admission, pc, crashes>>

ApplyConfigSource(op) ==
    \E to \in Applied : Begin(op, "apply", Append(cur, "config-apply"), to)
CreateProxyHost(op) ==
    Begin(op, "create", Append(cur, "proxy-host"), [revs[cur] EXCEPT !.host = 1])
UpdateProxyHost(op) ==
    Begin(op, "update", Append(cur, "update-proxy-host"), [revs[cur] EXCEPT !.host = 2])
DeleteProxyHost(op) ==
    Begin(op, "delete", Append(cur, "delete-proxy-host"), [revs[cur] EXCEPT !.host = 0])
Rollback(op) ==
    \E id \in DOMAIN revs \cup {<<"unknown">>} :
        Begin(op, "rollback", id, IF id \in DOMAIN revs THEN revs[id] ELSE NoContent)

BeginRequest ==
    /\ Idle
    /\ \E op \in OperationIds :
          \/ ApplyConfigSource(op)
          \/ CreateProxyHost(op) \/ UpdateProxyHost(op) \/ DeleteProxyHost(op)
          \/ Rollback(op)

(* Mutant: the effect runs whether or not the intent was written.          *)
IntentIgnored ==
    /\ req.ph = "intent" /\ job.ph \in {"done", "failed"}
    /\ req' = [req EXCEPT !.ph = "effect", !.head = led.seq]
    /\ job' = IdleJob
    /\ UNCHANGED <<disk, torn, unsynced, led, acked, faults, repository, core, desired, active,
                   admission, pc, requests, crashes>>

(* No effect without a durable intent: the answer is 503.                  *)
IntentEnds ==
    /\ req.ph = "intent" /\ job.ph \in {"done", "failed"}
    /\ req' = IF job.ph = "done" THEN [req EXCEPT !.ph = "effect", !.head = led.seq] ELSE NoReq
    /\ job' = IdleJob
    /\ UNCHANGED <<disk, torn, unsynced, led, acked, faults, repository, core, desired, active,
                   admission, pc, requests, crashes>>

(* complete_audit_operation: the terminal record is appended to the head   *)
(* the intent left.                                                        *)
Complete(out) ==
    /\ req' = [req EXCEPT !.ph = "terminal", !.out = out]
    /\ IF req.head = led.seq
          THEN StartAppend(Record("Terminal", req.op, out,
                                  IF out = "Succeeded" THEN req.id ELSE <<>>))
          ELSE job' = [IdleJob EXCEPT !.ph = "failed"]

(* What the handlers must refuse: an unknown revision, a proxy host that   *)
(* does not exist, an id whose file name is too long.                      *)
Refused ==
    \/ req.what \in {"update", "delete"} /\ revs[cur].host = 0
    \/ req.what = "rollback" /\ req.id \notin DOMAIN revs
    \/ req.what # "rollback" /\ ~FileNameFits(req.id)

(* Any request may also carry a body that does not parse or validate.      *)
EffectRefused ==
    /\ req.ph = "effect" /\ (Refused \/ req.what # "rollback")
    /\ Complete("Failed")
    /\ UNCHANGED <<disk, torn, unsynced, led, acked, faults, repository, core, desired, active,
                   admission, pc, requests, crashes>>

(* apply_with_core saves the revision, overwriting one of the same id;     *)
(* rollback_with_core finds it.  The plan compares with the current        *)
(* revision as it is stored.                                               *)
SaveRevision ==
    /\ req.ph = "effect" /\ ~Refused
    /\ IF req.what = "rollback" THEN UNCHANGED <<revs, past>>
       ELSE revs' = (req.id :> req.to) @@ revs /\ WroteRevision(req.id)
    /\ req' = [req EXCEPT !.ph = "saved", !.restart = RestartRequired(revs[cur], req.to)]
    /\ UNCHANGED <<ledgerVars, cur, taken, core, desired, active, admission, pc, requests, crashes>>

SaveFails ==
    /\ req.ph = "effect" /\ ~Refused /\ req.what # "rollback"
    /\ Fault
    /\ Complete("Failed")
    /\ UNCHANGED <<disk, torn, unsynced, led, acked, repository, core, desired, active,
                   admission, pc, requests, crashes>>

(* send_apply_plan: no command when a restart is required; otherwise the   *)
(* event loop activates the snapshot or rejects it.                        *)
CoreAnswers ==
    /\ req.ph = "saved"
    /\ \/ /\ core' = IF req.restart THEN core ELSE req.to
          /\ req' = [req EXCEPT !.ph = "commit"]
          /\ UNCHANGED job
       \/ /\ ~req.restart
          /\ Complete("Failed")
          /\ UNCHANGED core
    /\ UNCHANGED <<disk, torn, unsynced, led, acked, faults, repository, desired, active,
                   admission, pc, requests, crashes>>

SetCurrent ==
    /\ req.ph = "commit"
    /\ cur' = req.id /\ WrotePointer /\ taken' = FALSE
    /\ Complete("Succeeded")
    /\ UNCHANGED <<disk, torn, unsynced, led, acked, faults, revs, core, desired, active,
                   admission, pc, requests, crashes>>

SetCurrentFails ==
    /\ req.ph = "commit"
    /\ Fault
    /\ Complete("Failed")
    /\ UNCHANGED <<disk, torn, unsynced, led, acked, repository, core, desired, active,
                   admission, pc, requests, crashes>>

(* Mutant: a terminal record that was not written leaves admission open.   *)
TerminalKeepsAdmission ==
    /\ req.ph = "terminal" /\ job.ph \in {"done", "failed"}
    /\ req' = NoReq
    /\ job' = IdleJob
    /\ UNCHANGED <<disk, torn, unsynced, led, acked, faults, repository, core, desired, active,
                   admission, pc, requests, crashes>>

(* The answer: 200 refreshes the admin snapshots, the active one only when *)
(* it could be activated without a restart; a terminal record that was not *)
(* written closes admission and answers 503 whatever was committed.        *)
TerminalEnds ==
    /\ req.ph = "terminal" /\ job.ph \in {"done", "failed"}
    /\ admission' = IF job.ph = "failed" THEN "Degraded" ELSE admission
    /\ IF job.ph = "done" /\ req.out = "Succeeded"
          THEN /\ desired' = revs[cur]
               /\ active' = IF RestartRequired(active, revs[cur]) THEN active ELSE revs[cur]
          ELSE UNCHANGED <<desired, active>>
    /\ req' = NoReq
    /\ job' = IdleJob
    /\ UNCHANGED <<disk, torn, unsynced, led, acked, faults, repository, core, pc, requests, crashes>>

(* record_auth_observation: a login, a logout, a lockout or a sampled      *)
(* failure is recorded while the ledger is healthy.                        *)
Observe ==
    /\ Idle /\ requests < MaxRequests
    /\ admission = "Healthy"
    /\ requests' = requests + 1
    /\ StartAppend(Record("SecurityObservation", "observation", "Observed", <<>>))
    /\ req' = [NoReq EXCEPT !.ph = "observation"]
    /\ UNCHANGED <<disk, torn, unsynced, led, acked, faults, repository, core, desired, active,
                   admission, pc, crashes>>

ObservationEnds ==
    /\ req.ph = "observation" /\ job.ph \in {"done", "failed"}
    /\ admission' = IF job.ph = "failed" THEN "Degraded" ELSE admission
    /\ req' = NoReq
    /\ job' = IdleJob
    /\ UNCHANGED <<disk, torn, unsynced, led, acked, faults, repository, core, desired, active,
                   pc, requests, crashes>>

Next ==
    \/ Crash \/ Stop \/ StartRefused \/ Start \/ RecoveryEnds
    \/ InitializeAuditLedger \/ ReconciliationEnds
    \/ ResolveCurrent \/ SaveSeed \/ ResolutionFails \/ SeedMadeCurrent \/ SeedFails
    \/ BeginRequest \/ IntentEnds \/ EffectRefused
    \/ SaveRevision \/ SaveFails \/ CoreAnswers \/ SetCurrent \/ SetCurrentFails
    \/ TerminalEnds \/ Observe \/ ObservationEnds
    \/ LedgerStep /\ UNCHANGED planeVars

Spec == Init /\ [][Next]_vars

-----------------------------------------------------------------------------
(* Properties *)

(* A record whose append was acknowledged is in the files for good, or     *)
(* lies in a range that a checkpoint in the files says was pruned: no      *)
(* crash, failed write, rotation, retention or recovery loses it.          *)
AcknowledgedIsKept ==
    \A s \in 1..acked : \E n \in DOMAIN disk : \E i \in 1..Len(disk[n]) :
        disk[n][i].seq = s \/ s <= disk[n][i].meta.last

(* The repository and the event loop change only at start-up or for an     *)
(* operation whose intent is durable and not yet closed, so a crash at any *)
(* point of the effect is visible to the next start.                       *)
IntentIsDurable ==
    /\ unsynced = 0
    /\ \E n \in DOMAIN disk : \E i \in 1..Len(disk[n]) :
          /\ disk[n][i].seq = req.head
          /\ disk[n][i].rec.kind = "Intent" /\ disk[n][i].rec.op = req.op
          /\ \A m \in DOMAIN disk : \A j \in 1..Len(disk[m]) :
                m > n \/ (m = n /\ j > i) => disk[m][j].rec.kind \notin Closing
EffectNeedsIntent ==
    [][(revs' # revs \/ cur' # cur \/ core' # core) /\ pc = "serving" /\ pc' = "serving"
          => IntentIsDurable]_vars

(* While the server admits mutations and none is in progress, the newest   *)
(* successful terminal record in the ledger names the current revision:    *)
(* failures of the store, of the event loop or of the ledger, crashes and  *)
(* restarts leave no history that disagrees with the repository, except    *)
(* for a power loss that takes the pointer back (SuccessIsDurable fails),  *)
(* and then only until the next edit.                                      *)
Succeeded(r) == r.rec.kind = "Terminal" /\ r.rec.out = "Succeeded"
SuccessIsDurable ==
    pc = "serving" /\ admission = "Healthy" /\ req.ph = "idle" =>
        LET done == SelectSeq(led.recs, Succeeded)
        IN  done # <<>> => Last(done).rec.after = cur
LedgerTellsCurrent == ~taken => SuccessIsDurable

(* A client that follows the cursors of GET /api/v1/audit gets every       *)
(* record in memory exactly once, newest first, whatever the page limit,   *)
(* also after segments were pruned.                                        *)
PagesCoverLedger ==
    pc = "serving" /\ job.ph = "idle" =>
        \A limit \in 1..2 : FollowCursors(limit) = Reverse(led.recs)

(* What an auditor reads is complete and true: the pages are the ledger,   *)
(* and its newest success is the current revision.                         *)
HistoryTellsTruth == LedgerTellsCurrent /\ PagesCoverLedger

(* A ledger that only its own process wrote opens again after any crash.   *)
LedgerReopens == pc = "down" => ScanOk(TRUE)
=============================================================================

---------------------------- MODULE TlsMaterial -----------------------------
(***************************************************************************)
(* Certificates and trust bundles, from the admin requests that change     *)
(* them to the listeners that use them: manual import with compensation,   *)
(* issue and renewal through an ACME client (HTTP-01 challenges            *)
(* included), import and deletion of trust bundles, activation of a        *)
(* configuration with the material it names, and what a restart makes of   *)
(* the files.  The admin server serves one connection at a time, so one    *)
(* request is in progress; a file write, a send to the event loop and a    *)
(* crash are steps between which the others happen.  Every configuration   *)
(* considered has an HTTPS listener and is hot-appliable; authentication   *)
(* and the audit records around a request are ControlPlane's.              *)
(***************************************************************************)
EXTENDS CertificateFiles

CONSTANTS
    Revisions,      \* configuration revisions
    CertsOf,        \* revision -> the certificate_refs of its enabled routes
    TrustOf,        \* revision -> the trust bundles its listeners and upstreams need
    FirstRevision,
    FirstFiles,     \* ref -> what the certificate store holds at first
    MaxRequests, MaxFaults, MaxCrashes   \* bounds

ASSUME RevisionAssumption ==
    /\ FirstRevision \in Revisions
    /\ CertsOf \in [Revisions -> (SUBSET Refs) \ {{}}]
    /\ TrustOf \in [Revisions -> SUBSET Bundles]
    /\ FirstFiles \in [Refs -> Stored]
    \* What is stored at first was stored by these requests.
    /\ \A r \in Refs : Loads(FirstFiles[r]) =>
          FirstFiles[r].domains \subseteq Names[FirstFiles[r].chain]

VARIABLES
    files,      \* FileCertificateStore
    trust,      \* FileTrustBundleStore
    retained,   \* the revisions of the repository's history
    current,    \* its current pointer
    loop,       \* the event loop: active revision and the listeners' certificates
    mirror,     \* the command client's copy of both
    tokens,     \* SharedHttp01TokenStore: hosts whose challenge is answered
    up,         \* whether the process serves
    req,        \* the request in progress
    spoiled,    \* refs whose last change was cut short or not activated
    adrift,     \* an activation was left half done
    littered,   \* bundles a crash or an error left something of
    requests, faults, crashes

stores == <<files, trust, retained, current>>
runtime == <<loop, mirror, up>>
tracked == <<spoiled, adrift, littered>>
bounds == <<requests, faults, crashes>>
vars == <<stores, runtime, tokens, req, tracked, bounds>>

Idle == [op |-> "idle", ph |-> "", ref |-> "", of |-> NoMaterial, domains |-> {},
         prev |-> NoDirectory, to |-> ""]

-----------------------------------------------------------------------------
(* What can be prepared from the files *)

(* prepare_tls_runtime_snapshot_for_snapshot *)
LoadedCerts(rev) == [r \in CertsOf[rev] |-> Loaded(files[r])]
CertsPrepare(rev) == (\A r \in CertsOf[rev] : Loads(files[r])) /\ FromConfigsOk(LoadedCerts(rev))

(* prepare_tls_runtime_generation: the trust bundles of listeners and      *)
(* upstreams.                                                              *)
TrustPrepares(rev) == \A b \in TrustOf[rev] : TrustLoads(trust[b])

Startable(rev) == CertsPrepare(rev) /\ TrustPrepares(rev)

Down == [rev |-> FirstRevision, tls |-> [r \in {} |-> Loaded(NoDirectory)]]

Init ==
    /\ files = FirstFiles
    /\ trust = [b \in Bundles |-> NoBundle]
    /\ retained = {FirstRevision} /\ current = FirstRevision
    /\ loop = Down /\ mirror = Down /\ up = FALSE
    /\ tokens = {}
    /\ req = Idle
    /\ spoiled = {} /\ adrift = FALSE /\ littered = {}
    /\ requests = 0 /\ faults = 0 /\ crashes = 0

(* run_serve: nothing is served until all the material of the current      *)
(* revision is prepared.                                                   *)
Start ==
    /\ ~up /\ Startable(current)
    /\ loop' = [rev |-> current, tls |-> LoadedCerts(current)]
    /\ mirror' = loop'
    /\ up' = TRUE
    /\ adrift' = FALSE
    /\ UNCHANGED <<stores, tokens, req, spoiled, littered, bounds>>

StartRefused == ~up /\ ~Startable(current) /\ UNCHANGED vars

Fault == faults < MaxFaults /\ faults' = faults + 1

Saving == {"chain", "key", "meta", "rechain", "rekey", "remeta", "redelete", "install"}

(* The process is killed; files stay as they are.                          *)
Crash ==
    /\ up /\ crashes < MaxCrashes
    /\ crashes' = crashes + 1
    /\ up' = FALSE /\ loop' = Down /\ mirror' = Down /\ tokens' = {}
    /\ req' = Idle
    /\ spoiled' = IF req.ph \in Saving \ {"chain"} THEN spoiled \cup {req.ref} ELSE spoiled
    /\ littered' = IF req.op = "trust" THEN littered \cup {req.ref} ELSE littered
    /\ UNCHANGED <<stores, adrift, requests, faults>>

(* The admin server waits for a connection.                                *)
WaitForRequest == up /\ req = Idle /\ UNCHANGED vars

Accept ==
    /\ up /\ req = Idle /\ requests < MaxRequests
    /\ requests' = requests + 1
    /\ UNCHANGED <<faults, crashes>>

Goto(ph) == req' = [req EXCEPT !.ph = ph]
Answer == req' = Idle

-----------------------------------------------------------------------------
(* Certificate requests *)

(* import_manual_certificate_and_install up to the first write: what was   *)
(* stored is read first, and an unreadable directory refuses the request.  *)
Import(r, m, k, declared) ==
    /\ Accept
    /\ ImportIsValid(m, k, declared)
    /\ Absent(files[r]) \/ Readable(files[r])
    /\ req' = [Idle EXCEPT !.op = "import", !.ph = "chain", !.ref = r, !.of = m,
                           !.domains = declared, !.prev = files[r]]
    /\ UNCHANGED <<stores, runtime, tokens, tracked>>

(* handle_certificate_issue_http_with_http01: any ref, any domains; the    *)
(* challenges come first.                                                  *)
Issue(r, wanted) ==
    /\ Accept
    /\ wanted # {}
    /\ req' = [Idle EXCEPT !.op = "issue", !.ph = "challenge", !.ref = r, !.domains = wanted]
    /\ UNCHANGED <<stores, runtime, tokens, tracked>>

(* renew_for_ref: for the domains of what is stored.                       *)
Renew(r) ==
    /\ Accept
    /\ Readable(files[r])
    /\ req' = [Idle EXCEPT !.op = "renew", !.ph = "order", !.ref = r,
                           !.domains = files[r].domains]
    /\ UNCHANGED <<stores, runtime, tokens, tracked>>

(* present_http01 and the probe through the event loop, domain by domain.  *)
PresentChallenge(h) ==
    /\ req.ph = "challenge" /\ h \in req.domains \ tokens
    /\ tokens' = tokens \cup {h}
    /\ UNCHANGED <<stores, runtime, req, tracked, bounds>>

ChallengesVerified ==
    /\ req.ph = "challenge" /\ req.domains \subseteq tokens
    /\ Goto("order")
    /\ UNCHANGED <<stores, runtime, tokens, tracked, bounds>>

(* A challenge cannot be verified, or the authority refuses the order:     *)
(* nothing was stored.                                                     *)
OrderFails ==
    /\ req.ph \in {"challenge", "order"}
    /\ Goto("clear")
    /\ UNCHANGED <<stores, runtime, tokens, tracked, bounds>>

OrderIssued(m) ==
    /\ req.ph = "order" /\ Names[m] = req.domains
    /\ req' = [req EXCEPT !.ph = "chain", !.of = m, !.prev = files[req.ref]]
    /\ UNCHANGED <<stores, runtime, tokens, tracked, bounds>>

(* save_certificate: three renames, the metadata last.                     *)
SetFile(r, with) == files' = [files EXCEPT ![r] = with]

WriteChain ==
    /\ req.ph \in {"chain", "rechain"}
    /\ SetFile(req.ref, [files[req.ref] EXCEPT !.dir = TRUE,
                            !.chain = IF req.ph = "chain" THEN req.of ELSE req.prev.chain])
    /\ Goto(IF req.ph = "chain" THEN "key" ELSE "rekey")
    /\ UNCHANGED <<trust, retained, current, runtime, tokens, tracked, bounds>>

WriteKey ==
    /\ req.ph \in {"key", "rekey"}
    /\ SetFile(req.ref, [files[req.ref] EXCEPT
                            !.key = IF req.ph = "key" THEN req.of ELSE req.prev.key])
    /\ Goto(IF req.ph = "key" THEN "meta" ELSE "remeta")
    /\ UNCHANGED <<trust, retained, current, runtime, tokens, tracked, bounds>>

WriteMeta ==
    /\ req.ph \in {"meta", "remeta"}
    /\ SetFile(req.ref, [files[req.ref] EXCEPT !.meta = TRUE,
                            !.domains = IF req.ph = "meta" THEN req.domains
                                                           ELSE req.prev.domains])
    /\ Goto(IF req.ph = "meta" THEN "install" ELSE "clear")
    /\ UNCHANGED <<trust, retained, current, runtime, tokens, tracked, bounds>>

(* A write failed: the request fails as it stands.  create_dir_all may     *)
(* have made the directory.                                                *)
WriteFails ==
    /\ req.ph \in {"chain", "key", "meta", "rechain", "rekey", "remeta", "redelete"}
    /\ Fault
    /\ \/ UNCHANGED files
       \/ req.ph = "chain" /\ SetFile(req.ref, [files[req.ref] EXCEPT !.dir = TRUE])
    /\ spoiled' = IF files'[req.ref] # req.prev THEN spoiled \cup {req.ref} ELSE spoiled
    /\ Goto("clear")
    /\ UNCHANGED <<trust, retained, current, runtime, tokens, adrift, littered, requests,
                   crashes>>

(* InstallCertificate: the certificate as it is stored, in the client's    *)
(* copy of the listeners' certificates, with the trust of its revision.    *)
Candidate == ReplaceConfig(mirror.tls, req.ref, Loaded(files[req.ref]))
InstallPrepares ==
    /\ Loads(files[req.ref])
    /\ Disjoint(Candidate)
    /\ TrustPrepares(mirror.rev)

InstallAccepted ==
    /\ req.ph = "install" /\ InstallPrepares
    /\ loop' = [loop EXCEPT !.tls = Candidate]
    /\ mirror' = [mirror EXCEPT !.tls = Candidate]
    /\ spoiled' = spoiled \ {req.ref}
    /\ Goto("clear")
    /\ UNCHANGED <<stores, up, tokens, adrift, littered, bounds>>

NeverPutsBack(op, prev) == "clear"

(* What follows a refusal: an import puts back what was stored; an issued  *)
(* certificate stays stored.                                               *)
AfterRefusal(op, prev) ==
    CASE op # "import" -> "clear"
      [] op = "import" /\ Absent(prev) -> "redelete"
      [] OTHER -> "rechain"

(* Refused while preparing, or by the event loop (a full or closed command *)
(* channel, a listener it does not have); or the audit record that         *)
(* precedes the command cannot be written.                                 *)
InstallRejected ==
    /\ req.ph = "install"
    /\ \/ ~InstallPrepares /\ UNCHANGED faults
       \/ InstallPrepares /\ Fault
    /\ Goto(AfterRefusal(req.op, req.prev))
    /\ spoiled' = IF req.op # "import" THEN spoiled \cup {req.ref} ELSE spoiled
    /\ UNCHANGED <<stores, runtime, tokens, adrift, littered, requests, crashes>>

(* restore_certificate of a ref that had nothing.                          *)
DeleteCertificate ==
    /\ req.ph = "redelete"
    /\ \E f \in Unlinked(files[req.ref]) :
          SetFile(req.ref, f) /\ IF f = NoDirectory THEN Goto("clear") ELSE UNCHANGED req
    /\ UNCHANGED <<trust, retained, current, runtime, tokens, tracked, bounds>>


(* clear_presented_http01, whatever became of the order.                   *)
TakenBack(t, presented) == t \ presented

RequestEnds ==
    /\ req.ph = "clear"
    /\ tokens' = IF req.op = "issue" THEN TakenBack(tokens, req.domains) ELSE tokens
    /\ Answer
    /\ UNCHANGED <<stores, runtime, tracked, bounds>>

-----------------------------------------------------------------------------
(* Trust bundle requests *)

SetTrust(b, with) == trust' = [trust EXCEPT ![b] = with]

(* create_trust_bundle: everything is written and synced under a temporary *)
(* name.  The material was validated before.                               *)
ImportTrust(b) ==
    /\ Accept
    /\ CanCreate(trust[b])
    /\ SetTrust(b, [trust[b] EXCEPT !.temp = "empty"])
    /\ req' = [Idle EXCEPT !.op = "trust", !.ph = "roots", !.ref = b]
    /\ UNCHANGED <<files, retained, current, runtime, tokens, tracked>>

WriteRoots ==
    /\ req.ph = "roots"
    /\ SetTrust(req.ref, [trust[req.ref] EXCEPT !.temp = "roots"])
    /\ Goto("metadata")
    /\ UNCHANGED <<files, retained, current, runtime, tokens, tracked, bounds>>

WriteMetadata ==
    /\ req.ph = "metadata"
    /\ SetTrust(req.ref, [trust[req.ref] EXCEPT !.temp = "whole"])
    /\ Goto("rename")
    /\ UNCHANGED <<files, retained, current, runtime, tokens, tracked, bounds>>

(* The rename publishes the bundle; the sync that follows may still fail   *)
(* the request.                                                            *)
PublishTrust ==
    /\ req.ph = "rename"
    /\ SetTrust(req.ref, [final |-> trust[req.ref].temp, temp |-> "absent"])
    /\ \/ UNCHANGED <<faults, littered>>
       \/ Fault /\ littered' = littered \cup {req.ref}
    /\ Answer
    /\ UNCHANGED <<files, retained, current, runtime, tokens, spoiled, adrift, requests, crashes>>


(* An error removes the temporary directory; whether that succeeds is not  *)
(* looked at.                                                              *)
TempRemoved(temp) == "absent"

TrustImportFails ==
    /\ req.ph \in {"roots", "metadata", "rename"}
    /\ Fault
    /\ \/ SetTrust(req.ref, [trust[req.ref] EXCEPT !.temp = TempRemoved(trust[req.ref].temp)])
          /\ UNCHANGED littered
       \/ UNCHANGED trust /\ littered' = littered \cup {req.ref}
    /\ Answer
    /\ UNCHANGED <<files, retained, current, runtime, tokens, spoiled, adrift, requests, crashes>>

ReferencedNow(b) == b \in TrustOf[current]

(* delete_trust_bundle: not while a retained revision refers to it.        *)
Referenced(b) == \E rev \in retained : b \in TrustOf[rev]

DeleteTrust(b) ==
    /\ Accept
    /\ trust[b].final # "absent" /\ ~Referenced(b)
    /\ req' = [Idle EXCEPT !.op = "trust", !.ph = "removing", !.ref = b]
    /\ UNCHANGED <<stores, runtime, tokens, tracked>>

RemoveTrust(d) ==
    /\ req.ph = "removing" /\ d \in Removed(trust[req.ref].final)
    /\ SetTrust(req.ref, [trust[req.ref] EXCEPT !.final = d])
    /\ IF d = "absent" THEN Answer ELSE UNCHANGED req
    /\ UNCHANGED <<files, retained, current, runtime, tokens, tracked, bounds>>

RemoveTrustFails ==
    /\ req.ph = "removing"
    /\ Fault
    /\ littered' = littered \cup {req.ref}
    /\ Answer
    /\ UNCHANGED <<stores, runtime, tokens, spoiled, adrift, requests, crashes>>

-----------------------------------------------------------------------------
(* Configuration requests: the part that concerns TLS material *)

(* apply_with_core saves the revision before the event loop is asked;      *)
(* rollback_with_core takes one of the history.                            *)
Apply(rev) ==
    /\ Accept
    /\ rev # current
    /\ retained' = retained \cup {rev}
    /\ req' = [Idle EXCEPT !.op = "apply", !.ph = "activate", !.to = rev]
    /\ UNCHANGED <<files, trust, current, runtime, tokens, tracked>>

(* The candidate and, for compensation, the generation in use are both     *)
(* prepared before anything is sent.                                       *)
ActivatePrepares(rev) == Startable(rev) /\ TrustPrepares(mirror.rev)

ActivateRejected ==
    /\ req.ph = "activate"
    /\ \/ ~ActivatePrepares(req.to) /\ UNCHANGED faults
       \/ ActivatePrepares(req.to) /\ Fault
    /\ Answer
    /\ UNCHANGED <<stores, runtime, tokens, tracked, requests, crashes>>

ActivateAccepted ==
    /\ req.ph = "activate" /\ ActivatePrepares(req.to)
    /\ loop' = [rev |-> req.to, tls |-> LoadedCerts(req.to)]
    /\ Goto("commit")
    /\ UNCHANGED <<stores, mirror, up, tokens, tracked, bounds>>

(* The health runtime commits; the client copies what is active.           *)
HealthCommits ==
    /\ req.ph = "commit"
    /\ mirror' = loop
    /\ Goto("current")
    /\ UNCHANGED <<stores, loop, up, tokens, tracked, bounds>>

(* It does not: the generation in use before is sent again, which may be   *)
(* refused in its turn.                                                    *)
HealthCommitFails ==
    /\ req.ph = "commit"
    /\ Fault
    /\ \/ loop' = mirror /\ UNCHANGED adrift
       \/ UNCHANGED loop /\ adrift' = TRUE
    /\ Answer
    /\ UNCHANGED <<stores, mirror, up, tokens, spoiled, littered, requests, crashes>>

SetCurrent ==
    /\ req.ph = "current"
    /\ \/ current' = req.to /\ adrift' = FALSE /\ UNCHANGED faults
       \/ Fault /\ adrift' = TRUE /\ UNCHANGED current
    /\ Answer
    /\ UNCHANGED <<files, trust, retained, runtime, tokens, spoiled, littered, requests, crashes>>

-----------------------------------------------------------------------------
CertificateNext ==
    \/ \E r \in Refs, m, k \in Materials, d \in SUBSET Hosts : Import(r, m, k, d)
    \/ \E r \in Refs, d \in SUBSET Hosts : Issue(r, d)
    \/ \E r \in Refs : Renew(r)
    \/ \E h \in Hosts : PresentChallenge(h)
    \/ ChallengesVerified \/ OrderFails
    \/ \E m \in Materials : OrderIssued(m)
    \/ WriteChain \/ WriteKey \/ WriteMeta \/ WriteFails
    \/ InstallAccepted \/ InstallRejected \/ DeleteCertificate \/ RequestEnds

TrustNext ==
    \/ \E b \in Bundles : ImportTrust(b) \/ DeleteTrust(b)
    \/ WriteRoots \/ WriteMetadata \/ PublishTrust \/ TrustImportFails
    \/ \E d \in BundleDirs : RemoveTrust(d)
    \/ RemoveTrustFails

ApplyNext ==
    \/ \E rev \in Revisions : Apply(rev)
    \/ ActivateRejected \/ ActivateAccepted
    \/ HealthCommits \/ HealthCommitFails \/ SetCurrent

Next == Start \/ StartRefused \/ WaitForRequest \/ Crash \/ CertificateNext \/ TrustNext \/ ApplyNext

Spec == Init /\ [][Next]_vars

-----------------------------------------------------------------------------
(* Between requests, and unless an activation was left half done, a        *)
(* restart would serve what is served now: the revision in use is the      *)
(* current one and its trust bundles load; and every certificate of it     *)
(* whose last change was not cut short or refused loads from the store as  *)
(* the listeners have it.  An import that the event loop refuses leaves    *)
(* neither the store nor the listeners changed.                            *)
RestartServesTheSame ==
    up /\ req = Idle /\ ~adrift =>
        /\ loop.rev = current /\ TrustPrepares(current)
        /\ \A r \in CertsOf[current] \ spoiled :
              Loads(files[r]) /\ loop.tls[r] = Loaded(files[r])
        /\ CertsOf[current] \cap spoiled = {} => Startable(current)

(* A host name is answered by one certificate at most, and by one that     *)
(* covers it, unless the files of that certificate were torn.              *)
HostsGetTheirCertificate ==
    /\ \A h \in Hosts : Cardinality(Resolve(loop.tls, h)) <= 1
    /\ \A r \in DOMAIN loop.tls \ spoiled : loop.tls[r].domains \subseteq Names[loop.tls[r].material]

(* A trust bundle that a revision of the history needs stays loadable: a   *)
(* rollback finds it.                                                      *)
RollbackFindsTrust ==
    [][\A rev \in retained : \A b \in TrustOf[rev] : TrustLoads(trust[b]) => TrustLoads(trust'[b])]_vars

(* Between requests the trust store can be listed, and a reference whose   *)
(* import failed can be imported again, unless a crash or a failing        *)
(* removal left something behind.                                          *)
RefusedTrustLeavesNothing ==
    req = Idle =>
        /\ \A b \in Bundles \ littered : trust[b].final \in {"absent", "whole"} /\ trust[b].temp = "absent"
        /\ littered = {} => TrustLists(trust)

(* HTTP-01 challenges are answered during the order they belong to only.   *)
ChallengesAreTakenBack == req.op # "issue" => tokens = {}

(* Between requests the TLS material is in order: hosts resolve to their   *)
(* certificate, and no refused import or finished order is left over.      *)
MaterialIsInOrder ==
    HostsGetTheirCertificate /\ RefusedTrustLeavesNothing /\ ChallengesAreTakenBack
=============================================================================

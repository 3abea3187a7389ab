-------------------------- MODULE TlsMaterialProofs --------------------------
(***************************************************************************)
(* Proofs about TlsMaterial, for any references, materials, bundles and    *)
(* revisions, and any number of requests, faults and crashes.              *)
(*                                                                         *)
(* The properties speak of the time between requests.  The invariant says  *)
(* what each request in progress has done so far: which of the three files *)
(* of its certificate are new (Rewriting), how far the directory of its    *)
(* bundle is (TrustInOrder), and which of the event loop, the client's     *)
(* copy and the current pointer have moved to the new revision             *)
(* (ServingInOrder).                                                       *)
(***************************************************************************)
EXTENDS TlsMaterial, FiniteSetTheorems, TLAPS

CertificateSteps == {"challenge", "order", "chain", "key", "meta", "install", "rechain", "rekey",
                     "remeta", "redelete", "clear"}
TrustSteps == {"roots", "metadata", "rename", "removing"}
ApplySteps == {"activate", "commit", "current"}

CertificateOps == {"import", "issue", "renew"}
Requests == [op : {"idle", "trust", "apply"} \cup CertificateOps,
             ph : {""} \cup CertificateSteps \cup TrustSteps \cup ApplySteps,
             ref : Refs \cup Bundles \cup {""}, of : Materials \cup {NoMaterial},
             domains : SUBSET Hosts, prev : Stored, to : Revisions \cup {""}]

Configs == [material : Materials \cup {NoMaterial}, domains : SUBSET Hosts]
TlsMaps == UNION {[R -> Configs] : R \in SUBSET Refs}

TypeOK ==
    /\ files \in [Refs -> Stored]
    /\ trust \in [Bundles -> [final : BundleDirs, temp : BundleDirs]]
    /\ retained \subseteq Revisions /\ current \in retained
    /\ loop \in [rev : Revisions, tls : TlsMaps]
    /\ mirror \in [rev : Revisions, tls : TlsMaps]
    /\ tokens \subseteq Hosts
    /\ up \in BOOLEAN
    /\ req \in Requests
    /\ spoiled \subseteq Refs /\ adrift \in BOOLEAN /\ littered \subseteq Bundles
    /\ requests \in Nat /\ faults \in Nat /\ crashes \in Nat

(* A request keeps to the steps of its kind, and ends when the process does. *)
RequestInOrder ==
    /\ req.op = "idle" => req = Idle
    /\ req.op # "idle" => up
    /\ req.op \in CertificateOps => req.ph \in CertificateSteps /\ req.ref \in Refs
    /\ req.op = "import" => req.ph # "order"
    /\ req.ph = "challenge" => req.op = "issue"
    /\ req.ph \in {"rechain", "rekey", "remeta", "redelete"} => req.op = "import"
    /\ req.op = "trust" => req.ph \in TrustSteps /\ req.ref \in Bundles
    /\ req.op = "apply" => req.ph \in ApplySteps /\ req.to \in retained
    /\ req.op = "issue" => tokens \subseteq req.domains
    /\ req.op # "issue" => tokens = {}

(* What the directory of a bundle holds while it is made or removed. *)
TrustInOrder ==
    /\ \A b \in Bundles \ littered :
          \/ req.op = "trust" /\ req.ref = b
          \/ trust[b].final \in {"absent", "whole"} /\ trust[b].temp = "absent"
    /\ req.ph \in {"roots", "metadata", "rename"} => trust[req.ref].final = "absent"
    /\ req.ph = "roots"    => trust[req.ref].temp = "empty"
    /\ req.ph = "metadata" => trust[req.ref].temp = "roots"
    /\ req.ph = "rename"   => trust[req.ref].temp = "whole"
    /\ req.ph = "removing" =>
          ~Referenced(req.ref) /\ (req.ref \notin littered => trust[req.ref].temp = "absent")

(* The leaf covers the domains under which a stored certificate is used. *)
Covered(f) == Loads(f) => f.domains \subseteq Names[f.chain]

(* A certificate of which some files are new and some are not. *)
Torn(r) == req.ph \in Saving \ {"chain"} /\ r = req.ref

Served(f, r) == Loads(f) /\ loop.tls[r] = Loaded(f)

(* How far the files are rewritten, with the new ones or the ones before. *)
Rewriting ==
    /\ req.ph \in Saving =>
          /\ req.of \in Materials /\ req.domains \subseteq Names[req.of]
          /\ req.op = "import" => Absent(req.prev) \/ Readable(req.prev)
          /\ req.ref \notin spoiled => Covered(req.prev)
          /\ ~adrift /\ req.ref \in CertsOf[current] \ spoiled => Served(req.prev, req.ref)
    /\ req.ph = "chain" => files[req.ref] = req.prev
    /\ req.ph \in {"key", "meta", "install"} => files[req.ref].dir /\ files[req.ref].chain = req.of
    /\ req.ph \in {"meta", "install"}        => files[req.ref].key = req.of
    /\ req.ph = "install" => files[req.ref].meta /\ files[req.ref].domains = req.domains
    /\ req.ph \in {"rechain", "rekey", "remeta"} =>
          Readable(req.prev) /\ files[req.ref].dir /\ files[req.ref].meta
    /\ req.ph \in {"rekey", "remeta"} => files[req.ref].chain = req.prev.chain
    /\ req.ph = "remeta"              => files[req.ref].key = req.prev.key
    /\ req.ph = "redelete"            => Absent(req.prev)

FilesCovered == \A r \in Refs \ spoiled : Torn(r) \/ Covered(files[r])

MapInOrder(tls) ==
    /\ Disjoint(tls)
    /\ \A r \in DOMAIN tls \ spoiled : tls[r].domains \subseteq Names[tls[r].material]

(* What serves the current revision, but for the certificate being changed. *)
Serves(l) ==
    /\ l.rev = current /\ TrustPrepares(current)
    /\ CertsOf[current] \subseteq DOMAIN l.tls
    /\ \A r \in CertsOf[current] \ spoiled :
          Torn(r) \/ (Loads(files[r]) /\ l.tls[r] = Loaded(files[r]))

ServingInOrder ==
    /\ up /\ ~adrift /\ req.ph \notin {"commit", "current"} => mirror = loop /\ Serves(loop)
    /\ ~adrift /\ req.ph = "commit" => Serves(mirror)
    /\ req.ph \in {"commit", "current"} =>
          /\ loop = [rev |-> req.to, tls |-> LoadedCerts(req.to)]
          /\ TrustPrepares(req.to) /\ \A r \in CertsOf[req.to] : Loads(files[r])
    /\ req.ph = "current" => mirror = loop

IInv ==
    /\ TypeOK /\ RequestInOrder /\ TrustInOrder /\ Rewriting /\ FilesCovered
    /\ MapInOrder(loop.tls) /\ MapInOrder(mirror.tls) /\ ServingInOrder
-----------------------------------------------------------------------------
(* What every action is built from. *)
USE DEF CertificateSteps, TrustSteps, ApplySteps, CertificateOps, Saving, stores, runtime, tracked,
        bounds

(* A map of certificates is a function on references. *)
LEMMA MapsAreFunctions ==
    ASSUME NEW tls \in TlsMaps
    PROVE  /\ DOMAIN tls \subseteq Refs
           /\ \A r \in DOMAIN tls : tls[r] \in Configs
<1>1. PICK R \in SUBSET Refs : tls \in [R -> Configs]
  BY DEF TlsMaps
<1> QED
  BY <1>1

LEMMA FunctionsAreMaps ==
    ASSUME NEW R \in SUBSET Refs, NEW tls \in [R -> Configs]
    PROVE  tls \in TlsMaps
  BY DEF TlsMaps

(* What the loaders make of stored files is a map of certificates. *)
LEMMA LoadedIsMap ==
    ASSUME TypeOK, NEW rev \in Revisions
    PROVE  LoadedCerts(rev) \in TlsMaps
<1>1. CertsOf[rev] \in SUBSET Refs
  BY RevisionAssumption
<1>2. LoadedCerts(rev) \in [CertsOf[rev] -> Configs]
  BY <1>1 DEF LoadedCerts, Loaded, Configs, TypeOK, Stored
<1> QED
  BY <1>1, <1>2, FunctionsAreMaps

LEMMA CandidateIsMap ==
    ASSUME TypeOK, req.ref \in Refs
    PROVE  Candidate \in TlsMaps
<1>1. Loaded(files[req.ref]) \in Configs
  BY DEF Loaded, Configs, TypeOK, Stored
<1>2. DOMAIN mirror.tls \subseteq Refs /\ \A r \in DOMAIN mirror.tls : mirror.tls[r] \in Configs
  BY MapsAreFunctions DEF TypeOK
<1>3. Candidate \in [DOMAIN mirror.tls \cup {req.ref} -> Configs]
  BY <1>1, <1>2 DEF Candidate, ReplaceConfig
<1> QED
  BY <1>2, <1>3, FunctionsAreMaps

LEMMA DownInOrder == Down \in [rev : Revisions, tls : TlsMaps] /\ DOMAIN Down.tls = {}
<1>1. Down.tls \in [{} -> Configs]
  BY DEF Down
<1> QED
  BY <1>1, FunctionsAreMaps, RevisionAssumption DEF Down

-----------------------------------------------------------------------------
(* The request in progress.                                                *)

LEMMA IdleIs == Idle \in Requests /\ Idle.op = "idle" /\ Idle.ph = ""
  BY DEF Idle, Requests, NoDirectory, Stored

(* A step of a request changes its phase and nothing else of it. *)
LEMMA GotoIs ==
    ASSUME req \in Requests, NEW s \in CertificateSteps \cup TrustSteps \cup ApplySteps, Goto(s)
    PROVE  /\ req' \in Requests /\ req'.ph = s /\ req'.op = req.op /\ req'.ref = req.ref
           /\ req'.of = req.of /\ req'.domains = req.domains /\ req'.prev = req.prev
           /\ req'.to = req.to
  BY DEF Goto, Requests

(* The phase tells the kind of the request. *)
LEMMA PhaseTells ==
    ASSUME TypeOK, RequestInOrder
    PROVE  /\ req.ph = "" <=> req.op = "idle"
           /\ req.ph \in CertificateSteps <=> req.op \in CertificateOps
           /\ req.ph \in TrustSteps <=> req.op = "trust"
           /\ req.ph \in ApplySteps <=> req.op = "apply"
<1>1. req.op \in {"idle", "trust", "apply"} \cup CertificateOps
  BY DEF TypeOK, Requests
<1>2. CASE req.op = "idle"
  BY <1>2, IdleIs DEF RequestInOrder
<1>3. CASE req.op # "idle"
  BY <1>1, <1>3 DEF RequestInOrder
<1> QED
  BY <1>2, <1>3

LEMMA StepInOrder ==
    ASSUME TypeOK, RequestInOrder, NEW s \in CertificateSteps \cup TrustSteps \cup ApplySteps,
           Goto(s), req.op # "idle", UNCHANGED <<tokens, up, retained>>,
           s \in CertificateSteps <=> req.op \in CertificateOps,
           s \in TrustSteps <=> req.op = "trust",
           s = "challenge" => req.op = "issue", s = "order" => req.op # "import",
           s \in {"rechain", "rekey", "remeta", "redelete"} => req.op = "import"
    PROVE  RequestInOrder'
<1>1. /\ req'.ph = s /\ req'.op = req.op /\ req'.ref = req.ref
      /\ req'.domains = req.domains /\ req'.to = req.to
  BY GotoIs DEF TypeOK
<1>2. req.op \in {"idle", "trust", "apply"} \cup CertificateOps
  BY DEF TypeOK, Requests
<1> QED
  BY <1>1, <1>2 DEF RequestInOrder

LEMMA AnswerInOrder ==
    ASSUME Answer, tokens' = {}
    PROVE  req' \in Requests /\ req'.op = "idle" /\ req'.ph = "" /\ RequestInOrder'
  BY IdleIs DEF Answer, RequestInOrder

-----------------------------------------------------------------------------
(* What a step leaves alone.                                               *)

(* A request that is none of the trust bundle requests leaves the bundles. *)
LEMMA TrustKept ==
    ASSUME TypeOK, RequestInOrder, TrustInOrder, req.op # "trust", req'.ph \notin TrustSteps,
           UNCHANGED <<trust, littered>>
    PROVE  TrustInOrder'
  BY DEF TrustInOrder

(* A request that is none of the certificate requests leaves the files. *)
LEMMA FilesKept ==
    ASSUME FilesCovered, req.ph \notin Saving, req'.ph \notin Saving, UNCHANGED <<files, spoiled>>
    PROVE  Rewriting' /\ FilesCovered'
<1>1. Rewriting'
  BY DEF Rewriting
<1>2. FilesCovered'
  BY DEF FilesCovered, Torn, Covered
<1> QED
  BY <1>1, <1>2

(* What serves is left alone by a step that changes neither the files nor  *)
(* what is loaded, and no bundle that the current revision needs.          *)
LEMMA ServingKept ==
    ASSUME IInv, UNCHANGED <<files, loop, mirror, up, adrift, spoiled, current>>,
           TrustPrepares(current) => TrustPrepares(current)',
           req.ph \notin Saving \ {"chain"}, req'.ph \notin Saving \ {"chain"},
           req.ph \notin {"commit", "current"}, req'.ph \notin {"commit", "current"}
    PROVE  ServingInOrder' /\ MapInOrder(loop.tls)' /\ MapInOrder(mirror.tls)'
<1>1. ServingInOrder'
  BY DEF IInv, ServingInOrder, Serves, Torn
<1>2. MapInOrder(loop.tls)' /\ MapInOrder(mirror.tls)'
  BY DEF IInv, MapInOrder, Disjoint
<1> QED
  BY <1>1, <1>2

(* A server that is up and in order, between two requests or before the    *)
(* first write of one, serves every certificate as it is stored.           *)
LEMMA StoredIsServed ==
    ASSUME IInv, up, ~adrift, req.ph \in {"", "order"},
           NEW r \in CertsOf[current] \ spoiled
    PROVE  Served(files[r], r)
  BY DEF IInv, ServingInOrder, Serves, Torn, Served

LEMMA IssueKeeps ==
    ASSUME IInv, NEW r \in Refs, NEW wanted \in SUBSET Hosts, Issue(r, wanted)
    PROVE  IInv'
<1> USE DEF Issue
<1> TypeOK /\ RequestInOrder /\ TrustInOrder /\ FilesCovered
  BY DEF IInv
<1>0. /\ req = Idle /\ req.op = "idle" /\ req.ph = "" /\ up /\ tokens = {}
      /\ requests' \in Nat /\ UNCHANGED <<faults, crashes>>
      /\ req' \in Requests /\ req'.op = "issue"
      /\ req'.ph = "challenge" /\ req'.ref = r /\ req'.domains = wanted
  <2>1. req = Idle /\ req.op = "idle" /\ req.ph = "" /\ up /\ tokens = {}
    BY IdleIs DEF Accept, RequestInOrder
  <2>2. /\ req' \in Requests /\ req'.op = "issue"
        /\ req'.ph = "challenge" /\ req'.ref = r /\ req'.domains = wanted
    BY <2>1 DEF Idle, Requests, NoDirectory, Stored, TypeOK
  <2>3. requests' \in Nat /\ UNCHANGED <<faults, crashes>>
    BY DEF Accept, TypeOK
  <2> QED
    BY <2>1, <2>2, <2>3
<1>1. TypeOK'
  BY <1>0 DEF TypeOK
<1>2. RequestInOrder'
  BY <1>0 DEF RequestInOrder
<1>3. TrustInOrder'
  BY <1>0, TrustKept
<1>4. Rewriting' /\ FilesCovered'
  BY <1>0, FilesKept
<1>5. ServingInOrder' /\ MapInOrder(loop.tls)' /\ MapInOrder(mirror.tls)'
  BY <1>0, ServingKept DEF TrustPrepares
<1> QED
  BY <1>0, <1>1, <1>2, <1>3, <1>4, <1>5 DEF IInv

LEMMA RenewKeeps ==
    ASSUME IInv, NEW r \in Refs, Renew(r)
    PROVE  IInv'
<1> USE DEF Renew
<1> TypeOK /\ RequestInOrder /\ TrustInOrder /\ FilesCovered
  BY DEF IInv
<1>0. /\ req = Idle /\ req.op = "idle" /\ req.ph = "" /\ up /\ tokens = {}
      /\ requests' \in Nat /\ UNCHANGED <<faults, crashes>>
      /\ req' \in Requests /\ req'.op = "renew"
      /\ req'.ph = "order" /\ req'.ref = r /\ req'.domains = files[r].domains
  <2>1. req = Idle /\ req.op = "idle" /\ req.ph = "" /\ up /\ tokens = {}
    BY IdleIs DEF Accept, RequestInOrder
  <2>2. /\ req' \in Requests /\ req'.op = "renew"
        /\ req'.ph = "order" /\ req'.ref = r /\ req'.domains = files[r].domains
    BY <2>1 DEF Idle, Requests, NoDirectory, Stored, TypeOK
  <2>3. requests' \in Nat /\ UNCHANGED <<faults, crashes>>
    BY DEF Accept, TypeOK
  <2> QED
    BY <2>1, <2>2, <2>3
<1>1. TypeOK'
  BY <1>0 DEF TypeOK
<1>2. RequestInOrder'
  BY <1>0 DEF RequestInOrder
<1>3. TrustInOrder'
  BY <1>0, TrustKept
<1>4. Rewriting' /\ FilesCovered'
  BY <1>0, FilesKept
<1>5. ServingInOrder' /\ MapInOrder(loop.tls)' /\ MapInOrder(mirror.tls)'
  BY <1>0, ServingKept DEF TrustPrepares
<1> QED
  BY <1>0, <1>1, <1>2, <1>3, <1>4, <1>5 DEF IInv

LEMMA PresentChallengeKeeps ==
    ASSUME IInv, NEW h \in Hosts, PresentChallenge(h)
    PROVE  IInv'
<1> USE DEF PresentChallenge
<1> TypeOK /\ RequestInOrder /\ TrustInOrder /\ FilesCovered
  BY DEF IInv
<1>0. req.ph \in CertificateSteps /\ req.op \in CertificateOps /\ req' = req
  BY PhaseTells
<1>1. TypeOK'
  BY <1>0 DEF TypeOK
<1>2. RequestInOrder'
  BY <1>0 DEF RequestInOrder
<1>3. TrustInOrder'
  BY <1>0, TrustKept
<1>4. Rewriting' /\ FilesCovered'
  BY <1>0, FilesKept
<1>5. ServingInOrder' /\ MapInOrder(loop.tls)' /\ MapInOrder(mirror.tls)'
  BY <1>0, ServingKept DEF TrustPrepares
<1> QED
  BY <1>0, <1>1, <1>2, <1>3, <1>4, <1>5 DEF IInv

LEMMA ChallengesVerifiedKeeps ==
    ASSUME IInv, ChallengesVerified
    PROVE  IInv'
<1> USE DEF ChallengesVerified
<1> TypeOK /\ RequestInOrder /\ TrustInOrder /\ FilesCovered
  BY DEF IInv
<1>0. /\ req' \in Requests /\ req'.ph = "order" /\ req'.op = req.op /\ req'.ref = req.ref
      /\ req'.of = req.of /\ req'.domains = req.domains /\ req'.prev = req.prev /\ req'.to = req.to
      /\ req.op \in CertificateOps /\ req.ref \in Refs /\ up
  BY GotoIs, PhaseTells DEF TypeOK, RequestInOrder
<1>1. TypeOK'
  BY <1>0 DEF TypeOK, Fault
<1>2. RequestInOrder'
  BY <1>0, StepInOrder DEF RequestInOrder
<1>3. TrustInOrder'
  BY <1>0, TrustKept
<1>4. Rewriting' /\ FilesCovered'
  BY <1>0, FilesKept
<1>5. ServingInOrder' /\ MapInOrder(loop.tls)' /\ MapInOrder(mirror.tls)'
  BY <1>0, ServingKept DEF TrustPrepares
<1> QED
  BY <1>0, <1>1, <1>2, <1>3, <1>4, <1>5 DEF IInv

LEMMA OrderFailsKeeps ==
    ASSUME IInv, OrderFails
    PROVE  IInv'
<1> USE DEF OrderFails
<1> TypeOK /\ RequestInOrder /\ TrustInOrder /\ FilesCovered
  BY DEF IInv
<1>0. /\ req' \in Requests /\ req'.ph = "clear" /\ req'.op = req.op /\ req'.ref = req.ref
      /\ req'.of = req.of /\ req'.domains = req.domains /\ req'.prev = req.prev /\ req'.to = req.to
      /\ req.op \in CertificateOps /\ req.ref \in Refs /\ up
  BY GotoIs, PhaseTells DEF TypeOK, RequestInOrder
<1>1. TypeOK'
  BY <1>0 DEF TypeOK, Fault
<1>2. RequestInOrder'
  BY <1>0, StepInOrder DEF RequestInOrder
<1>3. TrustInOrder'
  BY <1>0, TrustKept
<1>4. Rewriting' /\ FilesCovered'
  BY <1>0, FilesKept
<1>5. ServingInOrder' /\ MapInOrder(loop.tls)' /\ MapInOrder(mirror.tls)'
  BY <1>0, ServingKept DEF TrustPrepares
<1> QED
  BY <1>0, <1>1, <1>2, <1>3, <1>4, <1>5 DEF IInv

LEMMA RequestEndsKeeps ==
    ASSUME IInv, RequestEnds
    PROVE  IInv'
<1> USE DEF RequestEnds, TakenBack
<1> TypeOK /\ RequestInOrder /\ TrustInOrder /\ FilesCovered
  BY DEF IInv
<1>0. /\ req.op \in CertificateOps /\ tokens' = {}
      /\ req' \in Requests /\ req'.op = "idle" /\ req'.ph = "" /\ RequestInOrder'
  <2>1. req.op \in CertificateOps
    BY PhaseTells
  <2>2. tokens' = {}
    BY <2>1 DEF RequestInOrder
  <2> QED
    BY <2>1, <2>2, AnswerInOrder
<1>1. TypeOK'
  BY <1>0 DEF TypeOK
<1>2. TrustInOrder'
  BY <1>0, TrustKept
<1>3. Rewriting' /\ FilesCovered'
  BY <1>0, FilesKept
<1>4. ServingInOrder' /\ MapInOrder(loop.tls)' /\ MapInOrder(mirror.tls)'
  BY <1>0, ServingKept DEF TrustPrepares
<1> QED
  BY <1>0, <1>1, <1>2, <1>3, <1>4 DEF IInv

LEMMA ImportKeeps ==
    ASSUME IInv, NEW r \in Refs, NEW m \in Materials, NEW k \in Materials,
           NEW declared \in SUBSET Hosts, Import(r, m, k, declared)
    PROVE  IInv'
<1> USE DEF Import
<1> TypeOK /\ RequestInOrder /\ TrustInOrder /\ FilesCovered
  BY DEF IInv
<1>0. /\ req = Idle /\ req.op = "idle" /\ req.ph = "" /\ up /\ tokens = {}
      /\ requests' \in Nat /\ UNCHANGED <<faults, crashes>>
      /\ req' \in Requests /\ req'.op = "import" /\ req'.ph = "chain" /\ req'.ref = r
      /\ req'.of = m /\ req'.domains = declared /\ req'.prev = files[r]
  <2>1. req = Idle /\ req.op = "idle" /\ req.ph = "" /\ up /\ tokens = {}
    BY IdleIs DEF Accept, RequestInOrder
  <2>2. /\ req' \in Requests /\ req'.op = "import" /\ req'.ph = "chain" /\ req'.ref = r
        /\ req'.of = m /\ req'.domains = declared /\ req'.prev = files[r]
    BY <2>1 DEF Idle, Requests, NoDirectory, Stored, TypeOK
  <2>3. requests' \in Nat /\ UNCHANGED <<faults, crashes>>
    BY DEF Accept, TypeOK
  <2> QED
    BY <2>1, <2>2, <2>3
<1>1. TypeOK'
  BY <1>0 DEF TypeOK
<1>2. RequestInOrder'
  BY <1>0 DEF RequestInOrder
<1>3. TrustInOrder'
  BY <1>0, TrustKept
<1>4. Rewriting' /\ FilesCovered'
  <2>1. req'.ref \notin spoiled => Covered(files[r])
    BY <1>0 DEF FilesCovered, Torn
  <2>2. ~adrift /\ r \in CertsOf[current] \ spoiled => Served(files[r], r)
    BY <1>0, StoredIsServed
  <2>3. Rewriting'
    BY <1>0, <2>1, <2>2 DEF Rewriting, ImportIsValid, Served, Covered
  <2>4. FilesCovered'
    BY <1>0 DEF FilesCovered, Torn, Covered
  <2> QED
    BY <2>3, <2>4
<1>5. ServingInOrder' /\ MapInOrder(loop.tls)' /\ MapInOrder(mirror.tls)'
  BY <1>0, ServingKept DEF TrustPrepares
<1> QED
  BY <1>0, <1>1, <1>2, <1>3, <1>4, <1>5 DEF IInv

LEMMA OrderIssuedKeeps ==
    ASSUME IInv, NEW m \in Materials, OrderIssued(m)
    PROVE  IInv'
<1> USE DEF OrderIssued
<1> TypeOK /\ RequestInOrder /\ TrustInOrder /\ FilesCovered
  BY DEF IInv
<1>0. /\ req' \in Requests /\ req'.ph = "chain" /\ req'.op = req.op /\ req'.ref = req.ref
      /\ req'.of = m /\ req'.domains = req.domains /\ req'.prev = files[req.ref] /\ req'.to = req.to
      /\ req.op \in CertificateOps \ {"import"} /\ req.ref \in Refs /\ up
  <2>1. req.op \in CertificateOps \ {"import"} /\ req.ref \in Refs /\ up
    BY PhaseTells DEF RequestInOrder
  <2> QED
    BY <2>1 DEF Requests, TypeOK
<1>1. TypeOK'
  BY <1>0 DEF TypeOK
<1>2. RequestInOrder'
  BY <1>0 DEF RequestInOrder
<1>3. TrustInOrder'
  BY <1>0, TrustKept
<1>4. Rewriting' /\ FilesCovered'
  <2>1. req'.ref \notin spoiled => Covered(files[req.ref])
    BY <1>0 DEF FilesCovered, Torn
  <2>2. ~adrift /\ req.ref \in CertsOf[current] \ spoiled => Served(files[req.ref], req.ref)
    BY <1>0, StoredIsServed
  <2>3. Rewriting'
    BY <1>0, <2>1, <2>2 DEF Rewriting, Served, Covered
  <2>4. FilesCovered'
    BY <1>0 DEF FilesCovered, Torn, Covered
  <2> QED
    BY <2>3, <2>4
<1>5. ServingInOrder' /\ MapInOrder(loop.tls)' /\ MapInOrder(mirror.tls)'
  BY <1>0, ServingKept DEF TrustPrepares
<1> QED
  BY <1>0, <1>1, <1>2, <1>3, <1>4, <1>5 DEF IInv

-----------------------------------------------------------------------------
(* Rewriting the files of one certificate.                                 *)

(* While some files of a certificate are new nothing is said of it, and    *)
(* the others are as they were.                                            *)
LEMMA WhileTorn ==
    ASSUME IInv, req.ph \in Saving, req'.ph \in Saving \ {"chain"}, req'.ref = req.ref,
           \A r \in Refs \ {req.ref} : files'[r] = files[r],
           UNCHANGED <<loop, mirror, up, adrift, spoiled, current, trust>>
    PROVE  FilesCovered' /\ ServingInOrder' /\ MapInOrder(loop.tls)' /\ MapInOrder(mirror.tls)'
<1>1. CertsOf[current] \subseteq Refs
  BY RevisionAssumption DEF IInv, TypeOK
<1>2. FilesCovered'
  BY DEF IInv, FilesCovered, Torn, Covered
<1>3. ServingInOrder'
  BY <1>1 DEF IInv, ServingInOrder, Serves, Torn, TrustPrepares
<1>4. MapInOrder(loop.tls)' /\ MapInOrder(mirror.tls)'
  BY DEF IInv, MapInOrder, Disjoint
<1> QED
  BY <1>2, <1>3, <1>4

(* The rewriting is over: either the certificate is marked, or what is     *)
(* stored now is what is served.                                           *)
LEMMA AtRest ==
    ASSUME IInv, req.ph \in Saving, req'.ph = "clear",
           \A r \in Refs \ {req.ref} : files'[r] = files[r],
           UNCHANGED <<loop, mirror, up, adrift, current, trust>>,
           spoiled \subseteq spoiled', spoiled' \subseteq spoiled \cup {req.ref},
           req.ref \notin spoiled' => 
              /\ Covered(files'[req.ref])
              /\ ~adrift /\ req.ref \in CertsOf[current] => Served(files'[req.ref], req.ref)
    PROVE  /\ Rewriting' /\ FilesCovered' /\ ServingInOrder'
           /\ MapInOrder(loop.tls)' /\ MapInOrder(mirror.tls)'
<1>1. CertsOf[current] \subseteq Refs
  BY RevisionAssumption DEF IInv, TypeOK
<1>2. FilesCovered'
  BY DEF IInv, FilesCovered, Torn, Covered
<1>3. ServingInOrder'
  BY <1>1 DEF IInv, ServingInOrder, Serves, Served, Torn, TrustPrepares
<1>4. MapInOrder(loop.tls)' /\ MapInOrder(mirror.tls)'
  BY DEF IInv, MapInOrder, Disjoint
<1>5. Rewriting'
  BY DEF Rewriting
<1> QED
  BY <1>2, <1>3, <1>4, <1>5

LEMMA WriteChainKeeps ==
    ASSUME IInv, WriteChain
    PROVE  IInv'
<1> USE DEF WriteChain
<1> DEFINE new == [files[req.ref] EXCEPT !.dir = TRUE,
                       !.chain = IF req.ph = "chain" THEN req.of ELSE req.prev.chain]
           next == IF req.ph = "chain" THEN "key" ELSE "rekey"
<1> TypeOK /\ RequestInOrder /\ TrustInOrder /\ Rewriting
  BY DEF IInv
<1>0. /\ req.op \in CertificateOps /\ req.ref \in Refs /\ up
      /\ req.ph = "rechain" => req.op = "import"
  BY PhaseTells DEF RequestInOrder
<1>1. /\ req' \in Requests /\ req'.ph = next /\ req'.op = req.op /\ req'.ref = req.ref
      /\ req'.of = req.of /\ req'.domains = req.domains /\ req'.prev = req.prev
  <2>1. Goto(next) /\ next \in CertificateSteps
    OBVIOUS
  <2> QED
    BY <2>1, GotoIs DEF TypeOK
<1>2. files[req.ref] \in Stored /\ req.of \in Materials /\ req.prev \in Stored
  BY <1>0 DEF TypeOK, Rewriting, Requests
<1>3. new \in Stored /\ new.dir /\ new.chain = (IF req.ph = "chain" THEN req.of ELSE req.prev.chain)
      /\ new.key = files[req.ref].key /\ new.meta = files[req.ref].meta
  BY <1>2 DEF Stored, TypeOK, Requests
<1> HIDE DEF new
<1>4. /\ files' \in [Refs -> Stored] /\ files'[req.ref] = new
      /\ \A r \in Refs \ {req.ref} : files'[r] = files[r]
  BY <1>0, <1>3 DEF TypeOK, SetFile, new
<1>5. TypeOK'
  BY <1>1, <1>4 DEF TypeOK
<1>6. RequestInOrder'
  BY <1>0, <1>1 DEF RequestInOrder
<1>7. TrustInOrder'
  BY <1>0, <1>1, TrustKept
<1>8. /\ Rewriting' /\ FilesCovered' /\ ServingInOrder'
      /\ MapInOrder(loop.tls)' /\ MapInOrder(mirror.tls)'
  <2>1. Rewriting'
    BY <1>0, <1>1, <1>3, <1>4 DEF Rewriting, Served, Covered
  <2> QED
    BY <1>0, <1>1, <1>4, <2>1, WhileTorn
<1> QED
  BY <1>5, <1>6, <1>7, <1>8 DEF IInv

LEMMA WriteKeyKeeps ==
    ASSUME IInv, WriteKey
    PROVE  IInv'
<1> USE DEF WriteKey
<1> DEFINE new == [files[req.ref] EXCEPT !.key = IF req.ph = "key" THEN req.of ELSE req.prev.key]
           next == IF req.ph = "key" THEN "meta" ELSE "remeta"
<1> TypeOK /\ RequestInOrder /\ TrustInOrder /\ Rewriting
  BY DEF IInv
<1>0. req.op \in CertificateOps /\ req.ref \in Refs /\ up /\ (req.ph = "rekey" => req.op = "import")
  BY PhaseTells DEF RequestInOrder
<1>1. /\ req' \in Requests /\ req'.ph = next /\ req'.op = req.op /\ req'.ref = req.ref
      /\ req'.of = req.of /\ req'.domains = req.domains /\ req'.prev = req.prev
  <2>1. Goto(next) /\ next \in CertificateSteps
    OBVIOUS
  <2> QED
    BY <2>1, GotoIs DEF TypeOK
<1>2. files[req.ref] \in Stored /\ req.of \in Materials /\ req.prev \in Stored
  BY <1>0 DEF TypeOK, Rewriting, Requests
<1>3. /\ new \in Stored /\ new.dir = files[req.ref].dir /\ new.chain = files[req.ref].chain
      /\ new.key = (IF req.ph = "key" THEN req.of ELSE req.prev.key)
      /\ new.meta = files[req.ref].meta
  BY <1>2 DEF Stored, TypeOK, Requests
<1> HIDE DEF new
<1>4. /\ files' \in [Refs -> Stored] /\ files'[req.ref] = new
      /\ \A r \in Refs \ {req.ref} : files'[r] = files[r]
  BY <1>0, <1>3 DEF TypeOK, SetFile, new
<1>5. TypeOK'
  BY <1>1, <1>4 DEF TypeOK
<1>6. RequestInOrder'
  BY <1>0, <1>1 DEF RequestInOrder
<1>7. TrustInOrder'
  BY <1>0, <1>1, TrustKept
<1>8. /\ Rewriting' /\ FilesCovered' /\ ServingInOrder'
      /\ MapInOrder(loop.tls)' /\ MapInOrder(mirror.tls)'
  <2>1. Rewriting'
    BY <1>0, <1>1, <1>3, <1>4 DEF Rewriting, Served, Covered
  <2> QED
    BY <1>0, <1>1, <1>4, <2>1, WhileTorn
<1> QED
  BY <1>5, <1>6, <1>7, <1>8 DEF IInv

LEMMA WriteMetaKeeps ==
    ASSUME IInv, WriteMeta
    PROVE  IInv'
<1> USE DEF WriteMeta
<1> DEFINE new == [files[req.ref] EXCEPT !.meta = TRUE,
                       !.domains = IF req.ph = "meta" THEN req.domains ELSE req.prev.domains]
           next == IF req.ph = "meta" THEN "install" ELSE "clear"
<1> TypeOK /\ RequestInOrder /\ TrustInOrder /\ Rewriting
  BY DEF IInv
<1>0. /\ req.op \in CertificateOps /\ req.ref \in Refs /\ up
      /\ req.ph = "remeta" => req.op = "import"
  BY PhaseTells DEF RequestInOrder
<1>1. /\ req' \in Requests /\ req'.ph = next /\ req'.op = req.op /\ req'.ref = req.ref
      /\ req'.of = req.of /\ req'.domains = req.domains /\ req'.prev = req.prev
  <2>1. Goto(next) /\ next \in CertificateSteps
    OBVIOUS
  <2> QED
    BY <2>1, GotoIs DEF TypeOK
<1>2. files[req.ref] \in Stored /\ req.of \in Materials /\ req.prev \in Stored
  BY <1>0 DEF TypeOK, Rewriting, Requests
<1>3. new \in Stored /\ new.dir = files[req.ref].dir /\ new.chain = files[req.ref].chain
      /\ new.key = files[req.ref].key /\ new.meta
      /\ new.domains = (IF req.ph = "meta" THEN req.domains ELSE req.prev.domains)
  BY <1>2 DEF Stored, TypeOK, Requests
<1> HIDE DEF new
<1>4. /\ files' \in [Refs -> Stored] /\ files'[req.ref] = new
      /\ \A r \in Refs \ {req.ref} : files'[r] = files[r]
  BY <1>0, <1>3 DEF TypeOK, SetFile, new
<1>5. TypeOK'
  BY <1>1, <1>4 DEF TypeOK
<1>6. RequestInOrder'
  BY <1>0, <1>1 DEF RequestInOrder
<1>7. TrustInOrder'
  BY <1>0, <1>1, TrustKept
<1>8. /\ Rewriting' /\ FilesCovered' /\ ServingInOrder'
      /\ MapInOrder(loop.tls)' /\ MapInOrder(mirror.tls)'
  <2>1. CASE req.ph = "meta"
    <3>1. Rewriting'
      BY <1>0, <1>1, <1>3, <1>4, <2>1 DEF Rewriting, Served, Covered
    <3> QED
      BY <1>0, <1>1, <1>4, <2>1, <3>1, WhileTorn
  <2>2. CASE req.ph = "remeta"
    <3>1. new = req.prev
      BY <1>2, <1>3, <2>2 DEF Rewriting, Readable, Stored
    <3>2. req.ref \notin spoiled' =>
            /\ Covered(files'[req.ref])
            /\ ~adrift /\ req.ref \in CertsOf[current] => Served(files'[req.ref], req.ref)
      BY <1>4, <2>2, <3>1 DEF Rewriting
    <3> QED
      BY <1>1, <1>4, <2>2, <3>2, AtRest
  <2> QED
    BY <2>1, <2>2
<1> QED
  BY <1>5, <1>6, <1>7, <1>8 DEF IInv

LEMMA WriteFailsKeeps ==
    ASSUME IInv, WriteFails
    PROVE  IInv'
<1> USE DEF WriteFails
<1> TypeOK /\ RequestInOrder /\ TrustInOrder /\ Rewriting
  BY DEF IInv
<1>0. req.op \in CertificateOps /\ req.ref \in Refs /\ up
  BY PhaseTells DEF RequestInOrder
<1>1. /\ req' \in Requests /\ req'.ph = "clear" /\ req'.op = req.op /\ req'.ref = req.ref
      /\ req'.of = req.of /\ req'.domains = req.domains /\ req'.prev = req.prev
  BY GotoIs DEF TypeOK
<1>2. files' \in [Refs -> Stored] /\ \A r \in Refs \ {req.ref} : files'[r] = files[r]
  <2>1. CASE UNCHANGED files
    BY <2>1 DEF TypeOK
  <2>2. CASE SetFile(req.ref, [files[req.ref] EXCEPT !.dir = TRUE])
    BY <1>0, <2>2 DEF TypeOK, SetFile, Stored
  <2> QED
    BY <2>1, <2>2
<1>3. spoiled \subseteq spoiled' /\ spoiled' \subseteq spoiled \cup {req.ref}
  OBVIOUS
<1>4. TypeOK'
  BY <1>0, <1>1, <1>2, <1>3 DEF TypeOK, Fault
<1>5. RequestInOrder'
  BY <1>0, <1>1 DEF RequestInOrder
<1>6. TrustInOrder'
  BY <1>0, <1>1, TrustKept
<1>7. req.ref \notin spoiled' =>
         /\ Covered(files'[req.ref])
         /\ ~adrift /\ req.ref \in CertsOf[current] => Served(files'[req.ref], req.ref)
  BY DEF Rewriting
<1>8. /\ Rewriting' /\ FilesCovered' /\ ServingInOrder'
      /\ MapInOrder(loop.tls)' /\ MapInOrder(mirror.tls)'
  BY <1>1, <1>2, <1>3, <1>7, AtRest
<1> QED
  BY <1>4, <1>5, <1>6, <1>8 DEF IInv

LEMMA InstallAcceptedKeeps ==
    ASSUME IInv, InstallAccepted
    PROVE  IInv'
<1> USE DEF InstallAccepted
<1> TypeOK /\ RequestInOrder /\ TrustInOrder /\ Rewriting
  BY DEF IInv
<1>0. req.op \in CertificateOps /\ req.ref \in Refs /\ up
  BY PhaseTells DEF RequestInOrder
<1>1. /\ req' \in Requests /\ req'.ph = "clear" /\ req'.op = req.op /\ req'.ref = req.ref
      /\ req'.of = req.of /\ req'.domains = req.domains /\ req'.prev = req.prev
  BY GotoIs DEF TypeOK
<1>2. /\ loop' = [rev |-> loop.rev, tls |-> Candidate]
      /\ mirror' = [rev |-> mirror.rev, tls |-> Candidate]
      /\ Candidate \in TlsMaps
  BY <1>0, CandidateIsMap DEF TypeOK
<1>3. TypeOK'
  BY <1>1, <1>2 DEF TypeOK
<1>4. RequestInOrder'
  BY <1>0, <1>1 DEF RequestInOrder
<1>5. TrustInOrder'
  BY <1>0, <1>1, TrustKept
<1>6. /\ DOMAIN Candidate = DOMAIN mirror.tls \cup {req.ref}
      /\ Candidate[req.ref] = Loaded(files[req.ref])
      /\ \A r \in DOMAIN mirror.tls \ {req.ref} : Candidate[r] = mirror.tls[r]
  BY DEF Candidate, ReplaceConfig
<1>7. Loads(files[req.ref]) /\ files[req.ref].domains \subseteq Names[files[req.ref].chain]
  BY DEF InstallPrepares, Rewriting
<1>8. Rewriting' /\ FilesCovered'
  BY <1>1, <1>7 DEF IInv, Rewriting, FilesCovered, Torn, Covered
<1>9. MapInOrder(loop.tls)' /\ MapInOrder(mirror.tls)'
  <2>1. Disjoint(Candidate)
    BY DEF InstallPrepares
  <2>2. \A r \in DOMAIN Candidate \ spoiled' :
           Candidate[r].domains \subseteq Names[Candidate[r].material]
    BY <1>6, <1>7 DEF IInv, MapInOrder, Loaded
  <2>3. loop'.tls = Candidate /\ mirror'.tls = Candidate
    BY <1>2
  <2> QED
    BY <2>1, <2>2, <2>3 DEF MapInOrder, Disjoint
<1>10. ServingInOrder'
  <2> SUFFICES ASSUME ~adrift PROVE mirror' = loop' /\ Serves(loop)'
    BY <1>0, <1>1 DEF ServingInOrder
  <2>1. mirror = loop /\ Serves(loop)
    BY <1>0 DEF IInv, ServingInOrder
  <2>2. \A r \in CertsOf[current] \ spoiled' :
           Loads(files[r]) /\ Candidate[r] = Loaded(files[r])
    BY <1>6, <1>7, <2>1 DEF Serves, Torn
  <2>3. loop'.rev = current /\ loop'.tls = Candidate /\ mirror' = loop'
    BY <1>2, <2>1 DEF Serves
  <2>4. CertsOf[current] \subseteq DOMAIN Candidate
    BY <1>6, <2>1 DEF Serves
  <2> QED
    BY <2>1, <2>2, <2>3, <2>4 DEF Serves, TrustPrepares
<1> QED
  BY <1>3, <1>4, <1>5, <1>8, <1>9, <1>10 DEF IInv

LEMMA InstallRejectedKeeps ==
    ASSUME IInv, InstallRejected
    PROVE  IInv'
<1> USE DEF InstallRejected
<1> TypeOK /\ RequestInOrder /\ TrustInOrder /\ Rewriting
  BY DEF IInv
<1>0. req.op \in CertificateOps /\ req.ref \in Refs /\ up
  BY PhaseTells DEF RequestInOrder
<1>1. /\ req' \in Requests /\ req'.ph = AfterRefusal(req.op, req.prev) /\ req'.op = req.op
      /\ req'.ref = req.ref /\ req'.of = req.of /\ req'.domains = req.domains
      /\ req'.prev = req.prev
  <2>1. AfterRefusal(req.op, req.prev) \in CertificateSteps
    BY DEF AfterRefusal
  <2> QED
    BY <2>1, GotoIs DEF TypeOK
<1>2. TypeOK'
  BY <1>0, <1>1 DEF TypeOK, Fault
<1>3. RequestInOrder'
  BY <1>0, <1>1 DEF RequestInOrder, AfterRefusal
<1>4. TrustInOrder'
  BY <1>0, <1>1, TrustKept DEF AfterRefusal
<1>5. CASE req.op # "import"
  <2>1. req'.ph = "clear" /\ spoiled' = spoiled \cup {req.ref}
    BY <1>1, <1>5 DEF AfterRefusal
  <2>2. /\ Rewriting' /\ FilesCovered' /\ ServingInOrder'
        /\ MapInOrder(loop.tls)' /\ MapInOrder(mirror.tls)'
    BY <2>1, AtRest
  <2> QED
    BY <1>2, <1>3, <1>4, <2>2 DEF IInv
<1>6. CASE req.op = "import"
  <2>1. /\ req'.ph = (IF Absent(req.prev) THEN "redelete" ELSE "rechain")
        /\ spoiled' = spoiled
    BY <1>1, <1>6 DEF AfterRefusal
  <2>2. Rewriting'
    BY <1>0, <1>1, <1>6, <2>1 DEF Rewriting, Served, Covered
  <2>3. /\ FilesCovered' /\ ServingInOrder'
        /\ MapInOrder(loop.tls)' /\ MapInOrder(mirror.tls)'
    BY <1>1, <2>1, WhileTorn
  <2> QED
    BY <1>2, <1>3, <1>4, <2>2, <2>3 DEF IInv
<1> QED
  BY <1>5, <1>6

LEMMA DeleteCertificateKeeps ==
    ASSUME IInv, DeleteCertificate
    PROVE  IInv'
<1> USE DEF DeleteCertificate
<1> TypeOK /\ RequestInOrder /\ TrustInOrder /\ Rewriting
  BY DEF IInv
<1>0. req.op = "import" /\ req.ref \in Refs /\ up /\ files[req.ref] \in Stored
  BY PhaseTells DEF RequestInOrder, TypeOK
<1>1. PICK f \in Unlinked(files[req.ref]) :
         SetFile(req.ref, f) /\ IF f = NoDirectory THEN Goto("clear") ELSE UNCHANGED req
  OBVIOUS
<1>2. f \in Stored
  <2> DEFINE g == files[req.ref]
  <2>1. f \in {NoDirectory, [g EXCEPT !.chain = NoMaterial], [g EXCEPT !.key = NoMaterial],
              [g EXCEPT !.meta = FALSE, !.domains = {}]}
    BY <1>1 DEF Unlinked
  <2>2. NoDirectory \in Stored /\ [g EXCEPT !.chain = NoMaterial] \in Stored
    BY <1>0 DEF Stored, NoDirectory
  <2>3. [g EXCEPT !.key = NoMaterial] \in Stored
    BY <1>0 DEF Stored
  <2>4. [g EXCEPT !.meta = FALSE, !.domains = {}] \in Stored
    BY <1>0 DEF Stored
  <2> QED
    BY <2>1, <2>2, <2>3, <2>4
<1>3. /\ files' \in [Refs -> Stored] /\ files'[req.ref] = f
      /\ \A r \in Refs \ {req.ref} : files'[r] = files[r]
  BY <1>0, <1>1, <1>2 DEF SetFile, TypeOK
<1>4. CASE f = NoDirectory
  <2>1. /\ req' \in Requests /\ req'.ph = "clear" /\ req'.op = req.op /\ req'.ref = req.ref
        /\ req'.of = req.of /\ req'.domains = req.domains /\ req'.prev = req.prev
    BY <1>1, <1>4, GotoIs DEF TypeOK
  <2>2. TypeOK'
    BY <1>3, <2>1 DEF TypeOK
  <2>3. RequestInOrder'
    BY <1>0, <2>1 DEF RequestInOrder
  <2>4. TrustInOrder'
    BY <1>0, <2>1, TrustKept
  <2>5. ~Loads(files'[req.ref]) /\ ~Loads(req.prev)
    BY <1>3, <1>4 DEF Rewriting, Loads, Readable, Absent, NoDirectory
  <2>6. /\ Rewriting' /\ FilesCovered' /\ ServingInOrder'
        /\ MapInOrder(loop.tls)' /\ MapInOrder(mirror.tls)'
    BY <1>3, <2>1, <2>5, AtRest DEF Rewriting, Covered, Served
  <2> QED
    BY <2>2, <2>3, <2>4, <2>6 DEF IInv
<1>5. CASE req' = req
  <2>1. TypeOK'
    BY <1>3, <1>5 DEF TypeOK
  <2>2. RequestInOrder'
    BY <1>5 DEF RequestInOrder
  <2>3. TrustInOrder'
    BY <1>0, <1>5, TrustKept
  <2>4. Rewriting'
    BY <1>3, <1>5 DEF Rewriting, Served, Covered
  <2>5. /\ FilesCovered' /\ ServingInOrder'
        /\ MapInOrder(loop.tls)' /\ MapInOrder(mirror.tls)'
    BY <1>3, <1>5, WhileTorn
  <2> QED
    BY <2>1, <2>2, <2>3, <2>4, <2>5 DEF IInv
<1> QED
  BY <1>1, <1>4, <1>5

-----------------------------------------------------------------------------
(* Trust bundle requests.                                                  *)

(* What is left of the rest when one bundle changes, and that one was      *)
(* loadable and stays so, or no revision refers to it.                     *)
LEMMA BundleChanges ==
    ASSUME IInv, NEW b \in Bundles, \A c \in Bundles \ {b} : trust'[c] = trust[c],
           (TrustLoads(trust[b]) => TrustLoads(trust'[b])) \/ ~Referenced(b),
           req.op \in {"idle", "trust"}, req'.ph \in {""} \cup TrustSteps,
           UNCHANGED <<files, loop, mirror, up, adrift, spoiled, current>>
    PROVE  /\ Rewriting' /\ FilesCovered' /\ ServingInOrder'
           /\ MapInOrder(loop.tls)' /\ MapInOrder(mirror.tls)'
<1>1. req.ph \in {""} \cup TrustSteps
  BY PhaseTells DEF IInv
<1>2. TrustPrepares(current) => TrustPrepares(current)'
  <2>1. TrustOf[current] \subseteq Bundles /\ current \in retained
    BY RevisionAssumption DEF IInv, TypeOK
  <2> QED
    BY <2>1 DEF TrustPrepares, Referenced
<1>3. Rewriting' /\ FilesCovered'
  BY <1>1, FilesKept DEF IInv
<1> QED
  BY <1>1, <1>2, <1>3, ServingKept

(* The bundles other than the one of the request are as the store left     *)
(* them between requests.                                                  *)
LEMMA OtherBundles ==
    ASSUME TrustInOrder, NEW b \in Bundles, \A c \in Bundles \ {b} : trust'[c] = trust[c],
           req.op = "trust" => req.ref = b,
           littered \subseteq littered'
    PROVE  \A c \in Bundles \ (littered' \cup {b}) :
              trust'[c].final \in {"absent", "whole"} /\ trust'[c].temp = "absent"
  BY DEF TrustInOrder

LEMMA ImportTrustKeeps ==
    ASSUME IInv, NEW b \in Bundles, ImportTrust(b)
    PROVE  IInv'
<1> USE DEF ImportTrust
<1> TypeOK /\ RequestInOrder /\ TrustInOrder
  BY DEF IInv
<1>0. /\ req = Idle /\ req.op = "idle" /\ req.ph = "" /\ up /\ tokens = {}
      /\ requests' \in Nat /\ UNCHANGED <<faults, crashes>>
      /\ req' \in Requests /\ req'.op = "trust" /\ req'.ph = "roots" /\ req'.ref = b
  <2>1. req = Idle /\ req.op = "idle" /\ req.ph = "" /\ up /\ tokens = {}
    BY IdleIs DEF Accept, RequestInOrder
  <2>2. req' \in Requests /\ req'.op = "trust" /\ req'.ph = "roots" /\ req'.ref = b
    BY <2>1 DEF Idle, Requests, NoDirectory, Stored
  <2>3. requests' \in Nat /\ UNCHANGED <<faults, crashes>>
    BY DEF Accept, TypeOK
  <2> QED
    BY <2>1, <2>2, <2>3
<1>1. /\ trust' \in [Bundles -> [final : BundleDirs, temp : BundleDirs]]
      /\ trust'[b].final = "absent" /\ trust'[b].temp = "empty"
      /\ \A c \in Bundles \ {b} : trust'[c] = trust[c]
  BY DEF SetTrust, CanCreate, TypeOK, BundleDirs
<1>2. TypeOK'
  BY <1>0, <1>1 DEF TypeOK
<1>3. RequestInOrder'
  BY <1>0 DEF RequestInOrder
<1>4. TrustInOrder'
  <2>1. \A c \in Bundles \ (littered' \cup {b}) :
           trust'[c].final \in {"absent", "whole"} /\ trust'[c].temp = "absent"
    BY <1>0, <1>1, OtherBundles
  <2> QED
    BY <1>0, <1>1, <2>1 DEF TrustInOrder
<1>5. /\ Rewriting' /\ FilesCovered' /\ ServingInOrder'
      /\ MapInOrder(loop.tls)' /\ MapInOrder(mirror.tls)'
  BY <1>0, <1>1, BundleChanges DEF CanCreate, TrustLoads, TrustInOrder
<1> QED
  BY <1>2, <1>3, <1>4, <1>5 DEF IInv

LEMMA WriteRootsKeeps ==
    ASSUME IInv, WriteRoots
    PROVE  IInv'
<1> USE DEF WriteRoots
<1> TypeOK /\ RequestInOrder /\ TrustInOrder
  BY DEF IInv
<1>0. req.op = "trust" /\ req.ref \in Bundles /\ up /\ tokens = {}
  BY PhaseTells DEF RequestInOrder
<1>1. /\ trust' \in [Bundles -> [final : BundleDirs, temp : BundleDirs]]
      /\ trust'[req.ref].final = trust[req.ref].final /\ trust'[req.ref].temp = "roots"
      /\ \A c \in Bundles \ {req.ref} : trust'[c] = trust[c]
  BY <1>0 DEF SetTrust, TypeOK, BundleDirs
<1>6. /\ req' \in Requests /\ req'.ph = "metadata" /\ req'.op = req.op /\ req'.ref = req.ref
  BY GotoIs DEF TypeOK
<1>2. TypeOK'
  BY <1>1, <1>6 DEF TypeOK
<1>3. RequestInOrder'
  BY <1>0, <1>6 DEF RequestInOrder
<1>4. TrustInOrder'
  BY <1>0, <1>1, <1>6, OtherBundles DEF TrustInOrder
<1>5. /\ Rewriting' /\ FilesCovered' /\ ServingInOrder'
      /\ MapInOrder(loop.tls)' /\ MapInOrder(mirror.tls)'
  BY <1>0, <1>1, <1>6, BundleChanges DEF TrustLoads, TrustInOrder
<1> QED
  BY <1>2, <1>3, <1>4, <1>5 DEF IInv

LEMMA WriteMetadataKeeps ==
    ASSUME IInv, WriteMetadata
    PROVE  IInv'
<1> USE DEF WriteMetadata
<1> TypeOK /\ RequestInOrder /\ TrustInOrder
  BY DEF IInv
<1>0. req.op = "trust" /\ req.ref \in Bundles /\ up /\ tokens = {}
  BY PhaseTells DEF RequestInOrder
<1>1. /\ trust' \in [Bundles -> [final : BundleDirs, temp : BundleDirs]]
      /\ trust'[req.ref].final = trust[req.ref].final /\ trust'[req.ref].temp = "whole"
      /\ \A c \in Bundles \ {req.ref} : trust'[c] = trust[c]
  BY <1>0 DEF SetTrust, TypeOK, BundleDirs
<1>6. /\ req' \in Requests /\ req'.ph = "rename" /\ req'.op = req.op /\ req'.ref = req.ref
  BY GotoIs DEF TypeOK
<1>2. TypeOK'
  BY <1>1, <1>6 DEF TypeOK
<1>3. RequestInOrder'
  BY <1>0, <1>6 DEF RequestInOrder
<1>4. TrustInOrder'
  BY <1>0, <1>1, <1>6, OtherBundles DEF TrustInOrder
<1>5. /\ Rewriting' /\ FilesCovered' /\ ServingInOrder'
      /\ MapInOrder(loop.tls)' /\ MapInOrder(mirror.tls)'
  BY <1>0, <1>1, <1>6, BundleChanges DEF TrustLoads, TrustInOrder
<1> QED
  BY <1>2, <1>3, <1>4, <1>5 DEF IInv

LEMMA PublishTrustKeeps ==
    ASSUME IInv, PublishTrust
    PROVE  IInv'
<1> USE DEF PublishTrust
<1> TypeOK /\ RequestInOrder /\ TrustInOrder
  BY DEF IInv
<1>0. req.op = "trust" /\ req.ref \in Bundles /\ up /\ tokens = {}
  BY PhaseTells DEF RequestInOrder
<1>1. /\ trust' \in [Bundles -> [final : BundleDirs, temp : BundleDirs]]
      /\ trust'[req.ref].final = "whole" /\ trust'[req.ref].temp = "absent"
      /\ \A c \in Bundles \ {req.ref} : trust'[c] = trust[c]
  BY <1>0 DEF TrustInOrder, SetTrust, TypeOK, BundleDirs
<1>6. req' \in Requests /\ req'.op = "idle" /\ req'.ph = "" /\ RequestInOrder'
  BY <1>0, AnswerInOrder
<1>2. TypeOK'
  <2>1. faults' \in Nat /\ littered' \subseteq Bundles
    BY <1>0 DEF TypeOK, Fault
  <2> QED
    BY <1>0, <1>1, <1>6, <2>1 DEF TypeOK
<1>3. RequestInOrder'
  BY <1>6
<1>4. TrustInOrder'
  BY <1>0, <1>1, <1>6, OtherBundles DEF TrustInOrder
<1>5. /\ Rewriting' /\ FilesCovered' /\ ServingInOrder'
      /\ MapInOrder(loop.tls)' /\ MapInOrder(mirror.tls)'
  BY <1>0, <1>1, <1>6, BundleChanges DEF TrustLoads, TrustInOrder
<1> QED
  BY <1>2, <1>3, <1>4, <1>5 DEF IInv

LEMMA TrustImportFailsKeeps ==
    ASSUME IInv, TrustImportFails
    PROVE  IInv'
<1> USE DEF TrustImportFails, TempRemoved
<1> TypeOK /\ RequestInOrder /\ TrustInOrder
  BY DEF IInv
<1>0. req.op = "trust" /\ req.ref \in Bundles /\ up /\ tokens = {}
  BY PhaseTells DEF RequestInOrder
<1>1. /\ trust' \in [Bundles -> [final : BundleDirs, temp : BundleDirs]]
      /\ trust'[req.ref].final = "absent"
      /\ trust'[req.ref].temp = "absent" \/ req.ref \in littered'
      /\ littered' \in SUBSET Bundles /\ littered \subseteq littered'
      /\ \A c \in Bundles \ {req.ref} : trust'[c] = trust[c]
  <2>1. trust[req.ref].final = "absent"
    BY DEF TrustInOrder
  <2>2. CASE UNCHANGED trust /\ littered' = littered \cup {req.ref}
    BY <1>0, <2>1, <2>2 DEF TypeOK
  <2>3. CASE SetTrust(req.ref, [trust[req.ref] EXCEPT !.temp = "absent"]) /\ UNCHANGED littered
    BY <1>0, <2>1, <2>3 DEF SetTrust, TypeOK, BundleDirs
  <2> QED
    BY <1>0, <2>2, <2>3
<1>6. req' \in Requests /\ req'.op = "idle" /\ req'.ph = "" /\ RequestInOrder'
  BY <1>0, AnswerInOrder
<1>2. TypeOK'
  <2>1. faults' \in Nat /\ littered' \subseteq Bundles
    BY <1>0 DEF TypeOK, Fault
  <2> QED
    BY <1>0, <1>1, <1>6, <2>1 DEF TypeOK
<1>3. RequestInOrder'
  BY <1>6
<1>4. TrustInOrder'
  BY <1>0, <1>1, <1>6, OtherBundles DEF TrustInOrder
<1>5. /\ Rewriting' /\ FilesCovered' /\ ServingInOrder'
      /\ MapInOrder(loop.tls)' /\ MapInOrder(mirror.tls)'
  BY <1>0, <1>1, <1>6, BundleChanges DEF TrustLoads, TrustInOrder
<1> QED
  BY <1>2, <1>3, <1>4, <1>5 DEF IInv

LEMMA DeleteTrustKeeps ==
    ASSUME IInv, NEW b \in Bundles, DeleteTrust(b)
    PROVE  IInv'
<1> USE DEF DeleteTrust
<1> TypeOK /\ RequestInOrder /\ TrustInOrder
  BY DEF IInv
<1>0. /\ req = Idle /\ req.op = "idle" /\ req.ph = "" /\ up /\ tokens = {}
      /\ requests' \in Nat /\ UNCHANGED <<faults, crashes>>
      /\ req' \in Requests /\ req'.op = "trust" /\ req'.ph = "removing" /\ req'.ref = b
  <2>1. req = Idle /\ req.op = "idle" /\ req.ph = "" /\ up /\ tokens = {}
    BY IdleIs DEF Accept, RequestInOrder
  <2>2. req' \in Requests /\ req'.op = "trust" /\ req'.ph = "removing" /\ req'.ref = b
    BY <2>1 DEF Idle, Requests, NoDirectory, Stored
  <2>3. requests' \in Nat /\ UNCHANGED <<faults, crashes>>
    BY DEF Accept, TypeOK
  <2> QED
    BY <2>1, <2>2, <2>3
<1>1. \A c \in Bundles \ {b} : trust'[c] = trust[c]
  OBVIOUS
<1>2. TypeOK'
  BY <1>0 DEF TypeOK
<1>3. RequestInOrder'
  BY <1>0 DEF RequestInOrder
<1>4. TrustInOrder'
  BY <1>0, <1>1, OtherBundles DEF TrustInOrder, Referenced
<1>5. /\ Rewriting' /\ FilesCovered' /\ ServingInOrder'
      /\ MapInOrder(loop.tls)' /\ MapInOrder(mirror.tls)'
  BY <1>0, <1>1, BundleChanges DEF TrustLoads, TrustInOrder
<1> QED
  BY <1>2, <1>3, <1>4, <1>5 DEF IInv

LEMMA RemoveTrustKeeps ==
    ASSUME IInv, NEW d \in BundleDirs, RemoveTrust(d)
    PROVE  IInv'
<1> USE DEF RemoveTrust
<1> TypeOK /\ RequestInOrder /\ TrustInOrder
  BY DEF IInv
<1>0. req.op = "trust" /\ req.ref \in Bundles /\ up /\ tokens = {}
  BY PhaseTells DEF RequestInOrder
<1>1. /\ trust' \in [Bundles -> [final : BundleDirs, temp : BundleDirs]]
      /\ trust'[req.ref].final = d /\ trust'[req.ref].temp = trust[req.ref].temp
      /\ \A c \in Bundles \ {req.ref} : trust'[c] = trust[c]
  BY <1>0 DEF SetTrust, TypeOK, BundleDirs
<1>2. CASE d = "absent"
  <2>1. req' \in Requests /\ req'.op = "idle" /\ req'.ph = "" /\ RequestInOrder'
    BY <1>0, <1>2, AnswerInOrder
  <2>2. TypeOK'
    BY <1>1, <2>1 DEF TypeOK
  <2>3. TrustInOrder'
    <3>1. \A c \in Bundles \ (littered' \cup {req.ref}) :
             trust'[c].final \in {"absent", "whole"} /\ trust'[c].temp = "absent"
      BY <1>0, <1>1, OtherBundles
    <3> QED
      BY <1>0, <1>1, <1>2, <2>1, <3>1 DEF TrustInOrder
  <2>4. /\ Rewriting' /\ FilesCovered' /\ ServingInOrder'
        /\ MapInOrder(loop.tls)' /\ MapInOrder(mirror.tls)'
    BY <1>0, <1>1, <2>1, BundleChanges DEF TrustInOrder
  <2> QED
    BY <2>1, <2>2, <2>3, <2>4 DEF IInv
<1>3. CASE req' = req
  <2>1. TypeOK'
    BY <1>1, <1>3 DEF TypeOK
  <2>2. RequestInOrder'
    BY <1>3 DEF RequestInOrder
  <2>3. TrustInOrder'
    BY <1>0, <1>1, <1>3, OtherBundles DEF TrustInOrder, Referenced
  <2>4. /\ Rewriting' /\ FilesCovered' /\ ServingInOrder'
        /\ MapInOrder(loop.tls)' /\ MapInOrder(mirror.tls)'
    BY <1>0, <1>1, <1>3, BundleChanges DEF TrustInOrder
  <2> QED
    BY <2>1, <2>2, <2>3, <2>4 DEF IInv
<1> QED
  BY <1>2, <1>3

LEMMA RemoveTrustFailsKeeps ==
    ASSUME IInv, RemoveTrustFails
    PROVE  IInv'
<1> USE DEF RemoveTrustFails
<1> TypeOK /\ RequestInOrder /\ TrustInOrder
  BY DEF IInv
<1>0. req.op = "trust" /\ req.ref \in Bundles /\ up /\ tokens = {}
  BY PhaseTells DEF RequestInOrder
<1>1. \A c \in Bundles \ {req.ref} : trust'[c] = trust[c]
  OBVIOUS
<1>6. req' \in Requests /\ req'.op = "idle" /\ req'.ph = "" /\ RequestInOrder'
  BY <1>0, AnswerInOrder
<1>2. TypeOK'
  <2>1. faults' \in Nat /\ littered' \subseteq Bundles
    BY <1>0 DEF TypeOK, Fault
  <2> QED
    BY <1>0, <1>6, <2>1 DEF TypeOK
<1>3. RequestInOrder'
  BY <1>6
<1>4. TrustInOrder'
  BY <1>0, <1>1, <1>6, OtherBundles DEF TrustInOrder
<1>5. /\ Rewriting' /\ FilesCovered' /\ ServingInOrder'
      /\ MapInOrder(loop.tls)' /\ MapInOrder(mirror.tls)'
  BY <1>0, <1>1, <1>6, BundleChanges DEF TrustLoads, TrustInOrder
<1> QED
  BY <1>2, <1>3, <1>4, <1>5 DEF IInv

-----------------------------------------------------------------------------
(* Configuration requests, the start and the end of the process.           *)

(* What is prepared for a revision serves it. *)
LEMMA PreparedInOrder ==
    ASSUME IInv, NEW rev \in Revisions, Startable(rev), req.ph \notin Saving
    PROVE  /\ MapInOrder(LoadedCerts(rev)) /\ LoadedCerts(rev) \in TlsMaps
           /\ DOMAIN LoadedCerts(rev) = CertsOf[rev] /\ TrustPrepares(rev)
           /\ \A r \in CertsOf[rev] :
                 Loads(files[r]) /\ LoadedCerts(rev)[r] = Loaded(files[r])
<1>1. LoadedCerts(rev) \in TlsMaps
  BY LoadedIsMap DEF IInv
<1>2. /\ DOMAIN LoadedCerts(rev) = CertsOf[rev]
      /\ \A r \in CertsOf[rev] : LoadedCerts(rev)[r] = Loaded(files[r])
  BY DEF LoadedCerts
<1>3. /\ Disjoint(LoadedCerts(rev)) /\ TrustPrepares(rev) 
      /\ \A r \in CertsOf[rev] : Loads(files[r])
  BY DEF Startable, CertsPrepare, FromConfigsOk
<1>4. \A r \in CertsOf[rev] \ spoiled : Covered(files[r])
  BY RevisionAssumption DEF IInv, FilesCovered, Torn
<1>5. \A r \in DOMAIN LoadedCerts(rev) \ spoiled :
         LoadedCerts(rev)[r].domains \subseteq Names[LoadedCerts(rev)[r].material]
  <2> SUFFICES ASSUME NEW r \in CertsOf[rev] \ spoiled
               PROVE  LoadedCerts(rev)[r].domains \subseteq Names[LoadedCerts(rev)[r].material]
    BY <1>2
  <2>1. files[r].domains \subseteq Names[files[r].chain]
    BY <1>3, <1>4 DEF Covered
  <2>2. LoadedCerts(rev)[r] = Loaded(files[r])
    BY <1>2
  <2>3. Loaded(files[r]).domains = files[r].domains /\ Loaded(files[r]).material = files[r].chain
    BY DEF Loaded
  <2> QED
    BY <2>1, <2>2, <2>3
<1> QED
  BY <1>1, <1>2, <1>3, <1>5 DEF MapInOrder

LEMMA ApplyKeeps ==
    ASSUME IInv, NEW rev \in Revisions, Apply(rev)
    PROVE  IInv'
<1> USE DEF Apply
<1> TypeOK /\ RequestInOrder /\ TrustInOrder /\ FilesCovered
  BY DEF IInv
<1>0. /\ req = Idle /\ req.op = "idle" /\ req.ph = "" /\ up /\ tokens = {}
      /\ requests' \in Nat /\ UNCHANGED <<faults, crashes>>
      /\ req' \in Requests /\ req'.op = "apply" /\ req'.ph = "activate" /\ req'.to = rev
  <2>1. req = Idle /\ req.op = "idle" /\ req.ph = "" /\ up /\ tokens = {}
    BY IdleIs DEF Accept, RequestInOrder
  <2>2. req' \in Requests /\ req'.op = "apply" /\ req'.ph = "activate" /\ req'.to = rev
    BY <2>1 DEF Idle, Requests, NoDirectory, Stored, TypeOK
  <2>3. requests' \in Nat /\ UNCHANGED <<faults, crashes>>
    BY DEF Accept, TypeOK
  <2> QED
    BY <2>1, <2>2, <2>3
<1>1. TypeOK'
  BY <1>0 DEF TypeOK
<1>2. RequestInOrder'
  <2>1. rev \in retained' /\ tokens' = tokens
    OBVIOUS
  <2>2. req'.op = "apply" => req'.ph \in ApplySteps /\ req'.to \in retained'
    BY <1>0, <2>1
  <2>3. up'
    BY <1>0 DEF TypeOK
  <2> QED
    BY <1>0, <2>1, <2>2, <2>3 DEF RequestInOrder
<1>3. TrustInOrder'
  BY <1>0, TrustKept
<1>4. Rewriting' /\ FilesCovered'
  BY <1>0, FilesKept
<1>5. ServingInOrder' /\ MapInOrder(loop.tls)' /\ MapInOrder(mirror.tls)'
  BY <1>0, ServingKept DEF TrustPrepares
<1> QED
  BY <1>0, <1>1, <1>2, <1>3, <1>4, <1>5 DEF IInv

LEMMA ActivateRejectedKeeps ==
    ASSUME IInv, ActivateRejected
    PROVE  IInv'
<1> USE DEF ActivateRejected
<1> TypeOK /\ RequestInOrder /\ TrustInOrder
  BY DEF IInv
<1>0. req.op = "apply" /\ req.to \in retained /\ up /\ tokens = {} /\ req.to \in Revisions
  BY PhaseTells DEF RequestInOrder, TypeOK
<1>1. req' \in Requests /\ req'.op = "idle" /\ req'.ph = "" /\ RequestInOrder'
  BY <1>0, AnswerInOrder
<1>2. TypeOK'
  <2>1. faults' \in Nat
    BY DEF TypeOK, Fault
  <2> QED
    BY <1>1, <2>1 DEF TypeOK
<1>3. RequestInOrder'
  BY <1>1
<1>4. TrustInOrder'
  BY <1>0, <1>1, TrustKept
<1>5. Rewriting' /\ FilesCovered'
  BY <1>0, <1>1, FilesKept DEF IInv
<1>6. ServingInOrder' /\ MapInOrder(loop.tls)' /\ MapInOrder(mirror.tls)'
  BY <1>0, <1>1, ServingKept DEF TrustPrepares
<1> QED
  BY <1>2, <1>3, <1>4, <1>5, <1>6 DEF IInv

LEMMA ActivateAcceptedKeeps ==
    ASSUME IInv, ActivateAccepted
    PROVE  IInv'
<1> USE DEF ActivateAccepted
<1> TypeOK /\ RequestInOrder /\ TrustInOrder
  BY DEF IInv
<1>0. req.op = "apply" /\ req.to \in retained /\ up /\ tokens = {} /\ req.to \in Revisions
  BY PhaseTells DEF RequestInOrder, TypeOK
<1>1. /\ req' \in Requests /\ req'.ph = "commit" /\ req'.op = req.op /\ req'.ref = req.ref
      /\ req'.to = req.to
  BY GotoIs DEF TypeOK
<1>8. loop'.rev = req.to /\ loop'.tls = LoadedCerts(req.to) /\ Startable(req.to)
  BY DEF ActivatePrepares
<1>9. /\ MapInOrder(LoadedCerts(req.to)) /\ LoadedCerts(req.to) \in TlsMaps /\ TrustPrepares(req.to)
      /\ \A r \in CertsOf[req.to] : Loads(files[r])
  BY <1>0, <1>8, PreparedInOrder
<1>2. TypeOK'
  BY <1>0, <1>1, <1>9 DEF TypeOK
<1>3. RequestInOrder'
  BY <1>0, <1>1 DEF RequestInOrder
<1>4. TrustInOrder'
  BY <1>0, <1>1, TrustKept
<1>5. Rewriting' /\ FilesCovered'
  BY <1>0, <1>1, FilesKept DEF IInv
<1>6. ServingInOrder'
  <2>1. ~adrift => Serves(mirror)
    BY <1>0 DEF IInv, ServingInOrder
  <2>2. ~adrift => Serves(mirror)'
    BY <1>1, <2>1 DEF Serves, Torn, TrustPrepares
  <2>3. LoadedCerts(req.to)' = LoadedCerts(req.to)
    BY <1>1 DEF LoadedCerts
  <2> QED
    BY <1>1, <1>9, <2>2, <2>3 DEF ServingInOrder, TrustPrepares
<1>7. MapInOrder(loop.tls)' /\ MapInOrder(mirror.tls)'
  BY <1>8, <1>9 DEF IInv, MapInOrder, Disjoint
<1> QED
  BY <1>2, <1>3, <1>4, <1>5, <1>6, <1>7 DEF IInv

LEMMA HealthCommitsKeeps ==
    ASSUME IInv, HealthCommits
    PROVE  IInv'
<1> USE DEF HealthCommits
<1> TypeOK /\ RequestInOrder /\ TrustInOrder
  BY DEF IInv
<1>0. req.op = "apply" /\ req.to \in retained /\ up /\ tokens = {} /\ req.to \in Revisions
  BY PhaseTells DEF RequestInOrder, TypeOK
<1>1. /\ req' \in Requests /\ req'.ph = "current" /\ req'.op = req.op /\ req'.ref = req.ref
      /\ req'.to = req.to
  BY GotoIs DEF TypeOK
<1>2. TypeOK'
  BY <1>1 DEF TypeOK
<1>3. RequestInOrder'
  BY <1>0, <1>1 DEF RequestInOrder
<1>4. TrustInOrder'
  BY <1>0, <1>1, TrustKept
<1>5. Rewriting' /\ FilesCovered'
  BY <1>0, <1>1, FilesKept DEF IInv
<1>6. ServingInOrder'
  BY <1>1 DEF IInv, ServingInOrder, LoadedCerts, TrustPrepares
<1>7. MapInOrder(loop.tls)' /\ MapInOrder(mirror.tls)'
  BY DEF IInv, MapInOrder, Disjoint
<1> QED
  BY <1>2, <1>3, <1>4, <1>5, <1>6, <1>7 DEF IInv

LEMMA HealthCommitFailsKeeps ==
    ASSUME IInv, HealthCommitFails
    PROVE  IInv'
<1> USE DEF HealthCommitFails
<1> TypeOK /\ RequestInOrder /\ TrustInOrder
  BY DEF IInv
<1>0. req.op = "apply" /\ req.to \in retained /\ up /\ tokens = {} /\ req.to \in Revisions
  BY PhaseTells DEF RequestInOrder, TypeOK
<1>1. req' \in Requests /\ req'.op = "idle" /\ req'.ph = "" /\ RequestInOrder'
  BY <1>0, AnswerInOrder
<1>2. TypeOK'
  <2>1. faults' \in Nat
    BY DEF TypeOK, Fault
  <2>2. adrift' \in BOOLEAN
    BY DEF TypeOK
  <2>3. loop' \in [rev : Revisions, tls : TlsMaps]
    BY DEF TypeOK
  <2> QED
    BY <1>1, <2>1, <2>2, <2>3 DEF TypeOK
<1>3. RequestInOrder'
  BY <1>1
<1>4. TrustInOrder'
  BY <1>0, <1>1, TrustKept
<1>5. Rewriting' /\ FilesCovered'
  BY <1>0, <1>1, FilesKept DEF IInv
<1>6. ServingInOrder'
  <2>1. ~adrift => Serves(mirror)
    BY DEF IInv, ServingInOrder
  <2>2. ~adrift => Serves(mirror)'
    BY <1>1, <2>1 DEF Serves, Torn, TrustPrepares
  <2>3. ~adrift' => ~adrift /\ loop' = mirror /\ mirror' = mirror
    BY DEF TypeOK
  <2>4. ~adrift' => Serves(loop)'
    BY <2>2, <2>3 DEF Serves, Torn, TrustPrepares
  <2> QED
    BY <1>1, <2>3, <2>4 DEF ServingInOrder
<1>7. MapInOrder(loop.tls)' /\ MapInOrder(mirror.tls)'
  BY DEF IInv, MapInOrder, Disjoint
<1> QED
  BY <1>2, <1>3, <1>4, <1>5, <1>6, <1>7 DEF IInv

LEMMA SetCurrentKeeps ==
    ASSUME IInv, SetCurrent
    PROVE  IInv'
<1> USE DEF SetCurrent
<1> TypeOK /\ RequestInOrder /\ TrustInOrder
  BY DEF IInv
<1>0. req.op = "apply" /\ req.to \in retained /\ up /\ tokens = {} /\ req.to \in Revisions
  BY PhaseTells DEF RequestInOrder, TypeOK
<1>1. req' \in Requests /\ req'.op = "idle" /\ req'.ph = "" /\ RequestInOrder'
  BY <1>0, AnswerInOrder
<1>2. TypeOK'
  <2>1. faults' \in Nat
    BY DEF TypeOK, Fault
  <2>2. adrift' \in BOOLEAN
    OBVIOUS
  <2>3. current' \in retained
    BY <1>0 DEF TypeOK
  <2> QED
    BY <1>1, <2>1, <2>2, <2>3 DEF TypeOK
<1>3. RequestInOrder'
  BY <1>1
<1>4. TrustInOrder'
  BY <1>0, <1>1, TrustKept
<1>5. Rewriting' /\ FilesCovered'
  BY <1>0, <1>1, FilesKept DEF IInv
<1>6. ServingInOrder'
  <2>1. CASE current' = req.to
    <3>1. /\ mirror = loop /\ loop.rev = req.to /\ loop.tls = LoadedCerts(req.to)
          /\ TrustPrepares(req.to) /\ \A r \in CertsOf[req.to] : Loads(files[r])
      BY DEF IInv, ServingInOrder
    <3>2. /\ DOMAIN LoadedCerts(req.to) = CertsOf[req.to]
          /\ \A r \in CertsOf[req.to] : LoadedCerts(req.to)[r] = Loaded(files[r])
      BY DEF LoadedCerts
    <3> QED
      BY <1>1, <2>1, <3>1, <3>2 DEF ServingInOrder, Serves, TrustPrepares
  <2>2. CASE adrift'
    BY <1>1, <2>2 DEF ServingInOrder
  <2> QED
    BY <2>1, <2>2
<1>7. MapInOrder(loop.tls)' /\ MapInOrder(mirror.tls)'
  BY DEF IInv, MapInOrder, Disjoint
<1> QED
  BY <1>2, <1>3, <1>4, <1>5, <1>6, <1>7 DEF IInv

LEMMA StartKeeps ==
    ASSUME IInv, Start
    PROVE  IInv'
<1> USE DEF Start
<1> TypeOK /\ RequestInOrder /\ TrustInOrder
  BY DEF IInv
<1>0. req = Idle /\ req.op = "idle" /\ req.ph = "" /\ current \in Revisions
  BY IdleIs DEF RequestInOrder, TypeOK
<1>1. req' = req /\ loop' = [rev |-> current, tls |-> LoadedCerts(current)] /\ mirror' = loop'
  OBVIOUS
<1>8. /\ MapInOrder(LoadedCerts(current)) /\ LoadedCerts(current) \in TlsMaps
      /\ DOMAIN LoadedCerts(current) = CertsOf[current] /\ TrustPrepares(current)
      /\ \A r \in CertsOf[current] :
            Loads(files[r]) /\ LoadedCerts(current)[r] = Loaded(files[r])
  BY <1>0, PreparedInOrder
<1>2. TypeOK'
  <2>1. loop' \in [rev : Revisions, tls : TlsMaps] /\ mirror' \in [rev : Revisions, tls : TlsMaps]
    <3>1. [rev |-> current, tls |-> LoadedCerts(current)] \in [rev : Revisions, tls : TlsMaps]
      BY <1>0, <1>8
    <3> QED
      BY <1>1, <3>1
  <2>2. up' \in BOOLEAN /\ adrift' \in BOOLEAN
    OBVIOUS
  <2> QED
    BY <1>1, <2>1, <2>2 DEF TypeOK
<1>3. RequestInOrder'
  BY <1>0, <1>1 DEF RequestInOrder
<1>4. TrustInOrder'
  BY <1>0, <1>1, TrustKept
<1>5. Rewriting' /\ FilesCovered'
  BY <1>0, <1>1, FilesKept DEF IInv
<1>6. ServingInOrder'
  <2>1. loop'.rev = current /\ loop'.tls = LoadedCerts(current)
    BY <1>1
  <2>2. Serves(loop)'
    BY <1>8, <2>1 DEF Serves, TrustPrepares
  <2> QED
    BY <1>0, <1>1, <2>2 DEF ServingInOrder
<1>7. MapInOrder(loop.tls)' /\ MapInOrder(mirror.tls)'
  BY <1>1, <1>8 DEF MapInOrder, Disjoint
<1> QED
  BY <1>2, <1>3, <1>4, <1>5, <1>6, <1>7 DEF IInv

LEMMA CrashKeeps ==
    ASSUME IInv, Crash
    PROVE  IInv'
<1> USE DEF Crash
<1> TypeOK /\ RequestInOrder /\ TrustInOrder
  BY DEF IInv
<1>1. req' = Idle /\ req' \in Requests /\ req'.op = "idle" /\ req'.ph = ""
  BY IdleIs
<1>0. /\ req.ph \in Saving => req.ref \in Refs
      /\ req.op = "trust" => req.ref \in Bundles
  BY PhaseTells DEF RequestInOrder
<1>2. TypeOK'
  <2>1. spoiled' \subseteq Refs /\ littered' \subseteq Bundles
    BY <1>0 DEF TypeOK
  <2>2. crashes' \in Nat
    BY DEF TypeOK
  <2>3. loop' \in [rev : Revisions, tls : TlsMaps] /\ mirror' \in [rev : Revisions, tls : TlsMaps]
    BY DownInOrder
  <2> QED
    BY <1>1, <2>1, <2>2, <2>3 DEF TypeOK
<1>3. RequestInOrder'
  BY <1>1 DEF RequestInOrder
<1>4. TrustInOrder'
  BY <1>1 DEF TrustInOrder
<1>5. Rewriting' /\ FilesCovered'
  BY <1>1 DEF IInv, Rewriting, FilesCovered, Torn, Covered
<1>6. ServingInOrder'
  BY <1>1 DEF ServingInOrder
<1>7. MapInOrder(loop.tls)' /\ MapInOrder(mirror.tls)'
  BY DownInOrder DEF MapInOrder, Disjoint
<1> QED
  BY <1>2, <1>3, <1>4, <1>5, <1>6, <1>7 DEF IInv

LEMMA InitKeeps == Init => IInv
<1> SUFFICES ASSUME Init PROVE IInv
  OBVIOUS
<1> USE DEF Init
<1>1. req = Idle /\ req \in Requests /\ req.op = "idle" /\ req.ph = ""
  BY IdleIs
<1>2. TypeOK
  BY <1>1, DownInOrder, RevisionAssumption DEF TypeOK, NoBundle, BundleDirs
<1>3. RequestInOrder
  BY <1>1 DEF RequestInOrder
<1>4. TrustInOrder
  BY <1>1 DEF TrustInOrder, NoBundle
<1>5. Rewriting /\ ServingInOrder
  BY <1>1 DEF Rewriting, ServingInOrder
<1>6. FilesCovered
  BY RevisionAssumption DEF FilesCovered, Covered
<1>7. MapInOrder(loop.tls) /\ MapInOrder(mirror.tls)
  BY DownInOrder DEF MapInOrder, Disjoint
<1> QED
  BY <1>2, <1>3, <1>4, <1>5, <1>6, <1>7 DEF IInv

LEMMA NextKeeps == IInv /\ [Next]_vars => IInv'
<1> SUFFICES ASSUME IInv, [Next]_vars PROVE IInv'
  OBVIOUS
<1>1. CASE UNCHANGED vars
  BY <1>1 DEF vars, IInv, TypeOK, RequestInOrder, TrustInOrder, Rewriting, FilesCovered, MapInOrder,
     ServingInOrder, Serves, Served, Torn, Covered, Disjoint, Referenced, TrustPrepares, LoadedCerts
<1>2. CASE CertificateNext
  BY <1>2, ImportKeeps, IssueKeeps, RenewKeeps, PresentChallengeKeeps, ChallengesVerifiedKeeps,
     OrderFailsKeeps, OrderIssuedKeeps, WriteChainKeeps, WriteKeyKeeps, WriteMetaKeeps,
     WriteFailsKeeps, InstallAcceptedKeeps, InstallRejectedKeeps, DeleteCertificateKeeps,
     RequestEndsKeeps
  DEF CertificateNext
<1>3. CASE TrustNext
  BY <1>3, ImportTrustKeeps, DeleteTrustKeeps, WriteRootsKeeps, WriteMetadataKeeps,
     PublishTrustKeeps, TrustImportFailsKeeps, RemoveTrustKeeps, RemoveTrustFailsKeeps
  DEF TrustNext
<1>4. CASE ApplyNext
  BY <1>4, ApplyKeeps, ActivateRejectedKeeps, ActivateAcceptedKeeps, HealthCommitsKeeps,
     HealthCommitFailsKeeps, SetCurrentKeeps
  DEF ApplyNext
<1>5. CASE Start \/ Crash
  BY <1>5, StartKeeps, CrashKeeps
<1> QED
  BY <1>1, <1>2, <1>3, <1>4, <1>5 DEF Next, StartRefused, WaitForRequest

-----------------------------------------------------------------------------
(* The inductive invariant holds throughout: what each certificate, trust  *)
(* and configuration request of the admin server has done so far.          *)
THEOREM MaterialInvariant == Spec => []IInv
  BY InitKeeps, NextKeeps, PTL DEF Spec

(* Between requests, and unless an activation was left half done, a        *)
(* restart (run_serve) would serve what the event loop serves: an import   *)
(* that the loop refuses, a write that fails and an activation that is     *)
(* compensated leave store, pointer and listeners in agreement.            *)
THEOREM RestartAlwaysServesTheSame == Spec => []RestartServesTheSame
<1>1. IInv => RestartServesTheSame
  <2> SUFFICES ASSUME IInv, up, req = Idle, ~adrift
               PROVE  /\ loop.rev = current /\ TrustPrepares(current)
                      /\ \A r \in CertsOf[current] \ spoiled :
                            Loads(files[r]) /\ loop.tls[r] = Loaded(files[r])
                      /\ CertsOf[current] \cap spoiled = {} => Startable(current)
    BY DEF RestartServesTheSame
  <2>1. Serves(loop) /\ req.ph = ""
    BY IdleIs DEF IInv, ServingInOrder
  <2>2. \A r \in CertsOf[current] \ spoiled : Loads(files[r]) /\ loop.tls[r] = Loaded(files[r])
    BY <2>1 DEF Serves, Torn
  <2>3. ASSUME CertsOf[current] \cap spoiled = {} PROVE Startable(current)
    <3>1. \A r \in CertsOf[current] : Loads(files[r]) /\ loop.tls[r] = Loaded(files[r])
      BY <2>2, <2>3
    <3>2. /\ DOMAIN LoadedCerts(current) = CertsOf[current]
          /\ \A r \in CertsOf[current] : LoadedCerts(current)[r] = loop.tls[r]
      BY <3>1 DEF LoadedCerts
    <3>3. CertsOf[current] # {} /\ CertsOf[current] \subseteq DOMAIN loop.tls
      BY <2>1, RevisionAssumption DEF IInv, TypeOK, Serves
    <3>4. FromConfigsOk(LoadedCerts(current))
      BY <3>2, <3>3 DEF IInv, MapInOrder, Disjoint, FromConfigsOk
    <3> QED
      BY <2>1, <3>1, <3>4 DEF Startable, CertsPrepare, Serves
  <2> QED
    BY <2>1, <2>2, <2>3 DEF Serves
<1> QED
  BY <1>1, MaterialInvariant, PTL

(* A host name is answered by one certificate at most, and by one that     *)
(* covers it; between requests nothing of a refused trust import is left,  *)
(* so that the bundles can be listed; and a challenge is answered during   *)
(* its order only.                                                         *)
THEOREM MaterialAlwaysInOrder == Spec => []MaterialIsInOrder
<1>1. IInv => HostsGetTheirCertificate
  <2> SUFFICES ASSUME IInv PROVE HostsGetTheirCertificate
    OBVIOUS
  <2>1. Disjoint(loop.tls)
    BY DEF IInv, MapInOrder
  <2>2. ASSUME NEW h \in Hosts PROVE Cardinality(Resolve(loop.tls, h)) <= 1
    <3> DEFINE answering == {r \in DOMAIN loop.tls : h \in loop.tls[r].domains}
    <3>1. CASE answering = {}
      <4>1. Resolve(loop.tls, h) = {}
        BY <3>1 DEF Resolve
      <4> QED
        BY <4>1, FS_EmptySet
    <3>2. CASE answering # {}
      <4>1. PICK r \in answering : TRUE
        BY <3>2
      <4>2. answering = {r}
        BY <2>1, <4>1 DEF Disjoint
      <4>3. Resolve(loop.tls, h) = {loop.tls[r].material}
        BY <4>2 DEF Resolve
      <4>4. Cardinality({loop.tls[r].material}) = 1
        BY FS_Singleton, Zenon
      <4> QED
        BY <4>3, <4>4
    <3> QED
      BY <3>1, <3>2
  <2> QED
    BY <2>2 DEF HostsGetTheirCertificate, IInv, MapInOrder
<1>2. IInv => RefusedTrustLeavesNothing
  <2> SUFFICES ASSUME IInv, req = Idle
               PROVE  /\ \A b \in Bundles \ littered :
                            trust[b].final \in {"absent", "whole"} /\ trust[b].temp = "absent"
                      /\ littered = {} => TrustLists(trust)
    BY DEF RefusedTrustLeavesNothing
  <2>1. \A b \in Bundles \ littered :
           trust[b].final \in {"absent", "whole"} /\ trust[b].temp = "absent"
    BY IdleIs DEF IInv, TrustInOrder
  <2> QED
    BY <2>1 DEF TrustLists, EntryLists
<1>3. IInv => ChallengesAreTakenBack
  BY DEF IInv, RequestInOrder, ChallengesAreTakenBack
<1>4. IInv => MaterialIsInOrder
  BY <1>1, <1>2, <1>3 DEF MaterialIsInOrder
<1> QED
  BY <1>4, MaterialInvariant, PTL

(* A trust bundle that a revision of the history needs stays loadable, so   *)
(* that a rollback finds it: the deletion asks every retained revision,    *)
(* and a step of an import or of a removal touches its own bundle only.    *)
THEOREM RollbackAlwaysFindsTrust == Spec => RollbackFindsTrust
<1> DEFINE Found == \A rev \in retained : \A b \in TrustOf[rev] :
                       TrustLoads(trust[b]) => TrustLoads(trust'[b])
<1>1. ASSUME IInv, [Next]_vars PROVE Found
  <2> USE DEF IInv, TrustLoads
  <2>0. /\ \A rev \in retained : TrustOf[rev] \subseteq Bundles
        /\ trust \in [Bundles -> [final : BundleDirs, temp : BundleDirs]]
    BY <1>1, RevisionAssumption DEF TypeOK
  <2>1. req.ph \in TrustSteps => req.ref \in Bundles
    BY <1>1, PhaseTells DEF RequestInOrder
  <2>2. CASE UNCHANGED trust
    BY <2>2
  <2>3. ASSUME NEW b \in Bundles, ImportTrust(b) PROVE Found
    BY <2>0, <2>3 DEF ImportTrust, SetTrust
  <2>4. CASE WriteRoots \/ WriteMetadata
    BY <2>0, <2>1, <2>4 DEF WriteRoots, WriteMetadata, SetTrust
  <2>5. CASE PublishTrust
    BY <1>1, <2>0, <2>1, <2>5 DEF PublishTrust, SetTrust, TrustInOrder
  <2>6. CASE TrustImportFails
    BY <2>0, <2>1, <2>6 DEF TrustImportFails, SetTrust
  <2>7. ASSUME NEW d \in BundleDirs, RemoveTrust(d) PROVE Found
    BY <1>1, <2>0, <2>1, <2>7 DEF RemoveTrust, SetTrust, TrustInOrder, Referenced
  <2>8. CASE CertificateNext
    BY <2>2, <2>8 DEF CertificateNext, Import, Issue, Renew, PresentChallenge, ChallengesVerified,
       OrderFails, OrderIssued, WriteChain, WriteKey, WriteMeta, WriteFails, InstallAccepted,
       InstallRejected, DeleteCertificate, RequestEnds
  <2>9. CASE ApplyNext
    BY <2>2, <2>9 DEF ApplyNext, Apply, ActivateRejected, ActivateAccepted, HealthCommits,
       HealthCommitFails, SetCurrent
  <2>10. CASE TrustNext
    BY <2>2, <2>3, <2>4, <2>5, <2>6, <2>7, <2>10 DEF TrustNext, DeleteTrust, RemoveTrustFails
  <2> QED
    BY <1>1, <2>2, <2>8, <2>9, <2>10 DEF Next, vars, Start, StartRefused, WaitForRequest, Crash
<1>2. IInv /\ [Next]_vars => [Found]_vars
  BY <1>1
<1> QED
  BY <1>2, MaterialInvariant, PTL DEF Spec, RollbackFindsTrust
=============================================================================

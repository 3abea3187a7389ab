--------------------------- MODULE BackupArchive ---------------------------
(***************************************************************************)
(* What `backup create` puts into an archive, and what `backup verify` and *)
(* `backup restore` make of it: the inventory of a data directory, the     *)
(* manifest and its validation, the record stream, the extraction and the  *)
(* preflight checks.  These are pure functions of the directory; when and  *)
(* by whom they are called is the subject of DataDirectory.                *)
(*                                                                         *)
(* A file is its kind and logical id.  A directory d says which files it   *)
(* has (d.files), which revision its pointer names (d.current), whether it *)
(* has an entry of an unknown name (d.stray), which revisions do not parse *)
(* (d.unreadable), which certificates and bundles do not load (d.bad), and *)
(* whether its ledger has an operation without a result (d.open).  Bytes,  *)
(* lengths and digests are left out: a record is the file it came from.    *)
(***************************************************************************)
EXTENDS Integers, Sequences, FiniteSets, Functions

\* A small repository: the older revision names a trust bundle, the newer
\* one a certificate as well.
Revisions == {"r1", "r2"}
Certificates == {"c"}
Bundles == {"b"}

\* collect_snapshot_trust_refs, and the certificate_ref of every route.
CertificateRefs(r) == IF r = "r2" THEN {"c"} ELSE {}
TrustRefs(r) == IF r = "r1" THEN {"b"} ELSE {}

\* Every file an archive may hold, in the order of the logical paths.
PathOrder == << <<"segment", 1>>, <<"segment", 2>>,
                <<"chain", "c">>, <<"certificateMetadata", "c">>, <<"key", "c">>,
                <<"pointer", "current">>, <<"revision", "r1">>, <<"revision", "r2">>,
                <<"hash", "admin">>,
                <<"trustMetadata", "b">>, <<"roots", "b">> >>
Files == Range(PathOrder)
Position(f) == CHOOSE i \in DOMAIN PathOrder : PathOrder[i] = f

Ids(files, kind) == {f[2] : f \in {g \in files : g[1] = kind}}

-----------------------------------------------------------------------------
\* The inventory

(* Mutant: only the current revision's trust bundles are asked for. *)
ReferencedTrustOfCurrent(d) == TrustRefs(d.current)

\* Rolling back must stay possible: bundles count for every revision.
ReferencedTrust(d) == UNION {TrustRefs(r) : r \in Ids(d.files, "revision")}

\* No unknown name, a pointer, and revisions that all parse, the one the
\* pointer names among them.
InspectConfig(d) ==
    /\ ~d.stray
    /\ <<"pointer", "current">> \in d.files
    /\ d.current \in Ids(d.files, "revision")
    /\ d.unreadable \cap Ids(d.files, "revision") = {}

\* A directory of a certificate or of a bundle has all of its files.
Complete(files, kinds) == \A k, l \in kinds : Ids(files, k) = Ids(files, l)
CertificateKinds == {"chain", "key", "certificateMetadata"}
TrustKinds == {"roots", "trustMetadata"}
InspectCertificates(d) == Complete(d.files, CertificateKinds)
InspectTrustBundles(d) == Complete(d.files, TrustKinds)

\* ledger.verify: the segments follow one another.  An operation without a
\* result is no error here.
Consecutive(numbers) == \A n, m \in numbers : n..m \subseteq numbers
InspectAuditLedger(d) == Consecutive(Ids(d.files, "segment"))

InspectSecret(d) == <<"hash", "admin">> \in d.files

SourceIsValid(d) ==
    InspectConfig(d) /\ InspectCertificates(d) /\ InspectTrustBundles(d) /\ InspectAuditLedger(d)

\* BackupManifest with the artifacts sorted by path.
ManifestOf(d, schema) ==
    [schema |-> schema, current |-> d.current, admin |-> InspectSecret(d),
     certificates |-> CertificateRefs(d.current), trust |-> ReferencedTrust(d),
     artifacts |-> SelectSeq(PathOrder, LAMBDA f : f \in d.files)]

\* BackupManifest::validate
ValidateManifest(m) ==
    LET files == Range(m.artifacts)
    IN  /\ m.schema \in 1..3
        /\ \A i, j \in DOMAIN m.artifacts : i < j =>
              Position(m.artifacts[i]) < Position(m.artifacts[j])
        /\ Cardinality(Ids(files, "pointer")) = 1
        /\ m.current \in Ids(files, "revision")
        /\ m.admin = (Ids(files, "hash") # {})
        /\ Complete(files, CertificateKinds) /\ Complete(files, TrustKinds)
        /\ Consecutive(Ids(files, "segment"))
        /\ m.schema = 1 => m.trust = {} /\ Ids(files, "roots") = {}
        /\ m.schema < 3 => Ids(files, "segment") = {}
        /\ m.certificates \subseteq Ids(files, "chain")
        /\ m.trust \subseteq Ids(files, "roots")

-----------------------------------------------------------------------------
\* The archive: the fields of the manifest in a fixed order, its digest, and
\* one record for each artifact.  Schema 1 has no field for trust bundles.

EncodeManifest(m) ==
    <<m.schema, m.current, m.admin, m.certificates>>
    \o (IF m.schema >= 2 THEN <<m.trust>> ELSE <<>>)
    \o <<Len(m.artifacts)>> \o m.artifacts

DecodeManifest(encoded) ==
    LET at == IF encoded[1] >= 2 THEN 6 ELSE 5
    IN  [schema |-> encoded[1], current |-> encoded[2], admin |-> encoded[3],
         certificates |-> encoded[4],
         trust |-> IF encoded[1] >= 2 THEN encoded[5] ELSE {},
         artifacts |-> SubSeq(encoded, at + 1, Len(encoded))]

\* execute_locked: every artifact of the inventory is read again and written
\* in the order of the manifest.  <<>> when the directory is refused.
CreateBackup(d, schema) ==
    IF SourceIsValid(d) /\ ValidateManifest(ManifestOf(d, schema))
    THEN LET m == ManifestOf(d, schema)
         IN  <<[manifest |-> EncodeManifest(m), digest |-> m, records |-> m.artifacts]>>
    ELSE <<>>

\* read_archive_records: each record is the next artifact of the manifest,
\* and nothing follows the last one.
ReadArchiveRecords(a) == DecodeManifest(a.manifest).artifacts = a.records

\* VerifyBackupUseCase::verify looks at the archive alone.
VerifyBackup(a) ==
    LET m == DecodeManifest(a.manifest)
    IN  ReadArchiveRecords(a) /\ ValidateManifest(m) /\ m = a.digest

\* What the extraction leaves in the stage.  The bytes of the files, and so
\* what parses, loads and is open, are those of the directory.
ExtractArchive(a, d) ==
    [d EXCEPT !.files = Range(a.records), !.stray = FALSE]

-----------------------------------------------------------------------------
\* The preflight checks of a restore, on the stage s and the manifest m

ValidateConfig(s, m) ==
    /\ <<"pointer", "current">> \in s.files /\ s.current = m.current
    /\ s.current \in Ids(s.files, "revision") \ s.unreadable

ValidateCertificates(s, m) ==
    /\ m.certificates \subseteq Ids(s.files, "chain") \cap Ids(s.files, "key")
    /\ m.certificates \cap s.bad = {}

ValidateSecrets(s, m) == m.admin = (<<"hash", "admin">> \in s.files)

\* A ledger with an operation that has no result would block every start.
ValidateAudit(s, m) ==
    Ids(Range(m.artifacts), "segment") # {} =>
        /\ Ids(Range(m.artifacts), "segment") = Ids(s.files, "segment")
        /\ ~s.open

PreflightRuntime(s, m) ==
    /\ TrustRefs(s.current) \subseteq m.trust
    /\ m.trust \subseteq Ids(s.files, "roots")
    /\ Ids(s.files, "roots") \cap s.bad = {}

PreflightPasses(s, m) ==
    /\ ValidateConfig(s, m) /\ ValidateCertificates(s, m) /\ ValidateSecrets(s, m)
    /\ ValidateAudit(s, m) /\ PreflightRuntime(s, m)

RestoreAccepts(a, d) ==
    VerifyBackup(a) /\ PreflightPasses(ExtractArchive(a, d), DecodeManifest(a.manifest))

-----------------------------------------------------------------------------
\* Directories to try it on: any set of files, any of the faults above.
Directories ==
    [files : SUBSET Files, current : Revisions, stray : BOOLEAN,
     unreadable : {{}, {"r1"}}, bad : SUBSET (Certificates \cup Bundles), open : BOOLEAN]

WholeDirectory == [files |-> Files, current |-> "r2", stray |-> FALSE,
                   unreadable |-> {}, bad |-> {}, open |-> FALSE]

\* What a running proxy needs of a directory: the certificates of its current
\* revision and its bundles load, and no operation is open.
Sound(d) ==
    /\ CertificateRefs(d.current) \cap d.bad = {}
    /\ Ids(d.files, "roots") \cap d.bad = {}
    /\ Ids(d.files, "segment") # {} => ~d.open
=============================================================================

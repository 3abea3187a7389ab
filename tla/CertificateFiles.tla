-------------------------- MODULE CertificateFiles --------------------------
(***************************************************************************)
(* The TLS material below the data directory: FileCertificateStore (a      *)
(* directory per certificate_ref with three files, each replaced by a      *)
(* rename) and FileTrustBundleStore (a directory per trust bundle, built   *)
(* under a temporary name), and what the loaders make of those files.      *)
(* A certificate chain and a private key are "of" a material; they match   *)
(* when it is the same one.                                                *)
(***************************************************************************)
EXTENDS FiniteSets, Functions

CONSTANTS
    Refs,        \* certificate references
    Hosts,       \* host names (normalised)
    Materials,   \* pairs of a leaf certificate and its private key
    Names,       \* material -> the DNS identities of the leaf that cover hosts
    Bundles,     \* trust bundle references
    NoMaterial   \* a file that is not there

ASSUME MaterialAssumption ==
    /\ NoMaterial \notin Materials
    /\ Names \in [Materials -> SUBSET Hosts]

-----------------------------------------------------------------------------
(* FileCertificateStore *)

Stored == [dir : BOOLEAN, chain : Materials \cup {NoMaterial},
           key : Materials \cup {NoMaterial}, meta : BOOLEAN, domains : SUBSET Hosts]

NoDirectory == [dir |-> FALSE, chain |-> NoMaterial, key |-> NoMaterial, meta |-> FALSE,
                domains |-> {}]

(* load_certificate: no directory is no certificate; a directory in which  *)
(* a file is missing is an error.                                          *)
Absent(f) == ~f.dir
Readable(f) == f.dir /\ f.chain # NoMaterial /\ f.key # NoMaterial /\ f.meta

(* delete_certificate: one step of remove_dir_all, in whatever order the   *)
(* directory lists.                                                        *)
Unlinked(f) ==
    LET fewer == {[f EXCEPT !.chain = NoMaterial], [f EXCEPT !.key = NoMaterial],
                  [f EXCEPT !.meta = FALSE, !.domains = {}]} \ {f}
    IN  IF fewer = {} THEN {NoDirectory} ELSE fewer

(* load_rustls_server_config *)
KeysMatch(f) == f.chain = f.key

(* What a listener can use: the material, under the domains of the         *)
(* metadata file.                                                          *)
Loads(f) == Readable(f) /\ KeysMatch(f)
Loaded(f) == [material |-> f.chain, domains |-> f.domains]

(* TlsRuntimeSnapshot::from_configs: at least one certificate, and no host *)
(* name in two of them.                                                    *)
Disjoint(tls) == \A r, s \in DOMAIN tls :
                    r # s => tls[r].domains \cap tls[s].domains = {}
FromConfigsOk(tls) == DOMAIN tls # {} /\ Disjoint(tls)

(* TlsRuntimeSnapshot::replace_config *)
ReplaceConfig(tls, r, config) ==
    [s \in DOMAIN tls \cup {r} |-> IF s = r THEN config ELSE tls[s]]

(* SniServerCertResolver: the material answered for a host name.           *)
Resolve(tls, h) == {tls[r].material : r \in {s \in DOMAIN tls : h \in tls[s].domains}}

ImportTrustsDomains(m, k, declared) == m = k /\ declared # {}

(* import_manual_certificate_and_install, before it stores anything: the   *)
(* key belongs to the leaf, and the leaf's identities cover every declared *)
(* domain, of which there is one at least.                                 *)
ImportIsValid(m, k, declared) == m = k /\ declared # {} /\ declared \subseteq Names[m]

-----------------------------------------------------------------------------
(* FileTrustBundleStore: the directory, and the temporary directory of an  *)
(* import.  "roots" and "metadata" hold one of the two files only.         *)

BundleDirs == {"absent", "empty", "roots", "metadata", "whole"}
NoBundle == [final |-> "absent", temp |-> "absent"]

(* load_trust_bundle *)
TrustLoads(b) == b.final = "whole"

(* list_trust_bundles reads the metadata of every entry of the store, the  *)
(* temporary directories included.                                         *)
EntryLists(d) == d \in {"absent", "metadata", "whole"}
TrustLists(store) == \A b \in Bundles : EntryLists(store[b].final) /\ EntryLists(store[b].temp)

(* create_dir of the temporary directory refuses one that is left over.    *)
CanCreate(b) == b.final = "absent" /\ b.temp = "absent"

(* One step of remove_dir_all, in whatever order the directory lists.      *)
Removed(d) == CASE d = "whole" -> {"roots", "metadata"}
                [] d \in {"roots", "metadata"} -> {"empty"}
                [] d = "empty" -> {"absent"}
                [] OTHER -> {}
=============================================================================

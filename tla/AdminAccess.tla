---------------------------- MODULE AdminAccess ----------------------------
(***************************************************************************)
(* How the admin server answers one request: the envelope it reads, the    *)
(* order in which handle_admin_http_stream tries its endpoints, and the    *)
(* session, CSRF and audit steps of each.                                  *)
(*                                                                         *)
(* A request is [method, path, query, id, session, csrf, body, result].    *)
(* Paths are sequences of segments, without "/api/v1"; an identifier is a  *)
(* sequence too, split where it holds a character that a record may not    *)
(* hold.  query is empty but for the reads that look at one (metrics and   *)
(* audit).  result is what the component behind the endpoint answers: "ok",  *)
(* or an error code.  srv is what the server knows: [configured, stored,   *)
(* sessions, admitted, records, lifecycle, facts, fits], where sessions is *)
(* a function from session to token, and fits tells whether the id of the  *)
(* current revision is short enough for an audit record.                   *)
(***************************************************************************)
EXTENDS Naturals, Sequences, SequencesExt

-----------------------------------------------------------------------------
(* The envelope *)

ParseHttpMethod(method) == method \in {"GET", "POST", "PATCH", "DELETE"}

CookieValue(cookies) ==
    LET named == SelectSeq(cookies, LAMBDA c : c[1] = "sponzey_session")
    IN  IF named = <<>> THEN <<>> ELSE <<named[1][2]>>

(* A later header overrides an earlier one; a Cookie without the session   *)
(* takes it away again.                                                    *)
ReadHeader(r, header) ==
    CASE header[1] = "x-request-id" -> [r EXCEPT !.id = header[2]]
      [] header[1] = "x-csrf-token" -> [r EXCEPT !.csrf = <<header[2]>>]
      [] header[1] = "cookie" -> [r EXCEPT !.session = CookieValue(header[2])]
      [] OTHER -> r

(* <<>> is a request that does not parse: its connection just ends.        *)
ParseAdminHttpRequest(raw) ==
    IF \/ ~ParseHttpMethod(raw.method)
       \/ raw.version \notin {"HTTP/1.1", "HTTP/1.0"}
       \/ \E i \in DOMAIN raw.headers : raw.headers[i] = <<>>
    THEN <<>>
    ELSE <<FoldLeft(ReadHeader,
                    [method |-> raw.method, path |-> raw.path, query |-> raw.query,
                     id |-> <<"admin-http">>, session |-> <<>>, csrf |-> <<>>,
                     body |-> raw.body, result |-> raw.result],
                    raw.headers)>>

-----------------------------------------------------------------------------
(* Answers: status 0 is a connection closed without one.                   *)

NoAnswer == [status |-> 0, intent |-> "none", effect |-> "none"]
Answer(status) == [NoAnswer EXCEPT !.status = status]

HttpStatusForError(code) ==
    CASE code \in {"AdminAuthRequired", "AdminInvalidCredentials"} -> 401
      [] code \in {"AdminCsrfRequired", "AdminSetupRequired"} -> 403
      [] code \in {"AdminRouteNotFound", "CertificateNotFound"} -> 404
      [] code \in {"AdminSetupAlreadyComplete", "ConfigRevisionNotFound",
                   "TrustBundleReferenced"} -> 409
      [] code \in {"AcmeTermsNotAccepted", "AuditCursorInvalid", "CertificateInvalid",
                   "ConfigInvalid", "HttpMalformedRequest"} -> 400
      [] code = "AdminEndpointNotImplemented" -> 501
      [] OTHER -> 500
Result(r, effect) ==
    IF r.result = "ok" THEN [NoAnswer EXCEPT !.status = 200, !.effect = effect]
                       ELSE Answer(HttpStatusForError(r.result))

Verify(srv, session) == session \in DOMAIN srv.sessions
VerifyCsrf(srv, session, token) == Verify(srv, session) /\ srv.sessions[session] = token
RequireSession(srv, r) == r.session # <<>> /\ Verify(srv, r.session[1])
RequireCsrf(srv, r) ==
    r.session # <<>> /\ r.csrf # <<>> /\ VerifyCsrf(srv, r.session[1], r.csrf[1])

Read(srv, r, answer) == IF RequireSession(srv, r) THEN answer ELSE Answer(401)
Mutation(srv, r, answer) ==
    Read(srv, r, IF RequireCsrf(srv, r) THEN answer ELSE Answer(403))

(* An operation on the ledger: no intent, no effect; a terminal record     *)
(* that fails turns the answer into a 503, whatever was done.              *)
AuditSafe(id) == Len(id) = 1 /\ id[1] # ""
Audited(srv, action, answer) ==
    IF ~srv.admitted THEN Answer(503)
    ELSE [answer EXCEPT !.intent = action, !.status = IF srv.records THEN @ ELSE 503]

(* The actions that each kind of operation accepts.                        *)
ConfigAuditOperation == {"config.apply", "config.rollback"}
ProxyHostAuditOperation == {"proxy_host.create", "proxy_host.update", "proxy_host.delete"}
CertificateAuditOperation ==
    {"certificate.issue", "certificate.renew", "certificate.import", "certificate.install"}
TrustAuditOperation == {"trust_bundle.import", "trust_bundle.delete"}
AdminSetupAuditOperation == {"admin.setup"}
SecurityObservation ==
    {"admin.login.success", "admin.logout", "admin.lockout", "admin.auth.failure_sampled"}

-----------------------------------------------------------------------------
(* Open to everyone: assets, status and the probes *)

HandleStaticAdminAsset(r) ==
    r.method = "GET" /\ r.path \in {<<"/">>, <<"/index.html">>, <<"/styles.css">>, <<"/app.js">>}
IsStatus(r) == r.method = "GET" /\ r.path = <<"status">>
IsProbe(r) == r.method = "GET" /\ r.path \in {<<"health", "live">>, <<"health", "ready">>}

Liveness(lifecycle) == lifecycle \in {"starting", "ready", "draining"}
Readiness(lifecycle, facts) ==
    lifecycle = "ready" /\ facts = {"active_snapshot", "listener", "command_path"}
HandleOperationalProbeHttp(srv, r) ==
    Answer(IF \/ r.path[2] = "live" /\ Liveness(srv.lifecycle)
              \/ r.path[2] = "ready" /\ Readiness(srv.lifecycle, srv.facts)
           THEN 200 ELSE 503)

-----------------------------------------------------------------------------
(* Support bundles, and the reads *)

CreateSupportBundle(srv, r) ==
    Mutation(srv, r, IF r.result = "ok" THEN Result(r, "support") ELSE Answer(422))
IsSupportBundle(r) == r.method = "POST" /\ r.path = <<"support-bundles">>

HandleUpstreamHealthHttp(srv, r) == Read(srv, r, Result(r, "none"))
IsUpstreamHealth(r) == r.method = "GET" /\ r.path = <<"upstream-health">>

(* Metrics answers about its path before it asks for a session.            *)
HandleMetricsHttp(srv, r) ==
    IF r.path # <<"metrics">> THEN Answer(404)
    ELSE IF r.query # <<>> THEN Answer(400)
    ELSE Read(srv, r, Result(r, "none"))
IsMetrics(r) == r.method = "GET" /\ r.path[1] = "metrics"

(* The query of an audit read: a sequence of <<key, value>>.  A cursor is  *)
(* <<"v1.", generation, sequence>>, as the page before it spelled it.      *)
EncodeAuditCursor(cursor) == <<"v1.", cursor.generation, cursor.before>>
DecodeAuditCursor(value) ==
    IF Len(value) # 3 \/ Head(value) # "v1." THEN <<>>
    ELSE <<[generation |-> value[2], before |-> value[3]]>>
AuditActions ==
    ConfigAuditOperation \cup ProxyHostAuditOperation \cup CertificateAuditOperation
    \cup TrustAuditOperation \cup AdminSetupAuditOperation \cup SecurityObservation
    \cup {"maintenance.restore_imported", "system.trailing_recovery", "audit.retention.checkpoint"}
AuditOutcomes ==
    {"succeeded", "failed", "observed", "reconciled_committed", "reconciled_not_committed",
     "reconciliation_unknown"}
AuditTargetKinds ==
    {"config_revision", "proxy_host", "certificate", "trust_bundle", "admin_account",
     "restore", "audit_ledger"}
AuditValue(key, value) ==
    CASE key = "action" -> value \in AuditActions
      [] key = "outcome" -> value \in AuditOutcomes
      [] key = "target_kind" -> value \in AuditTargetKinds
      [] key = "limit" -> value \in 1..100
      [] key \in {"from", "to"} -> value \in Nat
      [] key = "cursor" -> DecodeAuditCursor(value) # <<>>
      [] OTHER -> FALSE
ParseAuditQuery(pairs) ==
    /\ \A i \in DOMAIN pairs : AuditValue(pairs[i][1], pairs[i][2])
    /\ \A i, j \in DOMAIN pairs :
          /\ pairs[i][1] = pairs[j][1] => i = j
          /\ pairs[i][1] = "from" /\ pairs[j][1] = "to" => pairs[i][2] <= pairs[j][2]
HandleAuditQueryHttp(srv, r) ==
    Read(srv, r, IF ParseAuditQuery(r.query) THEN Result(r, "none") ELSE Answer(400))
IsAudit(r) == r.method = "GET" /\ r.path = <<"audit">>

(* Certificates and logs.                                                  *)
CertificateRefFromGetPath(path) == Len(path) = 2 /\ path[2] # ""
HandleCertificateListHttp(srv, r) ==
    Read(srv, r, IF r.result = "ok" THEN Answer(200) ELSE Answer(500))
HandleCertificateGetHttp(srv, r) ==
    Read(srv, r, IF ~CertificateRefFromGetPath(r.path) THEN Answer(404)
                 ELSE IF r.result \in {"ok", "CertificateNotFound"} THEN Result(r, "none")
                 ELSE Answer(500))
HandleAccessLogsHttp(srv, r) == Read(srv, r, Answer(200))
HandleErrorLogsHttp(srv, r) == Read(srv, r, Answer(200))
IsObservabilityRequest(r) ==
    r.method = "GET" /\ \/ r.path[1] = "certificates"
                        \/ r.path \in {<<"logs", "access">>, <<"logs", "errors">>}
HandleObservabilityRequest(srv, r) ==
    CASE r.path = <<"certificates">> -> HandleCertificateListHttp(srv, r)
      [] r.path = <<"logs", "access">> -> HandleAccessLogsHttp(srv, r)
      [] r.path = <<"logs", "errors">> -> HandleErrorLogsHttp(srv, r)
      [] OTHER -> HandleCertificateGetHttp(srv, r)

-----------------------------------------------------------------------------
(* Trust bundles: the service behind the handler keeps the ledger.         *)

IsTrustBundleRequest(r) ==
    \/ r.method \in {"GET", "POST"} /\ r.path = <<"trust-bundles">>
    \/ r.method = "DELETE" /\ Len(r.path) >= 2 /\ r.path[1] = "trust-bundles"
TrustAudited(srv, r) ==
    IF ~AuditSafe(r.id) THEN Answer(400)
    ELSE Audited(srv, IF r.method = "POST" THEN "trust_bundle.import" ELSE "trust_bundle.delete",
                 Result(r, "trust"))
HandleTrustBundleHttp(srv, r) ==
    IF r.method = "GET" THEN Read(srv, r, Result(r, "none"))
    ELSE Mutation(srv, r,
            IF r.method = "POST"
               THEN IF r.body = "malformed" THEN Answer(400) ELSE TrustAudited(srv, r)
               ELSE IF ~AuditSafe(Tail(r.path)) THEN Answer(400)
                    ELSE TrustAudited(srv, [r EXCEPT !.id = <<"trust-delete">>]))

-----------------------------------------------------------------------------
(* Certificates: the dispatcher checks session and token to decide whether *)
(* it opens an intent, the handler checks them to decide whether it acts.  *)

IsCertificateMutation(r) ==
    /\ r.method = "POST" /\ Len(r.path) >= 2 /\ r.path[1] = "certificates"
    /\ Last(r.path) \in {"issue", "renew", "import"}
CertificateRefFromMutationPath(path) == AuditSafe(SubSeq(path, 2, Len(path) - 1))
CertificateTarget(path) ==
    LET ref == SubSeq(path, 2, Len(path) - 1)
    IN  IF ref \in {<<>>, <<"">>} THEN <<"unknown">> ELSE ref

CertificateAction(path) ==
    CASE Last(path) = "renew" -> "certificate.renew"
      [] Last(path) = "import" -> "certificate.import"
      [] OTHER -> "certificate.issue"

HandleCertificateIssueHttp(srv, r) ==
    Mutation(srv, r, IF ~CertificateRefFromMutationPath(r.path) THEN Answer(404)
                     ELSE IF r.body = "malformed" THEN Answer(400)
                     ELSE Result(r, "certificate"))
HandleCertificateRenewHttp(srv, r) == HandleCertificateIssueHttp(srv, r)
HandleCertificateImportHttp(srv, r) == HandleCertificateIssueHttp(srv, r)
HandleCertificate(srv, r) ==
    CASE Last(r.path) = "import" -> HandleCertificateImportHttp(srv, r)
      [] Last(r.path) = "issue" -> HandleCertificateIssueHttp(srv, r)
      [] Last(r.path) = "renew" -> HandleCertificateRenewHttp(srv, r)

(* Mutant: the intent is decided on the session alone.                     *)
IntentForSession(srv, r) == RequireSession(srv, r)

IntentIsDue(srv, r) == RequireSession(srv, r) /\ RequireCsrf(srv, r)
CertificateMutation(srv, r) ==
    IF ~IntentIsDue(srv, r) THEN HandleCertificate(srv, r)
    ELSE IF ~AuditSafe(r.id) \/ ~AuditSafe(CertificateTarget(r.path)) THEN NoAnswer
    ELSE Audited(srv, CertificateAction(r.path), HandleCertificate(srv, r))

-----------------------------------------------------------------------------
(* Configuration and proxy hosts *)

IsBoundLifecycleRequest(r) ==
    \/ r.method = "POST" /\ r.path \in {<<"proxy-hosts">>, <<"config", "apply">>,
                                       <<"config", "rollback">>}
    \/ r.method \in {"PATCH", "DELETE"} /\ Len(r.path) >= 2 /\ r.path[1] = "proxy-hosts"
(* What the record is about: the request, what its body names, or a host,  *)
(* and the revision it starts from, whose id must fit too.                 *)
LifecycleAuditTarget(r) ==
    CASE r.path = <<"config", "apply">> -> r.id
      [] r.path \in {<<"config", "rollback">>, <<"proxy-hosts">>} ->
            IF r.body = "malformed" THEN <<>> ELSE <<r.body>>
      [] OTHER -> Tail(r.path)
LifecycleAuditAction(r) ==
    CASE r.path = <<"config", "apply">> -> "config.apply"
      [] r.path = <<"config", "rollback">> -> "config.rollback"
      [] r.path = <<"proxy-hosts">> -> "proxy_host.create"
      [] r.method = "PATCH" -> "proxy_host.update"
      [] OTHER -> "proxy_host.delete"
LifecycleAuditOperation(srv, r) ==
    AuditSafe(r.id) /\ srv.fits /\ AuditSafe(LifecycleAuditTarget(r))
HandleBoundLifecycleRequest(srv, r) == Mutation(srv, r, Result(r, "lifecycle"))
HandleAuditedLifecycleRequest(srv, r) ==
    IF ~RequireSession(srv, r) \/ ~RequireCsrf(srv, r) THEN HandleBoundLifecycleRequest(srv, r)
    ELSE IF ~LifecycleAuditOperation(srv, r) THEN Answer(400)
    ELSE Audited(srv, LifecycleAuditAction(r), HandleBoundLifecycleRequest(srv, r))

-----------------------------------------------------------------------------
(* Setup, login, logout, and what is left *)

HandleSetup(srv, r) ==
    IF srv.configured \/ srv.stored THEN Answer(409)
    ELSE IF r.body = "malformed" THEN Answer(400)
    ELSE IF r.result = "ok" THEN Result(r, "setup") ELSE Answer(500)
HandleLogin(srv, r) ==
    IF r.body = "malformed" THEN Answer(400) ELSE Result(r, "login")
HandleLogout(srv, r) == Mutation(srv, r, Result(r, "logout"))

IsMutationRoute(r) ==
    \/ r.method \in {"PATCH", "DELETE"}
    \/ r.method = "POST" /\ r.path \in {<<"config", "apply">>, <<"config", "rollback">>,
                                       <<"proxy-hosts">>, <<"trust-bundles">>, <<"logout">>}
    \/ IsCertificateMutation(r)

HandleConfigGetHttp(srv, r) == Read(srv, r, Answer(200))
HandleConfigValidateHttp(srv, r) == Read(srv, r, Answer(200))
HandleConfigDiffHttp(srv, r) == Read(srv, r, Answer(200))
HandleProxyHostRead(srv, r) ==
    Read(srv, r, IF r.path = <<"proxy-hosts">> THEN Answer(200)
                 ELSE IF Len(r.path) = 2 /\ r.path[2] # "" /\ r.result = "ok" THEN Answer(200)
                 ELSE Answer(404))
HandleHttpRequest(srv, r) ==
    CASE r.method = "GET" /\ r.path = <<"health">> -> Answer(200)
      [] r.method = "GET" /\ r.path = <<"config">> -> HandleConfigGetHttp(srv, r)
      [] r.method = "POST" /\ r.path = <<"config", "validate">> -> HandleConfigValidateHttp(srv, r)
      [] r.method = "POST" /\ r.path = <<"config", "diff">> -> HandleConfigDiffHttp(srv, r)
      [] r.method = "GET" /\ r.path[1] = "proxy-hosts" -> HandleProxyHostRead(srv, r)
      [] IsMutationRoute(r) -> Mutation(srv, r, Answer(501))
      [] OTHER -> Answer(404)

IsSetup(r) == r.method = "POST" /\ r.path = <<"setup">>
HandleStatefulHttpRequest(srv, r) ==
    CASE IsSetup(r) -> HandleSetup(srv, r)
      [] r.method = "POST" /\ r.path = <<"login">> ->
            IF srv.configured THEN HandleLogin(srv, r) ELSE Answer(403)
      [] r.method = "POST" /\ r.path = <<"logout">> ->
            IF srv.configured THEN HandleLogout(srv, r) ELSE Answer(403)
      [] OTHER -> IF ~srv.configured /\ IsMutationRoute(r) THEN Answer(403)
                  ELSE HandleHttpRequest(srv, r)
SetupAudited(srv, r) ==
    IF ~IsSetup(r) THEN HandleStatefulHttpRequest(srv, r)
    ELSE IF ~AuditSafe(r.id) THEN NoAnswer
    ELSE Audited(srv, "admin.setup", HandleStatefulHttpRequest(srv, r))

HandleAdminHttpStream(srv, r) ==
    CASE HandleStaticAdminAsset(r) -> Answer(200)
      [] IsStatus(r) -> Answer(200)
      [] IsProbe(r) -> HandleOperationalProbeHttp(srv, r)
      [] IsSupportBundle(r) -> CreateSupportBundle(srv, r)
      [] IsUpstreamHealth(r) -> HandleUpstreamHealthHttp(srv, r)
      [] IsMetrics(r) -> HandleMetricsHttp(srv, r)
      [] IsAudit(r) -> HandleAuditQueryHttp(srv, r)
      [] IsTrustBundleRequest(r) -> HandleTrustBundleHttp(srv, r)
      [] IsObservabilityRequest(r) -> HandleObservabilityRequest(srv, r)
      [] IsCertificateMutation(r) /\ srv.configured -> CertificateMutation(srv, r)
      [] IsBoundLifecycleRequest(r) /\ srv.configured -> HandleAuditedLifecycleRequest(srv, r)
      [] OTHER -> SetupAudited(srv, r)
=============================================================================

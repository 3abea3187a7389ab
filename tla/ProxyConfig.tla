----------------------------- MODULE ProxyConfig -----------------------------
(***************************************************************************)
(* Configurations as text and as snapshots: parsing and normalization,     *)
(* validation, rendering, the difference of two snapshots, route           *)
(* selection, and the route and service a proxy host stands for.           *)
(*                                                                         *)
(* A text is a sequence of lines <<"[[", name>>, <<"[", name>>,            *)
(* <<"=", key, value>> and <<"junk">>.  A value is <<v>>, or <<>> when it  *)
(* does not decode as the type of its key.  Ids and host names are tuples  *)
(* of pieces (<<>> is empty), a path is a tuple of "/" and names, an       *)
(* optional value is <<>> or <<v>>.                                        *)
(***************************************************************************)
EXTENDS Integers, FiniteSets, FiniteSetsExt, SequencesExt, TLC

Get(f, key, default) == IF key \in DOMAIN f THEN f[key] ELSE default
Opt(f, key) == IF key \in DOMAIN f THEN <<f[key]>> ELSE <<>>
Set(f, key, v) == (key :> v) @@ f
NoFields == [k \in {} |-> <<>>]

-----------------------------------------------------------------------------
(* Hosts, paths and endpoints *)

(* A host is spelled with or without capitals and a final dot.             *)
NormalizeHost(host) == host.name
Spelled(name) == [name |-> name, shouted |-> FALSE]

(* "" becomes "/", a path without a leading slash gets one, and trailing   *)
(* slashes go: also the one of "//", which leaves the empty path.          *)
TrimSlashes(p) == SubSeq(p, 1, Max({0} \cup {i \in DOMAIN p : p[i] # "/"}))
NormalizePath(path) ==
    LET slashed == IF path = <<>> THEN <<"/">>
                   ELSE IF Head(path) = "/" THEN path ELSE <<"/">> \o path
    IN  IF Len(slashed) > 1 THEN TrimSlashes(slashed) ELSE slashed

PathMatches(m, path) ==
    LET p == NormalizePath(path)
    IN  IF m.exact THEN p = m.path
        ELSE \/ m.path = <<"/">> \/ p = m.path
             \/ IsPrefix(m.path, p) /\ p[Len(m.path) + 1] = "/"

(* UpstreamEndpoint::parse: HTTP or HTTPS, an address that is a literal,   *)
(* an optional port that is not zero (-1: none), a base path.              *)
EndpointOk(url) == url.scheme \in {"http", "https"} /\ url.literal /\ url.port # 0
DefaultPort(scheme) == IF scheme = "http" THEN 80 ELSE 443
Endpoint(url) == [url EXCEPT !.port = IF @ = -1 THEN DefaultPort(url.scheme) ELSE @]

-----------------------------------------------------------------------------
(* Policies: the ranges their constructors accept, and their defaults.     *)

DefaultRetry == [enabled |-> FALSE, max_retries |-> 1, max_replay_bytes |-> 32768]
RetryOk(r) ==
    /\ r.max_retries <= 1
    /\ r.enabled => r.max_retries = 1
    /\ r.max_replay_bytes \in 1024..65536

PassiveOk(p) == p.failure_threshold \in 1..10 /\ p.ejection_ms \in 1000..86400000

DefaultHealth == [path |-> <<"/", "health">>, interval_ms |-> 10000, timeout_ms |-> 2000,
                  healthy_threshold |-> 2, unhealthy_threshold |-> 3,
                  status_min |-> 200, status_max |-> 399]
HealthOk(h) ==
    /\ h.path # <<>> /\ Head(h.path) = "/"
    /\ h.interval_ms \in 1000..86400000 /\ h.timeout_ms \in 100..30000
    /\ h.timeout_ms < h.interval_ms
    /\ h.healthy_threshold \in 1..10 /\ h.unhealthy_threshold \in 1..10
    /\ h.status_min \in 100..599 /\ h.status_max \in 100..599 /\ h.status_min <= h.status_max

MiB == 1048576
ResourcesOk(connections, bytes) ==
    /\ connections \in 1..4096
    /\ bytes \in 16 * MiB..512 * MiB
    /\ bytes >= connections * (16384 + 65536)
TimeoutOk(ms) == ms \in 10..120000

(* normalize_client_auth_policy: what a listener may say of its clients.   *)
ClientAuthOk(schema, protocol, auth, trust) ==
    \/ schema = 1 /\ auth = <<>> /\ trust = <<>>
    \/ schema = 2 /\ protocol = "http" /\ auth = <<>> /\ trust = <<>>
    \/ schema = 2 /\ protocol = "https" /\ auth \in {<<>>, <<"disabled">>} /\ trust = <<>>
    \/ schema = 2 /\ protocol = "https" /\ auth = <<"required">> /\ Len(trust) = 1
(* normalize_upstream_tls_policy: all three fields for HTTPS, else none.   *)
UpstreamTlsOk(schema, url, fields) ==
    /\ EndpointOk(url)
    /\ \/ schema \in {1, 2} /\ url.scheme = "http" /\ \A i \in 1..3 : fields[i] = <<>>
       \/ schema = 2 /\ url.scheme = "https" /\ \A i \in 1..3 : Len(fields[i]) = 1

-----------------------------------------------------------------------------
(* Parsing: a draft of fields, filled line by line, then normalized.       *)

PolicySections == {"services.health_check", "services.retry", "services.passive_health"}
PolicyOf(section) == CASE section = "services.health_check" -> "health"
                       [] section = "services.retry" -> "retry"
                       [] section = "services.passive_health" -> "passive"
Keys(section) ==
    CASE section = "" -> {"schema_version"}
      [] section = "admin" -> {"bind", "enabled"}
      [] section = "logging" -> {"mode"}
      [] section = "storage" -> {"data_dir"}
      [] section = "runtime" -> {"max_connections", "max_inflight_payload_bytes",
                                 "upstream_read_timeout_ms"}
      [] section = "metrics" -> {"enabled", "bind"}
      [] section = "listeners" -> {"name", "bind", "protocol", "client_auth",
                                   "client_trust_bundle_ref"}
      [] section = "services" -> {"name", "load_balancer"}
      [] section = "services.health_check" -> {"enabled"} \cup DOMAIN DefaultHealth
      [] section = "services.retry" -> DOMAIN DefaultRetry
      [] section = "services.passive_health" -> {"enabled", "failure_threshold", "ejection_ms"}
      [] section = "services.upstreams" -> {"name", "url", "administrative_state",
                     "tls_server_name", "upstream_http_host", "tls_trust_bundle_ref"}
      [] section = "routes" -> {"name", "hosts", "paths", "exact_paths", "service", "priority",
                                "enabled", "redirect_http_to_https", "certificate_ref"}
      [] OTHER -> {}

(* current_service and current_upstream are the last ones, or none.        *)
EmptyDraft == [section |-> "", top |-> NoFields, listeners |-> <<>>, services |-> <<>>,
               routes |-> <<>>, inService |-> FALSE, inUpstream |-> FALSE,
               unknown |-> FALSE, err |-> FALSE]
Failed(d) == [d EXCEPT !.err = TRUE]

OpenTable(d, name) ==
    CASE name = "listeners" -> [d EXCEPT !.listeners = Append(@, NoFields),
                                         !.inService = FALSE, !.inUpstream = FALSE]
      [] name = "services" -> [d EXCEPT !.services = Append(@, [fields |-> NoFields,
                                   health |-> <<>>, retry |-> <<>>, passive |-> <<>>,
                                   upstreams |-> <<>>]),
                                        !.inService = TRUE, !.inUpstream = FALSE]
      [] name = "services.upstreams" ->
            IF d.inService
               THEN [d EXCEPT !.services[Len(d.services)].upstreams = Append(@, NoFields),
                              !.inUpstream = TRUE]
               ELSE Failed(d)
      [] name = "routes" -> [d EXCEPT !.routes = Append(@, NoFields),
                                      !.inService = FALSE, !.inUpstream = FALSE]
      [] OTHER -> [d EXCEPT !.inUpstream = FALSE, !.unknown = TRUE]

OpenSection(d, name) ==
    IF name \notin PolicySections THEN [d EXCEPT !.inService = FALSE, !.inUpstream = FALSE]
    ELSE IF ~d.inService THEN Failed(d)
    ELSE [d EXCEPT !.inUpstream = FALSE,
                   !.services[Len(d.services)][PolicyOf(name)] =
                       IF @ = <<>> THEN <<NoFields>> ELSE @]

HasElement(d) ==
    CASE d.section = "listeners" -> d.listeners # <<>>
      [] d.section = "routes" -> d.routes # <<>>
      [] d.section = "services" -> d.inService
      [] d.section = "services.upstreams" -> d.inUpstream
      [] OTHER -> TRUE

PathsOf(value, exact) == [i \in DOMAIN value |-> [path |-> NormalizePath(value[i]), exact |-> exact]]

Store(d, key, v) ==
    LET s == Len(d.services)
        r == Len(d.routes)
    IN  CASE d.section = "listeners" -> [d EXCEPT !.listeners[Len(d.listeners)] = Set(@, key, v)]
          [] d.section = "services" -> [d EXCEPT !.services[s].fields = Set(@, key, v)]
          [] d.section \in PolicySections ->
                [d EXCEPT !.services[s][PolicyOf(d.section)] =
                     <<Set(IF @ = <<>> THEN NoFields ELSE @[1], key, v)>>]
          [] d.section = "services.upstreams" ->
                [d EXCEPT !.services[s].upstreams[Len(d.services[s].upstreams)] = Set(@, key, v)]
          [] d.section = "routes" /\ key \in {"paths", "exact_paths"} ->
                [d EXCEPT !.routes[r] =
                     Set(@, "paths", Get(@, "paths", <<>>) \o PathsOf(v, key = "exact_paths"))]
          [] d.section = "routes" /\ key \notin {"paths", "exact_paths"} ->
                [d EXCEPT !.routes[r] = Set(@, key, v)]
          [] OTHER -> [d EXCEPT !.top = Set(@, <<d.section, key>>, v)]

ApplyMvpConfigValue(d, key, value) ==
    IF d.section \in PolicySections /\ ~d.inService THEN Failed(d)
    ELSE IF key \notin Keys(d.section) THEN [d EXCEPT !.unknown = TRUE]
    ELSE IF ~HasElement(d)
         THEN IF d.section = "services.upstreams" \/ key \in {"client_auth", "client_trust_bundle_ref"}
              THEN Failed(d) ELSE d
    ELSE IF <<d.section, key>> \in {<<"admin", "enabled">>, <<"storage", "data_dir">>} THEN d
    ELSE IF value = <<>> THEN Failed(d)
    ELSE Store(d, key, value[1])

ApplyLine(d, line) ==
    IF d.err THEN d
    ELSE CASE line[1] = "[[" -> OpenTable([d EXCEPT !.section = line[2]], line[2])
           [] line[1] = "[" -> OpenSection([d EXCEPT !.section = line[2]], line[2])
           [] line[1] = "=" -> ApplyMvpConfigValue(d, line[2], line[3])
           [] OTHER -> Failed(d)

(* A bind address: what it is, and whether it parses and is loopback.      *)
Loopback(at) == [at |-> at, ok |-> TRUE, loopback |-> TRUE]
NoBind == [at |-> "", ok |-> FALSE, loopback |-> FALSE]

ListenerOf(f) ==
    [id |-> Get(f, "name", <<>>), bind |-> Get(f, "bind", NoBind),
     protocol |-> Get(f, "protocol", "http"), trust |-> Opt(f, "client_trust_bundle_ref")]
ListenerOk(schema, f) ==
    ClientAuthOk(schema, Get(f, "protocol", "http"), Opt(f, "client_auth"),
                 Opt(f, "client_trust_bundle_ref"))

NoUrl == [scheme |-> "", ip |-> "", literal |-> FALSE, port |-> -1, base |-> <<>>]
TlsFields(f) == <<Opt(f, "tls_server_name"), Opt(f, "upstream_http_host"),
                  Opt(f, "tls_trust_bundle_ref")>>
UpstreamOf(f) ==
    [id |-> Get(f, "name", <<>>), url |-> Get(f, "url", NoUrl),
     draining |-> Get(f, "administrative_state", "active") = "draining",
     tls |-> IF "tls_server_name" \in DOMAIN f
             THEN <<[server |-> f["tls_server_name"], host |-> f["upstream_http_host"],
                     trust |-> f["tls_trust_bundle_ref"]]>>
             ELSE <<>>]

(* normalize_upstream_ids: only a single upstream may be left unnamed.     *)
NameUpstreams(id, upstreams) ==
    IF Len(upstreams) = 1 /\ upstreams[1].id = <<>>
       THEN <<[upstreams[1] EXCEPT !.id = id \o <<"primary">>]>>
       ELSE upstreams

(* normalize_service_policies, normalize_failure_policies *)
HealthOf(f) == [k \in DOMAIN DefaultHealth |-> Get(f, k, DefaultHealth[k])]
RetryOf(f) == [k \in DOMAIN DefaultRetry |-> Get(f, k, DefaultRetry[k])]
PassiveOf(f) == [failure_threshold |-> Get(f, "failure_threshold", 3),
                 ejection_ms |-> Get(f, "ejection_ms", 30000)]
EnabledPolicy(draft) == draft # <<>> /\ Get(draft[1], "enabled", FALSE)
ServiceOf(d) ==
    LET id == Get(d.fields, "name", <<>>)
    IN  [id |-> id,
         upstreams |-> NameUpstreams(id, [i \in DOMAIN d.upstreams |-> UpstreamOf(d.upstreams[i])]),
         health |-> IF EnabledPolicy(d.health) THEN <<HealthOf(d.health[1])>> ELSE <<>>,
         retry |-> IF d.retry # <<>> THEN RetryOf(d.retry[1]) ELSE DefaultRetry,
         passive |-> IF EnabledPolicy(d.passive) THEN <<PassiveOf(d.passive[1])>> ELSE <<>>]
ServiceOk(schema, d) ==
    /\ \A i \in DOMAIN d.upstreams :
          UpstreamTlsOk(schema, Get(d.upstreams[i], "url", NoUrl), TlsFields(d.upstreams[i]))
    /\ Len(d.upstreams) > 1 =>
          \A i \in DOMAIN d.upstreams : Get(d.upstreams[i], "name", <<>>) # <<>>
    /\ EnabledPolicy(d.health) => HealthOk(HealthOf(d.health[1]))
    /\ d.retry # <<>> => RetryOk(RetryOf(d.retry[1]))
    /\ EnabledPolicy(d.passive) => PassiveOk(PassiveOf(d.passive[1]))

RouteOf(f) ==
    LET hosts == Get(f, "hosts", <<>>)
    IN  [id |-> Get(f, "name", <<>>), hosts |-> [i \in DOMAIN hosts |-> NormalizeHost(hosts[i])],
         paths |-> Get(f, "paths", <<>>), service |-> Get(f, "service", <<>>),
         priority |-> Get(f, "priority", 0), enabled |-> Get(f, "enabled", TRUE),
         redirect |-> Get(f, "redirect_http_to_https", FALSE),
         resolver |-> FALSE, certificate |-> Opt(f, "certificate_ref")]

SnapshotOf(d) ==
    [schema |-> Get(d.top, <<"", "schema_version">>, 0),
     admin |-> Get(d.top, <<"admin", "bind">>, Loopback("9443")),
     mode |-> Get(d.top, <<"logging", "mode">>, "product"),
     connections |-> Get(d.top, <<"runtime", "max_connections">>, 1024),
     bytes |-> Get(d.top, <<"runtime", "max_inflight_payload_bytes">>, 128 * MiB),
     timeout |-> Get(d.top, <<"runtime", "upstream_read_timeout_ms">>, 30000),
     metrics |-> [enabled |-> Get(d.top, <<"metrics", "enabled">>, FALSE),
                  bind |-> Get(d.top, <<"metrics", "bind">>, Loopback("9464"))],
     listeners |-> [i \in DOMAIN d.listeners |-> ListenerOf(d.listeners[i])],
     services |-> [i \in DOMAIN d.services |-> ServiceOf(d.services[i])],
     routes |-> [i \in DOMAIN d.routes |-> RouteOf(d.routes[i])]]

(* parse_mvp_config: <<>>, or the snapshot with what validate_source asks. *)
ParseMvpConfig(text) ==
    LET upTo[n \in 0..Len(text)] ==
            IF n = 0 THEN EmptyDraft ELSE ApplyLine(upTo[n - 1], text[n])
        d == upTo[Len(text)]
        schema == Get(d.top, <<"", "schema_version">>, 0)
    IN  IF /\ ~d.err
           /\ \A i \in DOMAIN d.listeners : ListenerOk(schema, d.listeners[i])
           /\ \A i \in DOMAIN d.services : ServiceOk(schema, d.services[i])
        THEN <<[snapshot |-> SnapshotOf(d), unknown |-> d.unknown,
                versioned |-> <<"", "schema_version">> \in DOMAIN d.top]>>
        ELSE <<>>

-----------------------------------------------------------------------------
(* Validation *)

(* The certificate resolvers of a parsed snapshot are always none and its  *)
(* auth_required is always set, so their checks never fire.                *)
ListenersOk(s) ==
    /\ \A i, j \in DOMAIN s.listeners : i # j => s.listeners[i].id # s.listeners[j].id
    /\ \A i \in DOMAIN s.listeners :
          s.listeners[i].bind.ok /\ s.listeners[i].bind.at # s.admin.at
    /\ s.admin.ok
    /\ s.metrics.enabled => s.metrics.bind.ok /\ s.metrics.bind.loopback

(* (The cloud metadata address, which is refused too, is not among the     *)
(* addresses here.)                                                        *)
ServicesOk(s) ==
    \A i \in DOMAIN s.services :
        LET us == s.services[i].upstreams
        IN  /\ \E u \in DOMAIN us : ~us[u].draining
            /\ \A u \in DOMAIN us :
                  /\ us[u].id # <<>> /\ EndpointOk(us[u].url)
                  /\ (us[u].url.scheme = "https") <=> (us[u].tls # <<>>)
                  /\ s.schema = 1 => us[u].url.scheme = "http"
            /\ \A u, v \in DOMAIN us : u # v =>
                  /\ us[u].id # us[v].id
                  /\ Endpoint(us[u].url) # Endpoint(us[v].url)


(* Keys are host and path; being exact does not tell them apart.           *)
RouteKeys(s) ==
    UNION {{i} \X (DOMAIN s.routes[i].hosts) \X (DOMAIN s.routes[i].paths) : i \in DOMAIN s.routes}
KeyOf(s, k) == <<s.routes[k[1]].hosts[k[2]], s.routes[k[1]].paths[k[3]].path>>
RoutesOk(s) ==
    LET ids == {s.services[i].id : i \in DOMAIN s.services}
    IN  /\ \A i, j \in DOMAIN s.routes : i # j => s.routes[i].id # s.routes[j].id
        /\ \A i \in DOMAIN s.routes :
              /\ s.routes[i].hosts # <<>> /\ s.routes[i].paths # <<>>
              /\ s.routes[i].service \in ids
              /\ s.routes[i].redirect => s.routes[i].certificate # <<>> \/ s.routes[i].resolver
        /\ \A k, l \in RouteKeys(s) : k # l => KeyOf(s, k) # KeyOf(s, l)

ValidateSnapshot(s) ==
    /\ ResourcesOk(s.connections, s.bytes) /\ TimeoutOk(s.timeout)
    /\ ListenersOk(s) /\ ServicesOk(s) /\ RoutesOk(s)

-----------------------------------------------------------------------------
(* Rendering *)

Line(key, v) == <<"=", key, <<v>>>>
Lines(f, keys) == [i \in DOMAIN keys |-> Line(keys[i], f[keys[i]])]
RenderOpt(key, opt) == IF opt = <<>> THEN <<>> ELSE <<Line(key, opt[1])>>
Each(Render(_), seq) ==
    LET upTo[n \in 0..Len(seq)] == IF n = 0 THEN <<>> ELSE upTo[n - 1] \o Render(seq[n])
    IN  upTo[Len(seq)]
HealthKeys == <<"path", "interval_ms", "timeout_ms", "healthy_threshold",
                "unhealthy_threshold", "status_min", "status_max">>
RetryKeys == <<"enabled", "max_retries", "max_replay_bytes">>

(* Strings are written between quotes as they are, and a text is read line *)
(* by line.  Four pieces that a string of a JSON body may hold matter to   *)
(* that: a comma splits an array, a line feed leaves a value unclosed, and *)
(* a line feed after a closing quote (and a bracket) ends the value early: *)
(* what follows it, here a key and the pieces of its value, is read as a   *)
(* line of its own.  Host names, paths and the names of upstreams may hold *)
(* them, a path or a name at most one; the characters of host ids, URLs    *)
(* and health-check paths are checked before, and a text has no such line. *)
Comma == "comma"
Feed == "feed"
QuoteFeed == "quote feed"
BracketFeed == "bracket feed"
Holds(s, pieces) == Range(s) \cap pieces # {}
Before(s, piece) == SubSeq(s, 1, SelectInSeq(s, LAMBDA e : e = piece) - 1)
After(s, piece) == SubSeq(s, SelectInSeq(s, LAMBDA e : e = piece) + 1, Len(s))

StringLine(key, s) == <<"=", key, IF Holds(s, {Feed, BracketFeed}) THEN <<>> ELSE <<s>>>>
StringLines(key, s) ==
    LET rest == After(s, QuoteFeed)
    IN  IF ~Holds(s, {QuoteFeed}) THEN <<StringLine(key, s)>>
        ELSE <<StringLine(key, Before(s, QuoteFeed)), StringLine(Head(rest), Tail(rest))>>

Items(key, items) ==
    CASE \/ key \notin {"hosts", "paths", "exact_paths"}
         \/ \E i \in DOMAIN items : Holds(items[i], {Comma, Feed, QuoteFeed}) -> <<>>
      [] key = "hosts" -> <<[i \in DOMAIN items |-> Spelled(items[i])]>>
      [] OTHER -> <<items>>
ArrayLines(key, items) ==
    LET i == SelectInSeq(items, LAMBDA item : Holds(item, {BracketFeed}))
        rest == After(items[i], BracketFeed)
    IN  IF i = 0 THEN <<<<"=", key, Items(key, items)>>>>
        ELSE <<<<"=", key, Items(key, Append(SubSeq(items, 1, i - 1), Before(items[i], BracketFeed)))>>,
               <<"=", Head(rest), Items(Head(rest), <<Tail(rest)>> \o SubSeq(items, i + 1, Len(items)))>>>>

RenderListener(l) ==
    <<<<"[[", "listeners">>, Line("name", l.id), Line("bind", l.bind), Line("protocol", l.protocol)>>
    \o (IF l.trust = <<>> THEN <<>>
         ELSE <<Line("client_auth", "required"), Line("client_trust_bundle_ref", l.trust[1])>>)

(* Mutant: the administrative state is left out.                           *)
RenderUpstreamActive(u) ==
    <<<<"[[", "services.upstreams">>>> \o StringLines("name", u.id) \o <<Line("url", u.url)>>
    \o (IF u.tls = <<>> THEN <<>>
         ELSE <<Line("tls_server_name", u.tls[1].server), Line("upstream_http_host", u.tls[1].host),
                Line("tls_trust_bundle_ref", u.tls[1].trust)>>)

RenderUpstream(u) ==
    <<<<"[[", "services.upstreams">>>> \o StringLines("name", u.id) \o <<Line("url", u.url)>>
    \o (IF u.tls = <<>> THEN <<>>
         ELSE <<Line("tls_server_name", u.tls[1].server), Line("upstream_http_host", u.tls[1].host),
                Line("tls_trust_bundle_ref", u.tls[1].trust)>>)
    \o <<Line("administrative_state", IF u.draining THEN "draining" ELSE "active")>>

RenderService(s) ==
    <<<<"[[", "services">>, Line("name", s.id), Line("load_balancer", "round_robin")>>
    \o (IF s.health = <<>> THEN <<>>
         ELSE <<<<"[", "services.health_check">>, Line("enabled", TRUE)>>
              \o Lines(s.health[1], HealthKeys))
    \o <<<<"[", "services.retry">>>> \o Lines(s.retry, RetryKeys)
    \o <<<<"[", "services.passive_health">>, Line("enabled", s.passive # <<>>)>>
    \o (IF s.passive = <<>> THEN <<Line("failure_threshold", 3), Line("ejection_ms", 30000)>>
         ELSE Lines(s.passive[1], <<"failure_threshold", "ejection_ms">>))
    \o Each(RenderUpstream, s.upstreams)

PathsWhere(r, exact) ==
    LET picked == SelectSeq(r.paths, LAMBDA m : m.exact = exact)
    IN  [i \in DOMAIN picked |-> picked[i].path]
RenderRoute(r) ==
    <<<<"[[", "routes">>, Line("name", r.id)>>
    \o ArrayLines("hosts", r.hosts) \o ArrayLines("paths", PathsWhere(r, FALSE))
    \o (IF PathsWhere(r, TRUE) = <<>> THEN <<>> ELSE ArrayLines("exact_paths", PathsWhere(r, TRUE)))
    \o <<Line("service", r.service), Line("priority", r.priority), Line("enabled", r.enabled)>>
    \o RenderOpt("certificate_ref", r.certificate)
    \o <<Line("redirect_http_to_https", r.redirect)>>

RenderMvpConfigSnapshot(s) ==
    <<Line("schema_version", s.schema), <<"[", "admin">>, Line("bind", s.admin), Line("enabled", TRUE),
      <<"[", "logging">>, Line("mode", s.mode),
      <<"[", "runtime">>, Line("max_connections", s.connections),
      Line("max_inflight_payload_bytes", s.bytes), Line("upstream_read_timeout_ms", s.timeout)>>
    \o (IF s.metrics.enabled
         THEN <<<<"[", "metrics">>, Line("enabled", TRUE), Line("bind", s.metrics.bind)>> ELSE <<>>)
    \o Each(RenderListener, s.listeners)
    \o Each(RenderService, s.services)
    \o Each(RenderRoute, s.routes)

-----------------------------------------------------------------------------
(* Route selection *)

RouteMatches(r, host, path) ==
    /\ r.enabled
    /\ host \in Range(r.hosts)
    /\ \E i \in DOMAIN r.paths : PathMatches(r.paths[i], path)

(* max_by_key of (priority, (length, exact)) over the routes that match    *)
(* takes the last one of equals.                                           *)
Key(r, m) == <<r.priority, Len(m.path), IF m.exact THEN 1 ELSE 0>>
Below(k, l) == \/ k[1] < l[1]
               \/ k[1] = l[1] /\ k[2] < l[2]
               \/ k[1] = l[1] /\ k[2] = l[2] /\ k[3] < l[3]
PathKeys(r, path) == {Key(r, r.paths[i]) : i \in {i \in DOMAIN r.paths : PathMatches(r.paths[i], path)}}
BestKey(r, path) == CHOOSE k \in PathKeys(r, path) : \A l \in PathKeys(r, path) : ~Below(k, l)
BestRoutes(s, host, path) ==
    LET fit == {i \in DOMAIN s.routes : RouteMatches(s.routes[i], host, path)}
    IN  {i \in fit : \A j \in fit : ~Below(BestKey(s.routes[i], path), BestKey(s.routes[j], path))}

AcmePrefix == <<"/", ".well-known", "/", "acme-challenge", "/">>
FindService(s, id) ==
    LET found == SelectSeq(s.services, LAMBDA service : service.id = id) IN found[1]

SelectHttpRouteAction(s, host, path) ==
    LET best == BestRoutes(s, host, path)
    IN  IF IsPrefix(AcmePrefix, path) THEN <<"challenge">>
        ELSE IF best = {} THEN <<"not found">>
        ELSE IF s.routes[Max(best)].redirect THEN <<"redirect">>
        ELSE <<"proxy", FindService(s, s.routes[Max(best)].service)>>

-----------------------------------------------------------------------------
(* Applying: what only a restart can change *)

RestartRequired(from, to) ==
    \/ from.listeners # to.listeners
    \/ from.metrics # to.metrics
    \/ <<from.connections, from.bytes, from.timeout>> # <<to.connections, to.bytes, to.timeout>>

-----------------------------------------------------------------------------
(* Proxy hosts *)

Generated(id) == <<"proxy-host">> \o id

(* A body is the sequence of its fields <<name, value>> in the order of    *)
(* its text.  health_check, retry and passive_health are records with      *)
(* their own "enabled", upstreams are records with their own "id".  (No    *)
(* string in a body spells the name of a field; the host's own name, which *)
(* must be there, is not kept.)                                            *)
Fields(body, key) == SelectSeq(body, LAMBDA f : f[1] = key)
Field(body, key, default) == IF Fields(body, key) = <<>> THEN default ELSE Fields(body, key)[1][2]

(* json_bool_field and json_string_field look for the name in the text,    *)
(* not for the field: they find the first one, at whatever depth it is.    *)
FlagsIn(f) == CASE f[1] = "enabled" -> <<f[2]>>
                [] f[1] \in {"health_check", "retry", "passive_health"} -> <<f[2].enabled>>
                [] OTHER -> <<>>
IdsIn(f) == CASE f[1] = "id" -> <<f[2]>>
              [] f[1] = "upstreams" -> [i \in DOMAIN f[2] |-> f[2][i].id]
              [] OTHER -> <<>>
RequiredFields == {"domains", "path_prefix", "https_enabled", "letsencrypt_enabled",
                   "redirect_http_to_https"}

(* A policy that is there and enabled, checked by its constructor; a retry *)
(* policy is taken as it is.                                               *)
PolicyField(body, key) ==
    LET f == Field(body, key, [enabled |-> FALSE])
    IN  IF f.enabled THEN <<[k \in DOMAIN f \ {"enabled"} |-> f[k]]>> ELSE <<>>

(* proxy_host_request_from_json: <<>>, or the host that was decoded.       *)
DecodeProxyHost(body) ==
    LET flags == Each(FlagsIn, body)
        ids == Each(IdsIn, body)
        upstreams == Field(body, "upstreams", <<>>)
        health == PolicyField(body, "health_check")
        passive == PolicyField(body, "passive_health")
    IN  IF \/ flags = <<>> \/ ids = <<>> \/ \E key \in RequiredFields : Fields(body, key) = <<>>
           \/ Fields(body, "upstream_url") = <<>> /\ upstreams = <<>>
           \/ health # <<>> /\ ~HealthOk(health[1])
           \/ passive # <<>> /\ ~PassiveOk(passive[1])
        THEN <<>>
        ELSE <<[id |-> ids[1], domains |-> Field(body, "domains", <<>>),
                path |-> Field(body, "path_prefix", <<>>),
                url |-> IF Fields(body, "upstream_url") # <<>> THEN Field(body, "upstream_url", <<>>)
                                                              ELSE upstreams[1].url,
                upstreams |-> upstreams, health |-> health, passive |-> passive,
                retry |-> Field(body, "retry", DefaultRetry),
                https |-> Field(body, "https_enabled", FALSE),
                letsencrypt |-> Field(body, "letsencrypt_enabled", FALSE),
                redirect |-> Field(body, "redirect_http_to_https", FALSE),
                enabled |-> flags[1]]>>

(* proxy_host_response_json: the order in which GET writes the fields of a *)
(* host, and the web UI those of its form.                                 *)
PolicyJson(policy) == IF policy = <<>> THEN [enabled |-> FALSE] ELSE Set(policy[1], "enabled", TRUE)
ProxyHostResponseJson(h) ==
    <<<<"id", h.id>>, <<"domains", h.domains>>, <<"path_prefix", h.path>>,
      <<"upstream_url", h.url>>, <<"upstreams", h.upstreams>>,
      <<"health_check", PolicyJson(h.health)>>, <<"retry", h.retry>>,
      <<"passive_health", PolicyJson(h.passive)>>, <<"https_enabled", h.https>>,
      <<"letsencrypt_enabled", h.letsencrypt>>, <<"redirect_http_to_https", h.redirect>>,
      <<"enabled", h.enabled>>>>

HostRoute(h) ==
    [id |-> Generated(h.id), hosts |-> [i \in DOMAIN h.domains |-> NormalizeHost(h.domains[i])],
     paths |-> <<[path |-> NormalizePath(h.path), exact |-> FALSE]>>, service |-> Generated(h.id),
     priority |-> 100, enabled |-> h.enabled, redirect |-> h.redirect,
     resolver |-> h.letsencrypt, certificate |-> IF h.https THEN <<Generated(h.id)>> ELSE <<>>]
PlainUpstream(id, url, draining) == [id |-> id, url |-> url, draining |-> draining, tls |-> <<>>]
HostService(h) ==
    [id |-> Generated(h.id),
     upstreams |-> IF h.upstreams = <<>>
                   THEN <<PlainUpstream(Generated(h.id) \o <<"primary">>, h.url, FALSE)>>
                   ELSE [i \in DOMAIN h.upstreams |->
                           PlainUpstream(h.upstreams[i].id, h.upstreams[i].url, h.upstreams[i].draining)],
     health |-> h.health, retry |-> h.retry, passive |-> h.passive]

Others(seq, id) == SelectSeq(seq, LAMBDA e : e.id # Generated(id))

(* Mutant: the host's former route goes, its former service stays.         *)
AddWithoutReplacing(s, h) ==
    [s EXCEPT !.routes = Append(Others(@, h.id), HostRoute(h)),
              !.services = Append(@, HostService(h))]

AddProxyHost(s, h) ==
    [s EXCEPT !.routes = Append(Others(@, h.id), HostRoute(h)),
              !.services = Append(Others(@, h.id), HostService(h))]
RemoveProxyHost(s, id) == [s EXCEPT !.routes = Others(@, id), !.services = Others(@, id)]
ProxyHostExists(s, id) == \E i \in DOMAIN s.routes : s.routes[i].id = Generated(id)

(* Mutant: the states of the upstreams are not shown.                      *)
ViewWithoutStates(s, id) ==
    LET mine == SelectSeq(s.routes, LAMBDA route : route.id = Generated(id))
        r == mine[1]
        v == FindService(s, r.service)
    IN  [id |-> id, domains |-> [i \in DOMAIN r.hosts |-> Spelled(r.hosts[i])],
         path |-> r.paths[1].path, url |-> v.upstreams[1].url,
         upstreams |-> [i \in DOMAIN v.upstreams |->
                          [id |-> v.upstreams[i].id, url |-> v.upstreams[i].url, draining |-> FALSE]],
         health |-> v.health, retry |-> v.retry, passive |-> v.passive,
         https |-> r.certificate # <<>>, letsencrypt |-> r.resolver,
         redirect |-> r.redirect, enabled |-> r.enabled]

(* proxy_host_response_from_generated_route: the host as GET shows it.     *)
ProxyHostView(s, id) ==
    LET mine == SelectSeq(s.routes, LAMBDA route : route.id = Generated(id))
        r == mine[1]
        v == FindService(s, r.service)
    IN  [id |-> id, domains |-> [i \in DOMAIN r.hosts |-> Spelled(r.hosts[i])],
         path |-> r.paths[1].path, url |-> v.upstreams[1].url,
         upstreams |-> [i \in DOMAIN v.upstreams |->
                          [id |-> v.upstreams[i].id, url |-> v.upstreams[i].url,
                           draining |-> v.upstreams[i].draining]],
         health |-> v.health, retry |-> v.retry, passive |-> v.passive,
         https |-> r.certificate # <<>>, letsencrypt |-> r.resolver,
         redirect |-> r.redirect, enabled |-> r.enabled]
=============================================================================

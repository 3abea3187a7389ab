---------------------------- MODULE MC_AdminApi ----------------------------
(* Two hosts, a seed with one exact and one prefix route, sources that     *)
(* need a restart, leave out or repeat something, and proxy hosts that use *)
(* every policy, ask for what the text cannot say, or are misread.         *)
EXTENDS AdminApi

Url(ip, port) == [scheme |-> "http", ip |-> ip, literal |-> TRUE, port |-> port, base |-> <<>>]
Tls(ip) == [Url(ip, -1) EXCEPT !.scheme = "https"]
Api == <<"/", "api">>
Root == <<"/">>
V1 == Api \o <<"/", "v1">>

Head1(schema, port) ==
    <<Line("schema_version", schema), <<"[", "admin">>, Line("bind", Loopback("9443")),
      <<"[[", "listeners">>, Line("name", <<"web">>), Line("bind", Loopback(port)),
      Line("protocol", "http")>>
Service1(id, url) == <<<<"[[", "services">>, Line("name", id), Line("load_balancer", "round_robin"),
                       <<"[[", "services.upstreams">>, Line("url", url)>>
Route1(id, host, paths, service) ==
    <<<<"[[", "routes">>, Line("name", id), Line("hosts", <<Spelled(<<host>>)>>),
      Line("paths", paths), Line("service", service)>>

MCSeed == Head1(1, "80") \o Service1(<<"s">>, Url("10", 80)) \o Route1(<<"r">>, "a", <<Root>>, <<"s">>)
(* Another listener, which needs a restart, and a route written by hand    *)
(* under the name of a proxy host.                                         *)
Moved == Head1(1, "81") \o Service1(<<"s">>, Url("10", 80)) \o Route1(<<"r">>, "a", <<Root>>, <<"s">>)
         \o <<<<"[[", "routes">>, Line("name", <<"proxy-host", "y">>), Line("hosts", <<Spelled(<<"a">>)>>),
              Line("paths", <<V1>>), Line("exact_paths", <<Api>>), Line("service", <<"s">>)>>
(* Two routes for one host and path.                                       *)
Twice == Head1(1, "80") \o Service1(<<"s">>, Url("10", 80)) \o Service1(<<"t">>, Url("11", 80))
         \o Route1(<<"r">>, "b", <<Root>>, <<"s">>) \o Route1(<<"q">>, "b", <<Root, Api>>, <<"t">>)
(* TLS to an upstream, and a section that nobody knows.                    *)
Secure == Head1(2, "80") \o <<<<"[[", "extras">>, Line("name", <<"x">>)>>
          \o <<<<"[[", "services">>, Line("name", <<"proxy-host", "x">>),
               <<"[", "services.health_check">>, Line("enabled", TRUE),
               <<"[[", "services.upstreams">>, Line("url", Tls("10")),
               Line("tls_server_name", "up"), Line("upstream_http_host", "up"),
               Line("tls_trust_bundle_ref", "ca")>>
          \o Route1(<<"proxy-host", "x">>, "b", <<Root>>, <<"proxy-host", "x">>)
MCSources == {MCSeed, Moved, Twice, Secure}

Host == [id |-> <<"x">>, domains |-> <<Spelled(<<"a">>)>>, path |-> Api, url |-> Url("20", 80),
         upstreams |-> <<>>, health |-> <<>>, retry |-> DefaultRetry, passive |-> <<>>,
         https |-> FALSE, letsencrypt |-> FALSE, redirect |-> FALSE, enabled |-> TRUE]
Up(id, ip, draining) == [id |-> id, url |-> Url(ip, 80), draining |-> draining]
Careful == [Host EXCEPT !.path = Api \o <<"/">>,
                        !.upstreams = <<Up(<<"p">>, "20", TRUE), Up(<<"q">>, "21", FALSE)>>,
                        !.health = <<[DefaultHealth EXCEPT !.interval_ms = 5000]>>,
                        !.retry = [DefaultRetry EXCEPT !.enabled = TRUE],
                        !.passive = <<[failure_threshold |-> 2, ejection_ms |-> 5000]>>]
Redirected == [Host EXCEPT !.id = <<"y">>, !.https = TRUE, !.redirect = TRUE,
                           !.domains = <<[name |-> <<"b">>, shouted |-> TRUE], Spelled(<<"a">>)>>]
Unsaid == [Host EXCEPT !.id = <<"y">>, !.letsencrypt = TRUE, !.redirect = TRUE]
Emptied == [Host EXCEPT !.id = <<"y">>, !.path = <<"/", "/">>]
Greedy == [Host EXCEPT !.domains = <<Spelled(<<"b">>)>>, !.path = Root,
                       !.retry = [DefaultRetry EXCEPT !.max_replay_bytes = MiB]]
Hasty == [Host EXCEPT !.passive = <<[failure_threshold |-> 0, ejection_ms |-> 5000]>>]
(* A path that goes on as another line, and an upstream whose name does.   *)
Broken == [Host EXCEPT !.id = <<"y">>, !.path = Api \o <<BracketFeed, "hosts", "b">>]
Renamed == [Host EXCEPT !.upstreams = <<Up(<<"p", QuoteFeed, "name", "q">>, "20", FALSE)>>]
Split == [Host EXCEPT !.id = <<"y">>, !.domains = <<Spelled(<<"a", Comma, "b">>)>>]

(* Bodies: the legacy form without policies, the form's own order, and     *)
(* upstreams before the id.                                                *)
Policies == {"upstreams", "health_check", "retry", "passive_health"}
Legacy(h) == SelectSeq(ProxyHostResponseJson(h), LAMBDA f : f[1] \notin Policies)
FlagFirst(h) == <<<<"enabled", h.enabled>>>> \o
                SelectSeq(ProxyHostResponseJson(h), LAMBDA f : f[1] # "enabled")
PoolFirst(h) == <<<<"upstreams", h.upstreams>>>> \o
                SelectSeq(ProxyHostResponseJson(h), LAMBDA f : f[1] # "upstreams")
MCHostRequests ==
    {Legacy(Host), ProxyHostResponseJson(Host), ProxyHostResponseJson(Careful), PoolFirst(Careful),
     FlagFirst(Redirected), Legacy(Unsaid), Legacy(Emptied), FlagFirst(Greedy), FlagFirst(Hasty),
     Legacy(Broken), FlagFirst(Renamed), Legacy(Split)}

(* Every endpoint, with and without a session and its token, and some      *)
(* paths and names that do not belong.                                     *)
Gets == {<<"status">>, <<"health", "ready">>, <<"upstream-health">>, <<"metrics">>,
         <<"metrics", "x">>, <<"audit">>, <<"trust-bundles">>, <<"certificates">>,
         <<"certificates", "c">>, <<"logs", "access">>, <<"logs", "errors">>, <<"health">>,
         <<"config">>, <<"proxy-hosts", "x">>}
Posts == {<<"support-bundles">>, <<"trust-bundles">>, <<"certificates", "c", "issue">>,
          <<"certificates", "c", "renew">>, <<"certificates", "import">>, <<"proxy-hosts">>,
          <<"config", "rollback">>, <<"config", "validate">>, <<"config", "diff">>,
          <<"setup">>, <<"login">>, <<"logout">>}
Deletes == {<<"trust-bundles", "t">>, <<"proxy-hosts", "x", "y">>, <<"proxy-hosts", "x">>,
            <<"status">>}
NoSession == <<>>
Session == <<<<"cookie", <<<<"theme", 0>>, <<"sponzey_session", 1>>>>>>>>
Token == <<<<"x-csrf-token", 1>>, <<"cookie", <<<<"sponzey_session", 1>>>>>>>>
WrongToken == <<<<"cookie", <<<<"sponzey_session", 1>>>>>>, <<"x-csrf-token", 2>>,
                <<"x-request-id", <<"a", "b">>>>>>
TwoCookies == <<<<"x-csrf-token", 1>>, <<"cookie", <<<<"sponzey_session", 1>>>>>>, <<"cookie", <<>>>>>>
Raw(method, path, headers) ==
    [method |-> method, path |-> path, version |-> "HTTP/1.1", headers |-> headers, body |-> "fine",
     query |-> IF path = <<"audit">>
                  THEN <<<<"limit", 5>>, <<"cursor", EncodeAuditCursor([generation |-> 1, before |-> 2])>>>>
                  ELSE <<>>,
     result |-> "ok"]
MCRawRequests ==
    {Raw("GET", path, e) : path \in Gets, e \in {NoSession, Session}}
    \cup {Raw("POST", path, e) : path \in Posts, e \in {NoSession, Token, WrongToken}}
    \cup {Raw("DELETE", path, e) : path \in Deletes, e \in {NoSession, Token, WrongToken}}
    \cup {Raw("POST", path, e) : e \in {Session, TwoCookies},
               path \in {<<"config", "rollback">>, <<"certificates", "c", "issue">>}}
    \cup {Raw("PUT", <<"config">>, NoSession), Raw("GET", <<"config">>, <<<<>>>>)}
    \cup {[Raw("POST", <<"certificates", "c", "issue">>, Token)
              EXCEPT !.result = "RuntimeCommandRejected"]}

MCRequests == {<<"a">>, <<"b">>} \X {Root, Api, V1}

(* Password hashes are only compared with one another.                     *)
PasswordSymmetry == Permutations(Passwords)
=============================================================================

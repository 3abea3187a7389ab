------------------------------ MODULE AdminApi ------------------------------
(***************************************************************************)
(* The admin HTTP server over the configuration it edits: setup, login and *)
(* logout, the configuration and proxy-host mutations, the revision files  *)
(* they write, the snapshot the event loop ("Core") routes by, and the two *)
(* snapshots the status page compares.  The server accepts, reads and      *)
(* answers one connection at a time, so a request is one step.             *)
(*                                                                         *)
(* The audit ledger and the crash points between the steps of a mutation   *)
(* are the subject of ControlPlane; here a ledger record either is written *)
(* or closes the ledger to later mutations.                                *)
(***************************************************************************)
EXTENDS ProxyConfig, AdminAccess

CONSTANTS
    SeedText,           \* the configuration the repository starts with
    Sources,            \* texts that config/apply requests carry
    HostRequests,       \* bodies of the requests that carry a proxy host
    RawRequests,        \* admin requests, as their envelopes are read
    Requests,           \* the hosts and paths that clients ask for
    Passwords,          \* password hashes, of which setup stores one
    MaxFailedAttempts,  \* AdminAuthenticator: failed logins before it locks
    MaxRevisionId,      \* the pieces of a revision id that an audit record can hold
    MaxMutations,       \* bound: mutations that pass the session check
    MaxLogins,          \* bound: login attempts
    MaxRestarts,        \* bound
    MaxFaults           \* bound: failed saves, refusals by Core, closed ledgers

ASSUME BoundsAssumption ==
    /\ MaxFailedAttempts \in Nat \ {0}
    /\ {MaxRevisionId, MaxMutations, MaxLogins, MaxRestarts, MaxFaults} \subseteq Nat
    /\ ParseMvpConfig(SeedText) # <<>>

VARIABLES
    revs,       \* FileRevisionRepository: revision id -> what its text says
    cur,        \* its current pointer
    secret,     \* the stored admin password hash, <<>> or <<hash>>
    up,         \* whether the process serves
    core,       \* the snapshot the event loop routes by
    desired,    \* the admin server's copy of the current revision
    active,     \* what it takes the event loop to run
    auth,       \* AdminAuthenticator, <<>> before setup
    sessions,   \* SessionStore: the sessions that are logged in
    admitted,   \* whether the ledger admits mutations
    last,       \* ghost: the last committed edit, see Edit
    drift,      \* ghost: what the server knows of Core may be wrong (see below)
    counts      \* bounds: mutations, logins, restarts, faults

files == <<revs, cur, secret>>
mirrors == <<desired, active>>
identity == <<auth, sessions>>
vars == <<files, up, core, mirrors, identity, admitted, last, drift, counts>>

Count(what) == counts' = [counts EXCEPT ![what] = @ + 1]
May(what) == counts[what] < CASE what = "mutations" -> MaxMutations
                              [] what = "logins" -> MaxLogins
                              [] what = "restarts" -> MaxRestarts
                              [] what = "faults" -> MaxFaults

-----------------------------------------------------------------------------
(* Revisions *)

(* A revision file holds the rendered snapshot, and read_record parses it  *)
(* each time: revs keeps what it then finds, <<snapshot>>, or <<>> for a   *)
(* text that does not parse.                                               *)
ReadBack(s) ==
    LET parsed == ParseMvpConfig(RenderMvpConfigSnapshot(s))
    IN  IF parsed = <<>> THEN <<>> ELSE <<parsed[1].snapshot>>
Current == revs[cur][1]

(* Start-up takes the current revision if it parses and is valid.          *)
Starts(stored) == stored # <<>> /\ ValidateSnapshot(stored[1])

SeedId == <<"seed">>
(* The host of an edit and its id (<<>>: none), the snapshots before and   *)
(* after it, and the one that its body asked for.                          *)
Edit(id, host, before, after, asked) ==
    [id |-> id, host |-> host, before |-> before, after |-> after, asked |-> asked]
Init ==
    LET s == ParseMvpConfig(SeedText)[1].snapshot
    IN  /\ revs = (SeedId :> ReadBack(s)) /\ cur = SeedId
        /\ secret = <<>>
        /\ up = TRUE
        /\ core = s /\ desired = s /\ active = s
        /\ auth = <<>> /\ sessions = {}
        /\ admitted = TRUE
        /\ last = Edit(<<>>, <<>>, s, s, s) /\ drift = FALSE
        /\ counts = [mutations |-> 0, logins |-> 0, restarts |-> 0, faults |-> 0]

-----------------------------------------------------------------------------
(* What the server knows when it answers a request; the token of a session *)
(* bears its number.  (The id that the audit step checks is that of its    *)
(* own copy, the current one as long as the ledger admits mutations.)      *)
Server ==
    [configured |-> auth # <<>>, stored |-> secret # <<>>,
     sessions |-> [s \in sessions |-> s], admitted |-> admitted, records |-> TRUE,
     lifecycle |-> IF up THEN "ready" ELSE "stopped",
     facts |-> {"active_snapshot", "listener", "command_path"},
     fits |-> Len(cur) <= MaxRevisionId]
Post(path, session) ==
    [method |-> "POST", path |-> path, query |-> <<>>, id |-> <<"r">>, session |-> session,
     csrf |-> session, body |-> "fine", result |-> "ok"]
Reaches(request, effect) == up /\ HandleAdminHttpStream(Server, request).effect = effect

-----------------------------------------------------------------------------
(* Setup, login and logout *)

NewAuthenticator(hash) == [hash |-> hash, failed |-> 0, next |-> 1]

Setup(hash) ==
    /\ Reaches(Post(<<"setup">>, <<>>), "setup")
    /\ secret' = <<hash>>
    /\ auth' = <<NewAuthenticator(hash)>>
    /\ UNCHANGED <<revs, cur, up, core, mirrors, sessions, admitted, last, drift, counts>>

(* The hash was stored, the terminal record was not: 503, but set up.      *)
SetupUnrecorded(hash) ==
    /\ Reaches(Post(<<"setup">>, <<>>), "setup") /\ May("faults")
    /\ secret' = <<hash>>
    /\ auth' = <<NewAuthenticator(hash)>>
    /\ admitted' = FALSE /\ Count("faults")
    /\ UNCHANGED <<revs, cur, up, core, mirrors, sessions, last, drift>>

(* A locked authenticator answers without looking at the password.         *)
Login(hash) ==
    /\ Reaches(Post(<<"login">>, <<>>), "login") /\ May("logins")
    /\ Count("logins")
    /\ IF auth[1].failed >= MaxFailedAttempts
          THEN UNCHANGED <<auth, sessions>>
       ELSE IF hash # auth[1].hash
          THEN auth' = <<[auth[1] EXCEPT !.failed = @ + 1]>> /\ UNCHANGED sessions
          ELSE /\ auth' = <<[auth[1] EXCEPT !.failed = 0, !.next = @ + 1]>>
               /\ sessions' = sessions \cup {auth[1].next}
    /\ UNCHANGED <<files, up, core, mirrors, admitted, last, drift>>

Logout(session) ==
    /\ Reaches(Post(<<"logout">>, <<session>>), "logout")
    /\ sessions' = sessions \ {session}
    /\ UNCHANGED <<files, up, core, mirrors, auth, admitted, last, drift, counts>>

-----------------------------------------------------------------------------
(* apply_with_core *)

(* config_activation_state, as the status page shows it.                   *)
ActivationState == IF RestartRequired(active, desired) THEN "pending_restart" ELSE "aligned"

(* refresh_admin_snapshot: desired follows the current revision, active    *)
(* too when nothing that needs a restart tells it from what was active.    *)
RefreshAdminSnapshot(stored) ==
    /\ desired' = stored[1]
    /\ active' = IF RestartRequired(active, stored[1]) THEN active ELSE stored[1]

(* A mutation costs one of MaxMutations, and a fault if it meets one.      *)
Spend(faults) ==
    /\ counts.faults + faults <= MaxFaults
    /\ counts' = [counts EXCEPT !.mutations = @ + 1, !.faults = @ + faults]

(* The revision is saved.  Core, told unless a restart is needed, refuses  *)
(* it, or runs it.  set_current reads the revision back before it moves    *)
(* the pointer, and may fail.  Last comes the terminal audit record.       *)
CoreRefuses(next) ==
    /\ ~RestartRequired(Current, next) /\ Spend(1)
    /\ UNCHANGED <<cur, core, mirrors, admitted, last, drift>>
CoreRuns(next) ==
    core' = IF RestartRequired(Current, next) THEN core ELSE next
SetCurrentFails(next, stored) ==
    /\ CoreRuns(next)
    /\ IF stored = <<>> THEN Spend(0) ELSE Spend(1)
    /\ drift' = (drift \/ ~RestartRequired(Current, next))
    /\ UNCHANGED <<cur, mirrors, admitted, last>>
Committed(next, id, stored, edit) ==
    /\ CoreRuns(next)
    /\ stored # <<>>
    /\ cur' = id /\ last' = edit
    /\ \/ /\ Spend(0)
          /\ RefreshAdminSnapshot(stored)
          /\ drift' = (drift \/ ActivationState = "pending_restart")
          /\ UNCHANGED admitted
       \/ /\ Spend(1)
          /\ admitted' = FALSE /\ drift' = TRUE
          /\ UNCHANGED mirrors

(* Mutant: the pointer moves before Core has answered.                     *)
CoreRefusesLate(next, id, stored, edit) ==
    \/ /\ ~RestartRequired(Current, next) /\ Spend(1)
       /\ stored # <<>>
       /\ cur' = id /\ last' = edit
       /\ RefreshAdminSnapshot(stored)
       /\ UNCHANGED <<core, admitted, drift>>
    \/ Committed(next, id, stored, edit)

Activate(next, id, stored, edit) ==
    \/ CoreRefuses(next)
    \/ SetCurrentFails(next, stored)
    \/ Committed(next, id, stored, edit)

ApplyWithCore(next, id, edit) ==
    /\ ValidateSnapshot(next)
    /\ LET stored == ReadBack(next)
       IN  /\ revs' = (id :> stored) @@ revs
           /\ Activate(next, id, stored, edit)
    /\ UNCHANGED <<secret, up, identity>>

(* Refused before anything is saved, or the save itself fails.             *)
Refused ==
    /\ Spend(0)
    /\ UNCHANGED <<files, up, core, mirrors, identity, admitted, last, drift>>
SaveFails ==
    /\ Spend(1)
    /\ UNCHANGED <<files, up, core, mirrors, identity, admitted, last, drift>>

-----------------------------------------------------------------------------
(* The mutations: a set-up server, a session with its CSRF token, and an   *)
(* intent record come first; else the answer is 401, 403 or 503.           *)

Mutating ==
    /\ counts.mutations < MaxMutations
    /\ \E s \in sessions : Reaches(Post(<<"config", "apply">>, <<s>>), "lifecycle")

Plain(next) == Edit(<<>>, <<>>, Current, next, next)

(* What a body asks for: what its own fields say, although the decoder may *)
(* take its flag from a policy, and its id from an upstream.               *)
AsWritten(body) ==
    [DecodeProxyHost(body)[1] EXCEPT !.id = Field(body, "id", @), !.enabled = Field(body, "enabled", @)]
Of(h, body, next) == Edit(h.id, <<h>>, Current, next, AddProxyHost(Current, AsWritten(body)))

(* config/apply: unknown fields and a missing schema version do not matter *)
(* here.  A client that closes early has its body taken as complete: the   *)
(* text may end before any table.                                          *)
CutShort(text) == {SubSeq(text, 1, n - 1) : n \in {i \in DOMAIN text : text[i][1] = "[["}} \cup {text}
Bodies == {ParseMvpConfig(text) : text \in UNION {CutShort(source) : source \in Sources}}
ApplyConfigSource(parsed) ==
    IF parsed = <<>> \/ (parsed # <<>> /\ ~ValidateSnapshot(parsed[1].snapshot))
       THEN Refused
       ELSE \/ SaveFails
            \/ ApplyWithCore(parsed[1].snapshot, Append(cur, "config-apply"),
                             Plain(parsed[1].snapshot))
HandleConfigApplyHttp(parsed) == Mutating /\ ApplyConfigSource(parsed)

CreateProxyHost(h, body) ==
    LET next == AddProxyHost(Current, h)
    IN  IF ~ValidateSnapshot(next)
           THEN Refused
           ELSE \/ SaveFails
                \/ ApplyWithCore(next, cur \o <<"proxy-host">> \o h.id, Of(h, body, next))
HandleProxyHostCreateHttp(body) ==
    /\ Mutating
    /\ LET h == DecodeProxyHost(body) IN IF h = <<>> THEN Refused ELSE CreateProxyHost(h[1], body)

UpdateProxyHost(id, h, body) ==
    LET next == AddProxyHost(Current, h)
    IN  IF id # h.id \/ ~ProxyHostExists(Current, id) \/ ~ValidateSnapshot(next)
           THEN Refused
           ELSE \/ SaveFails
                \/ ApplyWithCore(next, cur \o <<"update-proxy-host">> \o id, Of(h, body, next))
HandleProxyHostUpdateHttp(id, body) ==
    /\ Mutating
    /\ LET h == DecodeProxyHost(body) IN IF h = <<>> THEN Refused ELSE UpdateProxyHost(id, h[1], body)

DeleteProxyHost(id) ==
    LET next == RemoveProxyHost(Current, id)
    IN  IF ~ProxyHostExists(Current, id) \/ ~ValidateSnapshot(next)
           THEN Refused
           ELSE \/ SaveFails
                \/ ApplyWithCore(next, cur \o <<"delete-proxy-host">> \o id,
                                 Edit(id, <<>>, Current, next, next))
HandleProxyHostDeleteHttp(id) == Mutating /\ DeleteProxyHost(id)

(* config/rollback: the revision is read and validated, not saved again.   *)
Rollback(id) ==
    IF ~Starts(revs[id])
       THEN Refused
       ELSE /\ Activate(revs[id][1], id, revs[id], Plain(revs[id][1]))
            /\ UNCHANGED <<revs, secret, up, identity>>
HandleConfigRollbackHttp(id) == Mutating /\ Rollback(id)

-----------------------------------------------------------------------------
(* Restart.  A start is refused for a current revision that does not parse *)
(* or is not valid, and after a lost terminal record (see ControlPlane).   *)

Stop ==
    /\ up /\ May("restarts")
    /\ up' = FALSE
    /\ Count("restarts")
    /\ UNCHANGED <<files, core, mirrors, identity, admitted, last, drift>>

Start ==
    /\ ~up /\ admitted /\ Starts(revs[cur])
    /\ up' = TRUE
    /\ core' = Current /\ desired' = Current /\ active' = Current
    /\ auth' = IF secret = <<>> THEN <<>> ELSE <<NewAuthenticator(secret[1])>>
    /\ sessions' = {}
    /\ drift' = FALSE
    /\ UNCHANGED <<files, admitted, last, counts>>

StartRefused ==
    /\ ~up
    /\ ~admitted \/ ~Starts(revs[cur])
    /\ UNCHANGED vars

Ids == {DecodeProxyHost(body)[1].id : body \in {b \in HostRequests : DecodeProxyHost(b) # <<>>}}
Views == {ProxyHostView(Current, id) : id \in {i \in Ids : ProxyHostExists(Current, i)}}
Next ==
    \/ \E hash \in Passwords : Setup(hash) \/ SetupUnrecorded(hash) \/ Login(hash)
    \/ \E session \in sessions : Logout(session)
    \/ \E parsed \in Bodies : HandleConfigApplyHttp(parsed)
    \/ \E body \in HostRequests : HandleProxyHostCreateHttp(body)
    \/ \E id \in Ids, body \in HostRequests : HandleProxyHostUpdateHttp(id, body)
    \/ \E v \in Views : HandleProxyHostUpdateHttp(v.id, ProxyHostResponseJson(v))
    \/ \E id \in Ids : HandleProxyHostDeleteHttp(id)
    \/ \E id \in DOMAIN revs : HandleConfigRollbackHttp(id)
    \/ Stop \/ Start \/ StartRefused
Spec == Init /\ [][Next]_vars

-----------------------------------------------------------------------------
(* Properties *)

Routed(s) == [q \in Requests |-> SelectHttpRouteAction(s, q[1], q[2])]

(* The event loop never has to break a tie: whatever sequence of edits led *)
(* here, at most one route is best for a request, and its service exists   *)
(* (validate_route_keys; FindService has no answer for a missing one).     *)
RoutesAreUnambiguous ==
    up => \A q \in Requests : LET best == BestRoutes(core, q[1], q[2])
                              IN  /\ Cardinality(best) <= 1
                                  /\ \A i \in best : \E v \in DOMAIN core.services :
                                        core.services[v].id = core.routes[i].service

(* What the text of a snapshot cannot say: a redirect with no certificate  *)
(* but a resolver, the empty path that "//" becomes, a name or a path that *)
(* ends its own line or is split.                                          *)
Legible(s) ==
    /\ \A i \in DOMAIN s.routes :
          /\ \A j \in DOMAIN s.routes[i].hosts :
                ~Holds(s.routes[i].hosts[j], {Comma, Feed, QuoteFeed, BracketFeed})
          /\ \A j \in DOMAIN s.routes[i].paths :
                ~Holds(s.routes[i].paths[j].path, {Comma, Feed, QuoteFeed, BracketFeed})
    /\ \A i \in DOMAIN s.services : \A j \in DOMAIN s.services[i].upstreams :
          ~Holds(s.services[i].upstreams[j].id, {Feed, QuoteFeed, BracketFeed})
Sayable(s) ==
    /\ Legible(s)
    /\ \A i \in DOMAIN s.routes :
          /\ s.routes[i].redirect => s.routes[i].certificate # <<>>
          /\ \A m \in DOMAIN s.routes[i].paths : s.routes[i].paths[m].path # <<>>

(* The flag or the id that the decoder found is another one's.             *)
Misread(edit) == edit.host # <<>> /\ edit.after # edit.asked

(* What an acknowledged edit asked for survives as text: if the next start *)
(* accepts the current revision, it routes every request the way the body  *)
(* of the edit said, and it does accept it, unless the edit relied on what *)
(* the text cannot say.  (A body whose first "enabled" or "id" is not the  *)
(* host's own is held to what was decoded.)                                *)
StoredReadsBack ==
    /\ Sayable(last.after) => Starts(revs[cur])
    /\ Starts(revs[cur]) /\ Legible(last.after) =>
          Routed(Current) = Routed(IF Misread(last) THEN last.after ELSE last.asked)

(* An acknowledged edit is usable twice: by the loop that runs it now and  *)
(* by the start that reads its text later.                                 *)
StoredIsUsable == RoutesAreUnambiguous /\ StoredReadsBack

(* The two without their exceptions, which the code refutes: an edit is    *)
(* taken as its body says it (proxy_host_request_decoder.rs:33), and its   *)
(* text says what was acknowledged (config_rendering.rs:98, 179).          *)
BodiesAreTakenAsWritten == ~Misread(last)
TextsKeepNames == Starts(revs[cur]) => Routed(Current) = Routed(last.after)

(* A proxy-host edit changes the routing of its own host only: a request   *)
(* that the edited host serves is served as the edit says, and every other *)
(* request is served as before, unless it was this host's or uses its      *)
(* service.  (The host is the decoded one, with names that its text keeps.) *)
EditTouchesOnlyItsHost ==
    LET own(s, q) == {i \in BestRoutes(s, q[1], q[2]) : s.routes[i].id = Generated(last.id)}
        shares(s, q) == {i \in BestRoutes(s, q[1], q[2]) : s.routes[i].service = Generated(last.id)}
    IN  last.id # <<>> /\ Legible(last.after) => \A q \in Requests :
            IF own(Current, q) # {}
            THEN last.host # <<>> /\ Routed(Current)[q] =
                    (IF last.host[1].redirect THEN <<"redirect">>
                     ELSE <<"proxy", HostService(last.host[1])>>)
            ELSE shares(last.before, q) = {} => Routed(Current)[q] = Routed(last.before)[q]

(* Reading a proxy host and sending it back unchanged changes no routing   *)
(* but by the flag: GET, PATCH, and the text between them, keep every      *)
(* policy, state and path.  It holds for a route that the form can show;   *)
(* one written by hand may have an exact path, more paths than the first,  *)
(* another priority or another service.  The flag comes back as that of    *)
(* health_check, which the view writes first.  (A host with TLS upstreams  *)
(* is refused: its view leaves TLS out.)                                   *)
Shown(s, id) ==
    \A i \in DOMAIN s.routes : s.routes[i].id = Generated(id) =>
        /\ Len(s.routes[i].paths) = 1 /\ ~s.routes[i].paths[1].exact
        /\ s.routes[i].priority = 100 /\ s.routes[i].service = Generated(id)
Echo(v) == DecodeProxyHost(ProxyHostResponseJson(v))
EchoKeepsRouting ==
    \A v \in Views : Shown(Current, v.id) /\ Echo(v) # <<>> =>
        LET next == AddProxyHost(Current, [Echo(v)[1] EXCEPT !.enabled = v.enabled])
        IN  ValidateSnapshot(next) => Routed(next) = Routed(Current)

(* Without its two exceptions, which the code refutes: the flag stays      *)
(* (proxy_host_request_decoder.rs:33), and so does the routing of a route  *)
(* written by hand (proxy_host_snapshot_projection.rs:56).                 *)
EchoKeepsTheFlag == \A v \in Views : Echo(v) # <<>> => Echo(v)[1].enabled = v.enabled
EchoKeepsAnyRoute ==
    \A v \in Views : Echo(v) # <<>> =>
        LET next == AddProxyHost(Current, [Echo(v)[1] EXCEPT !.enabled = v.enabled])
        IN  ValidateSnapshot(next) => Routed(next) = Routed(Current)

(* Nothing changes and nothing but the open pages is told without a live   *)
(* session, and nothing changes without that session's token; what changes *)
(* stored state has an intent of its kind in the ledger; and an intent is opened only  *)
(* for a request that may act: the checks of the dispatcher and those of   *)
(* the handlers behind it agree, whatever the component behind answers.    *)
OpenPaths ==
    {<<"/">>, <<"/index.html">>, <<"/styles.css">>, <<"/app.js">>, <<"status">>, <<"health">>,
     <<"health", "live">>, <<"health", "ready">>, <<"setup">>, <<"login">>}
Asked == {ParseAdminHttpRequest(raw) : raw \in RawRequests} \ {<<>>}
ChecksAgree ==
    \A asked \in Asked, works \in BOOLEAN :
        LET r == asked[1]
            a == HandleAdminHttpStream([Server EXCEPT !.records = works], r)
            mayRead == r.session # <<>> /\ r.session[1] \in sessions
            mayAct == mayRead /\ r.csrf = r.session
        IN  /\ a.status = 200 => mayRead \/ r.path \in OpenPaths
            /\ a.effect \notin {"none", "setup", "login"} => mayAct
            /\ CASE a.effect = "lifecycle" ->
                          a.intent \in ConfigAuditOperation \cup ProxyHostAuditOperation
                 [] a.effect = "certificate" -> a.intent \in CertificateAuditOperation
                 [] a.effect = "trust" -> a.intent \in TrustAuditOperation
                 [] a.effect = "setup" -> a.intent \in AdminSetupAuditOperation
                 [] OTHER -> TRUE
            /\ a.intent # "none" => mayAct \/ r.path = <<"setup">>

(* The status page tells what runs: the active snapshot routes as Core     *)
(* does, as long as every edit since the start was acknowledged, none was  *)
(* made while a restart was pending, and Core runs names that a text keeps *)
(* (the server's copies are read back from the revision file).             *)
StatusTellsRuntime == up /\ ~drift /\ Legible(core) => Routed(active) = Routed(core)
=============================================================================

----------------------------- MODULE ProxyRuntime -----------------------------
(***************************************************************************)
(* The handlers of SnapshotMioRuntime: what the event loop runs when a     *)
(* socket is ready or a deadline is due.                                   *)
(*                                                                         *)
(* Source: crates/edge-core/src/lib.rs.  A world w is the state of the     *)
(* runtime: conn, the connections by id (a function whose domain is the    *)
(* set of ids in use, as the BTreeMap is); budget, the payload accounting; *)
(* leases[u], the drain references held on upstream u; and halted, TRUE    *)
(* when a handler returned an io error, which ends the event loop.  A      *)
(* handler is an operator from a world to a world; what sockets, the       *)
(* selector and the allocator answer are parameters.                       *)
(*                                                                         *)
(* Plaintext listeners, plaintext and TLS upstreams, HTTP requests only    *)
(* (no WebSocket upgrade).  Every request is replayable under the retry    *)
(* policy: one that is not behaves as one for which the selector finds no  *)
(* other upstream.                                                         *)
(***************************************************************************)
EXTENDS SlotBudget, ConnectionIo, Functions, Sequences

CONSTANTS
    Upstreams,           \* the upstreams of the one service
    TlsUpstreams,        \* the ones with a ServerAuthenticated TLS policy
    NoUpstream,
    WireUnits,           \* size of the upstream request
    MaxResponseBuffer    \* resource_limits.max_response_buffer_bytes

ASSUME RuntimeAssumption ==
    /\ TlsUpstreams \subseteq Upstreams /\ NoUpstream \notin Upstreams
    /\ WireUnits \in Nat \ {0} /\ MaxResponseBuffer \in Nat \ {0}

(* RetryPolicy::new accepts at most one retry.                             *)
MaxRetries == 1

(* The connection accept_ready inserts.  clReg and upReg are the interests *)
(* a socket is registered with, {} for none.  attempted is {} while there  *)
(* is no RetryContext.  sent is not in the code: the upstreams whose       *)
(* transport was handed bytes of the current request.                      *)
NewConnection ==
    [io |-> NewIo, out |-> 0, batch |-> 0, wire |-> FALSE, upOut |-> 0,
     tls |-> FALSE, pendTls |-> FALSE, up |-> NoUpstream, upReg |-> {}, clReg |-> {"r"},
     closeAfter |-> FALSE, closeClient |-> FALSE, deadline |-> TRUE,
     reuse |-> NoUpstream, attempted |-> {}, used |-> 0, lease |-> NoUpstream, sent |-> {}]

NewWorld == [conn |-> <<>>, budget |-> NewBudget,
             leases |-> [u \in Upstreams |-> 0], halted |-> FALSE]

Live(w, c) == c \in DOMAIN w.conn
Put(w, c, x) == [w EXCEPT !.conn[c] = x]
SetIo(w, c, y) == [w EXCEPT !.conn[c].io = y]
SetBudget(w, B) == [w EXCEPT !.budget = B]
Halt(w) == [w EXCEPT !.halted = TRUE]

(* registry.reregister and registry.deregister with "?": an error for a    *)
(* socket that is not registered.                                          *)
Reregister(w, c, interest) ==
    IF w.conn[c].clReg = {} THEN Halt(w) ELSE [w EXCEPT !.conn[c].clReg = interest]
ReregisterUpstream(w, c, interest) ==
    IF w.conn[c].upReg = {} THEN Halt(w) ELSE [w EXCEPT !.conn[c].upReg = interest]

(* refresh_deadline_for_connection *)
Refresh(x) == [x EXCEPT !.deadline = TimeoutKind(x.io.state) # "None"]
RefreshDeadline(w, c) == IF Live(w, c) THEN Put(w, c, Refresh(w.conn[c])) ELSE w

(* What a handler does to a connection it gives up on.                     *)
GiveUp(x) == [x EXCEPT !.closeAfter = TRUE, !.deadline = FALSE]

Buffered(x) == x.io.clientWrite + x.out

-----------------------------------------------------------------------------
(* Leases, upstream sockets and removal.                                   *)

ReleaseLease(w, u) ==
    IF u = NoUpstream THEN w ELSE [w EXCEPT !.leases[u] = @ - 1]

(* drop_upstream *)
DropUpstream(w, c) ==
    Put(w, c, [w.conn[c] EXCEPT !.up = NoUpstream, !.upReg = {}, !.reuse = NoUpstream])

(* deactivate_upstream_for_reuse *)
DeactivateUpstream(w, c) == [w EXCEPT !.conn[c].upReg = {}]

(* can_reuse_upstream *)
CanReuse(x, key) == x.up # NoUpstream /\ x.upReg = {} /\ x.reuse = key /\ ~x.tls

(* remove_connection; the slip keeps the drain reference                   *)
RemoveKeepsLease(w, c) ==
    IF ~Live(w, c) THEN w
    ELSE [w EXCEPT !.budget = BudgetDropAll(w.budget, c),
                   !.conn = Restrict(w.conn, DOMAIN w.conn \ {c})]
RemoveKeepsCharges(w, c) ==
    IF ~Live(w, c) THEN w
    ELSE [ReleaseLease(w, w.conn[c].lease) EXCEPT
             !.conn = Restrict(w.conn, DOMAIN w.conn \ {c})]
RemoveConnection(w, c) ==
    IF ~Live(w, c) THEN w
    ELSE [ReleaseLease(w, w.conn[c].lease) EXCEPT
             !.budget = BudgetDropAll(w.budget, c),
             !.conn = Restrict(w.conn, DOMAIN w.conn \ {c})]

(* reconcile_response_read_interest of one connection                      *)
ReadInterest(p, x) ==
    LET action == ResponseReadAction(p, x.io.state, x.upReg # {}, Buffered(x), MaxResponseBuffer) IN
    CASE x.up = NoUpstream -> x
      [] x.up # NoUpstream /\ action = "Pause"  -> [x EXCEPT !.upReg = {}]
      [] x.up # NoUpstream /\ action = "Resume" -> [x EXCEPT !.upReg = {"r"}]
      [] OTHER -> x
ReconcileRead(w, c) ==
    IF Live(w, c) THEN Put(w, c, ReadInterest(w.budget.pressure, w.conn[c])) ELSE w

(* enforce_resource_pressure_interests *)
Enforce(w) ==
    [w EXCEPT !.conn = [c \in DOMAIN w.conn |-> ReadInterest(w.budget.pressure, w.conn[c])]]

(* reconcile_transport_payload_charges: the TLS bytes waiting for a socket *)
(* are charged, or the connection is given up; then every connection's     *)
(* read interest follows the pressure.                                     *)
TlsPending(x) == IF x.tls THEN x.upOut ELSE 0
Synced(w, c, sync) ==
    IF sync.ok THEN SetBudget(w, sync.budget)
    ELSE RemoveConnection(DropUpstream(SetBudget(w, sync.budget), c), c)
ReconcileTransport(w, c) ==
    Enforce(IF Live(w, c)
            THEN Synced(w, c, BudgetSync(w.budget, c, "tls", TlsPending(w.conn[c]))) ELSE w)

-----------------------------------------------------------------------------
(* queue_client_response of a response made here.  All of them declare     *)
(* Connection: close and are one unit long.                                *)

Enqueue(w, c, x, prepared, queued) ==
    IF ~prepared.ok
    THEN Put(SetBudget(w, prepared.budget), c, [GiveUp(x) EXCEPT !.clReg = {}])
    ELSE IF ~queued.ok     \* rollback_client_response_allocation
    THEN Put(SetBudget(w, BudgetSetResponse(w.budget, c, 1, FALSE).budget), c, GiveUp(x))
    ELSE Reregister(Put(SetBudget(w, prepared.budget), c,
                        Refresh([x EXCEPT !.io = queued.io])), c, {"w"})
QueueClientResponse(w, c) ==
    IF ~Live(w, c) THEN w
    ELSE Enqueue(w, c, [w.conn[c] EXCEPT !.closeClient = TRUE],
                 BudgetSetResponse(w.budget, c, 1, TRUE), QueueResponse(w.conn[c].io, 1))

-----------------------------------------------------------------------------
(* Connecting, and retrying elsewhere.                                     *)

(* connect_upstream up to the outcome of connect(): the wire request and   *)
(* the TLS session are prepared, then the socket is registered.            *)
Prepared(x, u, key) ==
    [x EXCEPT !.io = BeginUpstreamConnect(@).io, !.wire = TRUE, !.tls = FALSE,
              !.upOut = 0, !.pendTls = u \in TlsUpstreams, !.reuse = key]
Dialled(w, c, u) ==
    Put(w, c, Refresh([w.conn[c] EXCEPT !.up = u, !.upReg = {"w"}]))

FailAttempt(w, c, failure) == SetIo(w, c, FailUpstreamAttempt(w.conn[c].io, failure).io)

(* connect_upstream of the retry, which is the last attempt there may be   *)
ConnectAgain(w, c, u, dialled) ==
    IF BeginUpstreamConnect(w.conn[c].io).ok /\ dialled
    THEN Dialled(Put(w, c, Prepared(w.conn[c], u, NoUpstream)), c, u)
    ELSE QueueClientResponse(
             IF BeginUpstreamConnect(w.conn[c].io).ok
             THEN FailAttempt(Put(w, c, Prepared(w.conn[c], u, NoUpstream)), c, "Connect")
             ELSE SetIo(w, c, BeginUpstreamConnect(w.conn[c].io).io), c)

(* evaluate_retry of a request whose method, body and size allow a replay  *)
EvaluateRetry(x) ==
    /\ x.io.attempt.written = 0
    /\ ~x.io.attempt.started
    /\ x.used < MaxRetries

(* What the retry meets: the upstream the selector finds (NoUpstream if    *)
(* none is eligible or its address does not parse), whether the new        *)
(* request can be built, and whether connect() starts.                     *)
NoRetry == [pick |-> NoUpstream, built |-> TRUE, dialled |-> TRUE]
RetryScripts == {NoRetry} \cup [pick : Upstreams, built : {TRUE}, dialled : BOOLEAN]
                          \cup [pick : Upstreams, built : {FALSE}, dialled : {TRUE}]

(* retry_upstream: whether there is a retry at all, the hand-over of the   *)
(* drain reference, and the retry once its bytes are charged or refused.   *)
MayRetry(x, failure, pick) ==
    /\ x.attempted # {} /\ failure # "ResetAfterResponse"
    /\ EvaluateRetry(x) /\ pick \notin x.attempted \cup {NoUpstream}
MoveLease(w, c, u) ==
    [ReleaseLease(w, w.conn[c].lease) EXCEPT !.leases[u] = @ + 1, !.conn[c].lease = u]
Retried(x, u) ==
    [x EXCEPT !.io = PrepareUpstreamRetry(@).io, !.wire = FALSE, !.used = @ + 1,
              !.attempted = @ \cup {u}]
RetryTaken(w, c, s, taken) ==
    IF ~taken.ok THEN QueueClientResponse(SetBudget(w, taken.budget), c)
    ELSE ConnectAgain(MoveLease(Put(SetBudget(w, taken.budget), c, Retried(w.conn[c], s.pick)),
                                c, s.pick), c, s.pick, s.dialled)

(* An attempt failed before the response: retry, or answer the client.     *)
RetryOrReply(w, c, failure, s) ==
    IF Live(w, c) /\ MayRetry(w.conn[c], failure, s.pick)
    THEN RetryTaken(w, c, s, BudgetReplaceUpstream(w.budget, c, WireUnits,
                                 s.built /\ PrepareUpstreamRetry(w.conn[c].io).ok))
    ELSE QueueClientResponse(w, c)

(* connect_upstream of a routed request *)
ConnectUpstream(w, c, u, key, dialled, s) ==
    IF ~BeginUpstreamConnect(w.conn[c].io).ok
    THEN QueueClientResponse(SetIo(w, c, BeginUpstreamConnect(w.conn[c].io).io), c)
    ELSE IF dialled THEN Dialled(Put(w, c, Prepared(w.conn[c], u, key)), c, u)
    ELSE RetryOrReply(FailAttempt(Put(w, c, Prepared(w.conn[c], u, key)), c, "Connect"),
                      c, "Connect", s)

(* reuse_upstream *)
ReuseUpstream(w, c) ==
    LET x == w.conn[c]
        begun == BeginUpstreamConnect(x.io)
        connected == UpstreamConnected(begun.io, WireUnits) IN
    IF ~begun.ok \/ ~connected.ok THEN Put(w, c, GiveUp([x EXCEPT !.io = begun.io]))
    ELSE Put(w, c, Refresh([x EXCEPT !.io = connected.io, !.wire = FALSE, !.pendTls = FALSE,
                                     !.upOut = 0, !.upReg = {"w"}]))

-----------------------------------------------------------------------------
(* Reading the client.                                                     *)

(* How a completed request is routed: "reply" is every answer made here    *)
(* (malformed, no route, redirect, challenge, no upstream available);      *)
(* "unresolved" is a selected upstream whose address does not parse; keep  *)
(* is FALSE when the client asked for Connection: close.                   *)
Routes == [kind : {"reply"}]
    \cup [kind : {"unresolved"}, u : Upstreams, keep : BOOLEAN]
    \cup [kind : {"proxy"}, u : Upstreams, keep : BOOLEAN, built : BOOLEAN, dialled : BOOLEAN]

(* route_completed_request, from the selected upstream on *)
ReuseKey(route) == IF route.keep /\ route.u \notin TlsUpstreams THEN route.u ELSE NoUpstream
RequestTaken(w, c, route, reuse, taken, s) ==
    LET x == [w.conn[c] EXCEPT !.attempted = {route.u}, !.used = 0, !.sent = {}] IN
    IF ~taken.ok THEN QueueClientResponse(SetBudget(w, taken.budget), c)
    ELSE IF reuse THEN ReuseUpstream(Put(SetBudget(w, taken.budget), c, x), c)
    ELSE ConnectUpstream(Put(SetBudget(w, taken.budget), c, x), c, route.u, ReuseKey(route),
                         route.dialled, s)
ProxyRequest(w, c, route, s) ==
    LET reuse == ReuseKey(route) # NoUpstream /\ CanReuse(w.conn[c], ReuseKey(route)) IN
    RequestTaken(IF reuse THEN w ELSE DropUpstream(w, c), c, route, reuse,
                 BudgetTakePair(w.budget, c, WireUnits, 1, route.built), s)

(* route_completed_request *)
RouteCompletedRequest(w, c, route, s) ==
    LET leased == [w EXCEPT !.leases[route.u] = @ + 1, !.conn[c].lease = route.u,
                            !.conn[c].closeClient = ~route.keep] IN
    IF route.kind = "proxy" THEN ProxyRequest(leased, c, route, s)
    ELSE QueueClientResponse(IF route.kind = "unresolved" THEN leased ELSE w, c)

(* One unit of request read from the client, and what the request is with  *)
(* it.  ok is FALSE when it could not be charged or parsed.                *)
Received(w, c, grown, read) ==
    IF ~grown.ok THEN [ok |-> FALSE, w |-> SetBudget(w, grown.budget)]
    ELSE [ok |-> read.ok, w |-> SetIo(SetBudget(w, grown.budget), c, read.io)]
TakeRequestUnit(w, c, outcome) ==
    Received(w, c, BudgetGrowRequest(w.budget, c, 1), ReceiveClientBytes(w.conn[c].io, outcome))

(* read_client: some units of an incomplete request (part says whether     *)
(* there are any), then the end of what the socket has to offer.           *)
ReadEnds == {"block", "complete", "malformed", "eof", "error"}
DropRequest(w, c) == SetBudget(w, DropSlot(w.budget, c, "request").budget)
RequestEnded(c, last, route, s) ==
    IF last.ok THEN DropRequest(RouteCompletedRequest(last.w, c, route, s), c)
    ELSE QueueClientResponse(last.w, c)
ReadRequestEnd(c, first, part, end, route, s) ==
    CASE ~first.ok \/ end = "error" -> QueueClientResponse(first.w, c)
      [] first.ok /\ end = "block" -> IF part THEN RefreshDeadline(first.w, c) ELSE first.w
      [] first.ok /\ end = "eof" -> RemoveConnection(DropUpstream(first.w, c), c)
      [] first.ok /\ end \in {"complete", "malformed"} ->
             RequestEnded(c, TakeRequestUnit(first.w, c, end), route, s)
ReadClient(w, c, part, end, route, s) ==
    IF ~Live(w, c) THEN w
    ELSE ReadRequestEnd(c, IF part THEN TakeRequestUnit(w, c, "incomplete") ELSE [ok |-> TRUE, w |-> w],
                        part, end, route, s)

-----------------------------------------------------------------------------
(* Writing the upstream.                                                   *)

(* io_interest, its upstream half *)
IoInterest(state) ==
    CASE state \in {"ConnectingUpstream", "WritingUpstreamRequest"}      -> {"w"}
      [] state = "HandshakingUpstreamTls"                               -> {"r", "w"}
      [] state \in {"ReadingUpstreamResponse", "TunnelingWebSocket"}     -> {"r"}
      [] OTHER                                                          -> {}

(* merge_interest: a TLS session always reads, and alone decides until it  *)
(* is established                                                          *)
MergedInterest(x) ==
    CASE ~x.tls                                  -> IoInterest(x.io.state)
      [] x.io.state = "HandshakingUpstreamTls"   -> {"r"}
      [] OTHER                                   -> IoInterest(x.io.state) \cup {"r"}

(* upstream_transport_interest: never without one                          *)
UpstreamInterest(x) ==
    LET merged == MergedInterest(x) \cup (IF x.upOut > 0 THEN {"w"} ELSE {}) IN
    IF merged = {} THEN {"r"} ELSE merged

Failed(x, failure) == [x |-> [x EXCEPT !.io = FailUpstreamAttempt(@, failure).io], why |-> failure]
Went(x) == [x |-> x, why |-> ""]

(* write_upstream, the socket turned writable while connecting: connected  *)
(* says what take_error reports, session whether a TLS session starts.     *)
(* The first flight of the handshake is one unit.                          *)
ConnectDone(x, connected, session) ==
    IF x.io.state # "ConnectingUpstream" THEN Went(x)
    ELSE IF ~connected THEN Failed(x, "Connect")
    ELSE IF x.pendTls THEN
        IF session
        THEN Went([x EXCEPT !.pendTls = FALSE, !.tls = TRUE, !.upOut = 1,
                            !.io = HandleEvent(@, "UpstreamTlsHandshakeStarted").io])
        ELSE Failed([x EXCEPT !.pendTls = FALSE], "TlsHandshake")
    ELSE IF x.wire
    THEN Went([x EXCEPT !.wire = FALSE, !.tls = FALSE, !.io = UpstreamConnected(@, WireUnits).io])
    ELSE Failed(x, "Connect")

(* write_upstream, the write loop: what waits for the socket first, then   *)
(* the request, which the transport takes whole.  The slip counts the      *)
(* request as written only when the socket has taken it.                   *)
FlushUpstream(x, flush) ==
    CASE x.upOut = 0 \/ flush = "block" -> Went(x)
      [] x.upOut > 0 /\ flush = "all"   -> Went([x EXCEPT !.upOut = 0])
      [] x.upOut > 0 /\ flush = "error" -> Failed(x, "Write")
SendCountsLate(x, write) ==
    LET n == x.io.upstreamWrite
        advanced == AdvanceUpstreamWrite(x.io, n)
        y == [x EXCEPT !.upOut = n, !.sent = @ \cup {x.up}] IN
    IF x.upOut > 0 \/ x.io.state # "WritingUpstreamRequest" \/ n = 0 THEN Went(x)
    ELSE IF write = "refused" \/ ~advanced.ok THEN Failed(x, "Write")
    ELSE CASE write = "all"   -> Went([y EXCEPT !.io = advanced.io, !.upOut = 0])
           [] write = "some"  -> Went([y EXCEPT !.upOut = n - 1])
           [] write = "block" -> Went(y)
           [] write = "error" -> Failed(y, "Write")
SendRequest(x, write) ==
    LET n == x.io.upstreamWrite
        advanced == AdvanceUpstreamWrite(x.io, n)
        y == [x EXCEPT !.io = advanced.io, !.upOut = n, !.sent = @ \cup {x.up}] IN
    IF x.upOut > 0 \/ x.io.state # "WritingUpstreamRequest" \/ n = 0 THEN Went(x)
    ELSE IF write = "refused" THEN Failed(x, "Write")     \* queue_http_bytes
    ELSE IF ~advanced.ok THEN Failed([x EXCEPT !.io = advanced.io], "Write")
    ELSE CASE write = "all"   -> Went([y EXCEPT !.upOut = 0])
           [] write = "some"  -> Went([y EXCEPT !.upOut = n - 1])
           [] write = "block" -> Went(y)
           [] write = "error" -> Failed(y, "Write")

WriteScripts == [connected : BOOLEAN, session : BOOLEAN, flush : {"all", "block", "error"},
                 write : {"refused", "all", "some", "block", "error"}]

(* write_upstream *)
ThenFlush(r, flush) == IF r.why = "" THEN FlushUpstream(r.x, flush) ELSE r
ThenSend(r, write) == IF r.why = "" THEN SendRequest(r.x, write) ELSE r
UpstreamWritten(w, c, last, s) ==
    IF last.why = ""
    THEN RefreshDeadline(ReregisterUpstream(Put(w, c, last.x), c, UpstreamInterest(last.x)), c)
    ELSE RetryOrReply(DropUpstream(Put(w, c, last.x), c), c, last.why, s)
WriteLoop(x, o) == ThenSend(ThenFlush(ConnectDone(x, o.connected, o.session), o.flush), o.write)
WriteFails(w, c, o) == Live(w, c) /\ w.conn[c].up # NoUpstream /\ WriteLoop(w.conn[c], o).why # ""
WriteUpstream(w, c, o, s) ==
    IF ~Live(w, c) THEN w
    ELSE IF w.conn[c].up = NoUpstream THEN w
    ELSE UpstreamWritten(w, c, WriteLoop(w.conn[c], o), s)

-----------------------------------------------------------------------------
(* Reading the upstream.                                                   *)

(* Where the read loop leaves the connection: "more" to come, "pause",     *)
(* "finish"ed, "reply" with an error, or "close" because part of the       *)
(* response is already on its way (upstream_response_failure_disposition). *)
Lost(w, c, early, late) ==
    LET x == w.conn[c] IN
    [w |-> SetIo(w, c, FailUpstreamAttempt(x.io, IF x.io.attempt.started THEN late ELSE early).io),
     then |-> IF x.io.attempt.started THEN "close" ELSE "reply"]

(* A chunk of n units of response; 0 is the beginning of a header, which   *)
(* the sanitizer holds back.                                               *)
ChunkTaken(w, c, complete) ==
    [w |-> w, then |-> CASE complete -> "finish"
                         [] ~complete /\ Buffered(w.conn[c]) >= MaxResponseBuffer -> "pause"
                         [] OTHER -> "more"]
TakeResponseChunk(w, c, n, complete) ==
    LET read == ReceiveUpstreamBytes(w.conn[c].io, n)
        charged == BudgetSetResponse(w.budget, c, w.budget.held[c]["response"] + n, read.ok) IN
    IF charged.ok
    THEN ChunkTaken(SetIo(SetBudget(w, charged.budget), c, read.io), c, complete)
    ELSE Lost(SetBudget(w, charged.budget), c, "Read", "ResetAfterResponse")

(* finish_response of read_upstream: an upstream whose framing allows it   *)
(* is kept for the client's next request.                                  *)
FinishResponse(w, c, reusable) ==
    LET x == w.conn[c]
        retain == reusable /\ x.reuse # NoUpstream /\ ~x.closeAfter /\ ~x.closeClient
        v == IF retain THEN DeactivateUpstream(w, c) ELSE DropUpstream(w, c)
        finished == FinishUpstreamResponse(x.io)
        y == [v.conn[c] EXCEPT !.io = finished.io] IN
    IF ~finished.ok THEN Put(v, c, GiveUp(y))
    ELSE Reregister(Put(v, c, Refresh(y)), c, {"w"})

(* read_upstream: perhaps a first chunk, then the last thing the socket    *)
(* offers: nothing more, half a header, the last chunk of a response that  *)
(* does or does not let the socket be kept, the end of the stream where    *)
(* the framing accepts it or not, an unacceptable chunk, an error.         *)
ResponseEnds == {"block", "header", "done_keep", "done_close", "eof", "eof_early", "error"}
TakeResponseEnd(w, c, end) ==
    CASE end = "block" -> [w |-> w, then |-> "more"]
      [] end \in {"header", "done_keep", "done_close"} ->
             TakeResponseChunk(w, c, IF end = "header" THEN 0 ELSE 1, end # "header")
      [] end = "eof" /\ w.conn[c].io.attempt.started -> [w |-> w, then |-> "finish"]
      [] end = "error" -> Lost(w, c, "Read", "ResetAfterResponse")
      [] OTHER -> Lost(w, c, "ResetBeforeResponse", "ResetAfterResponse")
ThenEnd(first, c, end) ==
    IF first.then = "more" THEN TakeResponseEnd(first.w, c, end) ELSE first

(* The client is told that there is something to write if there is more    *)
(* than there was before.                                                  *)
TellClient(w, c, before) ==
    IF w.conn[c].io.clientWrite > before THEN Reregister(w, c, {"w"}) ELSE w
ResponseRead(last, c, before, reusable) ==
    CASE last.then = "close"  -> RemoveConnection(DropUpstream(last.w, c), c)
      [] last.then = "reply"  -> QueueClientResponse(DropUpstream(last.w, c), c)
      [] last.then = "finish" -> FinishResponse(last.w, c, reusable)
      [] last.then = "pause"  -> RefreshDeadline(ReconcileRead(TellClient(last.w, c, before), c), c)
      [] last.then = "more"   -> RefreshDeadline(TellClient(last.w, c, before), c)
ReadResponse(w, c, part, end) ==
    ResponseRead(
        ThenEnd(IF part THEN TakeResponseChunk(w, c, 1, FALSE) ELSE [w |-> w, then |-> "more"], c, end),
        c, w.conn[c].io.clientWrite, end = "done_keep")

(* read_upstream_tls_handshake: the peer has nothing yet, answers and is   *)
(* answered, completes the handshake, or fails it.  A flight is only taken *)
(* from the session when nothing waits for the socket.                     *)
ReadTlsHandshake(w, c, end, s) ==
    LET x == w.conn[c]
        answered == [x EXCEPT !.upOut = IF @ = 0 THEN 1 ELSE @]
        done == [answered EXCEPT !.wire = FALSE, !.io = UpstreamConnected(@, WireUnits).io]
        y == CASE end = "block" -> x
               [] end = "flight" -> answered
               [] end = "established" -> done
               [] end = "fail" -> Failed(x, "TlsHandshake").x IN
    IF end = "fail"
    THEN RetryOrReply(DropUpstream(Put(w, c, y), c), c, "TlsHandshake", s)
    ELSE ReregisterUpstream(Put(w, c, Refresh(y)), c, UpstreamInterest(y))

-----------------------------------------------------------------------------
(* Writing the client.                                                     *)

(* The end of a response: the connection is ready for the next request, or *)
(* is to be closed.                                                        *)
CompleteResponse(w, c) ==
    LET x == w.conn[c]
        kept == FinishClientResponse(x.io, TRUE)
        y == [x EXCEPT !.io = kept.io, !.lease = NoUpstream, !.closeClient = FALSE,
                       !.wire = FALSE, !.pendTls = FALSE, !.upOut = 0,
                       !.attempted = {}, !.used = 0] IN
    IF x.closeAfter \/ x.closeClient \/ ~kept.ok
    THEN Put(w, c, [GiveUp(x) EXCEPT !.io = FinishClientResponse(@, FALSE).io])
    ELSE Reregister(Put([ReleaseLease(w, x.lease) EXCEPT !.budget = BudgetDropAll(@, c)],
                        c, Refresh(y)), c, {"r"})

(* release_drained_client_response: a batch larger than the charge is an   *)
(* error that changes nothing.                                             *)
ReleaseDrained(B, c, batch) ==
    IF B.held[c]["response"] < batch THEN Deny(B)
    ELSE BudgetShrinkResponse(B, c, B.held[c]["response"] - batch)

(* One batch through the socket: what is buffered is handed to the         *)
(* transport when nothing waits for the socket, and the socket takes all,  *)
(* some or none of it.  again is TRUE while there is more to write.        *)
DrainBatch(w, c, write) ==
    LET x == w.conn[c]
        n == x.io.clientWrite
        advanced == AdvanceClientWrite(x.io, n)
        loaded == IF x.out > 0 THEN x
                  ELSE [x EXCEPT !.io = advanced.io, !.out = n, !.batch = n]
        shrunk == ReleaseDrained(w.budget, c, loaded.batch)
        drained == [loaded EXCEPT !.out = 0, !.batch = 0]
        left == [loaded EXCEPT !.out = @ - 1]
        End(v) == [again |-> FALSE, w |-> v] IN
    IF x.out = 0 /\ n = 0
    THEN End(IF x.io.state = "WritingClientResponse" THEN CompleteResponse(w, c) ELSE w)
    ELSE IF x.out = 0 /\ ~advanced.ok
    THEN End(Put(w, c, GiveUp([x EXCEPT !.batch = n])))
    ELSE CASE write = "block" -> End(Put(w, c, loaded))
           [] write = "error" -> End(Put(w, c, GiveUp(loaded)))
           [] write = "some" /\ loaded.out > 1 -> End(Put(w, c, Refresh(left)))
           [] OTHER ->
                IF ~shrunk.ok
                THEN End(Put(SetBudget(w, shrunk.budget), c, GiveUp([loaded EXCEPT !.out = 0])))
                ELSE LET v == Put(SetBudget(w, shrunk.budget), c, drained) IN
                     IF drained.io.clientWrite > 0 THEN [again |-> TRUE, w |-> RefreshDeadline(v, c)]
                     ELSE IF x.io.state = "ReadingUpstreamResponse"
                     THEN End(Reregister(RefreshDeadline(v, c), c, {"r"}))
                     ELSE IF x.io.state = "WritingClientResponse"
                     THEN End(CompleteResponse(v, c))
                     ELSE End(Put(v, c, GiveUp(drained)))

(* write_client: at most two batches, the one that waits for the socket    *)
(* and the one buffered behind it.                                         *)
WriteOutcomes == {"all", "some", "block", "error"}
NextBatch(first, c, write) == IF first.again THEN DrainBatch(first.w, c, write).w ELSE first.w
ClientWritten(w, c, before) ==
    LET x == w.conn[c]
        closing == x.out = 0 /\ (x.closeAfter \/ x.io.state \in {"Draining", "Closed", "Failed"})
        resume == /\ x.io.state = "ReadingUpstreamResponse"
                  /\ Buffered(x) < before /\ Buffered(x) < MaxResponseBuffer
        v == IF closing THEN Reregister(w, c, {}) ELSE w IN
    IF resume THEN ReconcileRead(v, c) ELSE v
WriteClient(w, c, write, write2) ==
    IF ~Live(w, c) THEN w
    ELSE ClientWritten(NextBatch(DrainBatch(w, c, write), c, write2), c, Buffered(w.conn[c]))

-----------------------------------------------------------------------------
(* Deadlines and cleanup.                                                  *)

(* expire_connection: a due deadline means what the state says it means    *)
ExpireConnection(w, c, s) ==
    LET x == w.conn[c]
        kind == TimeoutKind(x.io.state)
        upstream == kind \in {"ConnectTimeout", "TlsHandshakeTimeout", "ReadTimeout"}
        settled == IF upstream THEN SetIo(w, c, FailUpstreamAttempt(x.io, kind).io) ELSE w
        v == DropUpstream(settled, c) IN
    CASE ~Live(w, c) -> w
      [] Live(w, c) /\ (~x.deadline \/ kind = "None") -> w
      [] Live(w, c) /\ x.deadline /\ kind = "ReadTimeout" /\ x.io.attempt.started ->
             RemoveConnection(v, c)
      [] Live(w, c) /\ x.deadline /\ upstream /\ ~(kind = "ReadTimeout" /\ x.io.attempt.started) ->
             RetryOrReply(v, c, kind, s)
      [] Live(w, c) /\ x.deadline /\ kind = "ClientIdle" -> QueueClientResponse(v, c)
      [] Live(w, c) /\ x.deadline /\ kind = "ClientWrite" ->
             Put(v, c, [GiveUp(v.conn[c]) EXCEPT !.io = TransitionTo(@, "Failed").io, !.clReg = {}])

(* cleanup_closed: which connections it removes *)
Removable(x) ==
    /\ x.closeAfter /\ x.out = 0
    /\ x.io.state \in {"Draining", "Closed", "Failed", "WritingClientResponse"}
CleanupClosed(w, c) == RemoveConnection(DropUpstream(w, c), c)

(* accept_ready, of one connection *)
Admits(w, maxConnections) ==
    AdmissionDecision(w.budget.pressure, Cardinality(DOMAIN w.conn), maxConnections) = "Accepted"
AcceptConnection(w, c) ==
    ReconcileTransport([w EXCEPT !.conn = [d \in DOMAIN w.conn \cup {c} |->
                                              IF d = c THEN NewConnection ELSE w.conn[d]]], c)

=============================================================================

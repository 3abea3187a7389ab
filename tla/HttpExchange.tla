----------------------------- MODULE HttpExchange -----------------------------
(***************************************************************************)
(* The bytes of one client connection through the proxy: requests read in  *)
(* whatever pieces they arrive, forwarded on a new or a kept upstream      *)
(* socket, answers framed and projected as they stream back, the tunnel an *)
(* upgrade opens, the pages the proxy writes itself, deadlines, resets and *)
(* closings on both sides.                                                 *)
(*                                                                         *)
(* Source: crates/edge-core/src/lib.rs (read_client to expire_connection), *)
(* connection_transport.rs, tls_transport.rs.  Leases, charges, retries    *)
(* and the order of a poll's events are those of DataPlane; here a step    *)
(* reads or writes one piece of any length.  A page is the symbol of its   *)
(* status.                                                                 *)
(***************************************************************************)
EXTENDS HttpFraming

CONSTANTS
    Scripts,   \* what a client asks: sequences of requests
    Answers,   \* what an upstream can answer to a request
    MaxOut,    \* resource_limits.max_response_buffer_bytes
    MaxUpload, \* resource_limits.max_request_body_bytes, the other way of a tunnel
    MaxRises   \* bound: how often the pressure rises

ASSUME ExchangeAssumption == MaxOut \in Nat \ {0} /\ MaxUpload \in Nat \ {0} /\ MaxRises \in Nat

VARIABLES
    script,    \* the requests of this client
    client,    \* what it sent and is unread, whether it closed, what it received
    x,         \* SnapshotMioConnection
    up,        \* the upstream socket and who is at its other end
    served,    \* how many requests the proxy has taken as complete
    due,       \* what the client must be sent for this request
    pressed,   \* payload_ledger.pressure_state() is not Normal
    rises      \* how often it rose

vars == <<script, client, x, up, served, due, pressed, rises>>

(* What the peers mean, apart from how the proxy reads it.  A request has  *)
(* the fields an upstream is to see and the fields of this connection; an  *)
(* answer is framed in one of four ways, or it is damaged.  A message      *)
(* whose own Connection field names its length is sent on without it.      *)
Sized(lines, hops) == IF NamesLength \in ToSet(hops) THEN SelectSeq(lines, LAMBDA l : l \notin Lengths)
                      ELSE lines
RequestWire(r) == HeadOf(<<r.line>> \o r.ends \o r.hops) \o r.body
Forwarded(r, tls, keepAlive) ==
    LET ends == Sized(r.ends, r.hops) IN
    HeadOf(<<r.line>> \o [i \in DOMAIN ends |-> Addressed(ends[i], tls)]
           \o (IF r.upgrade THEN <<"Upgrade: websocket", "Connection: upgrade">> ELSE <<>>)
           \o <<"X-Forwarded: proxy">>
           \o (IF r.upgrade \/ keepAlive THEN <<>> ELSE <<"Connection: close">>))
    \o r.body

FramingLines(a) ==
    CASE a.framing = "length"  -> <<a.length>>
      [] a.framing = "chunked" -> <<Chunked>>
      [] a.framing \in {"none", "eof", "tunnel"} -> <<>>
BodyWire(a) ==
    CASE a.framing = "chunked" ->
           FlattenSeq([i \in DOMAIN a.data |-> Line("size 1") \o <<a.data[i]>> \o Crlf])
           \o Line("size 0") \o a.trailer \o Crlf
      [] a.framing # "chunked" -> a.data
AnswerWire(a, r, framing, hops, close) ==
    a.interim \o HeadOf(<<a.status>> \o a.ends \o framing \o hops \o close)
    \o (IF r.line = "HEAD" THEN <<>> ELSE BodyWire(a))
Sent(a, r) ==
    LET wire == AnswerWire(a, r, FramingLines(a), a.hops, <<>>) IN
    IF a.junk \in DOMAIN wire THEN [wire EXCEPT ![a.junk] = "junk"] ELSE wire
Projected(a, r, close) ==
    IF a.framing = "tunnel" THEN Sent(a, r)
    ELSE AnswerWire(a, r, Sized(FramingLines(a), a.hops), <<>>, IF close THEN <<"Connection: close">> ELSE <<>>)

Page(code) == <<code>>

-----------------------------------------------------------------------------
(* The connection.  tls is the client's transport, upTls the upstream's.   *)

NewConnection(tls, upTls) ==
    [state |-> "ReadingClientRequest", tls |-> IF tls THEN "handshaking" ELSE "none",
     upTls |-> upTls, buffer |-> <<>>, close |-> FALSE, out |-> <<>>, wire |-> <<>>,
     upgrade |-> FALSE, started |-> FALSE, cut |-> FALSE, framing |-> NewFraming(FALSE),
     sanitizer |-> NewSanitizer(FALSE), ws |-> <<>>, toUp |-> <<>>, reg |-> {}]

(* upstream: None, the kept socket of an earlier answer, or a busy one.    *)
(* got is what its peer has of this request, and of any before it that     *)
(* was not written in full; short tells that there was one.                *)
NoSocket == [state |-> "none", keepAlive |-> FALSE, got |-> <<>>, short |-> FALSE,
             unread |-> <<>>, eof |-> FALSE, answer |-> FALSE]

Init ==
    /\ script \in Scripts /\ client = [unread |-> FlattenSeq([i \in DOMAIN script |->
                                                         RequestWire(script[i])]),
                                       eof |-> FALSE, framed |-> FALSE, got |-> <<>>]
    /\ \E tls, upTls \in BOOLEAN : x = NewConnection(tls, upTls)
    /\ up = NoSocket /\ served = 0 /\ due = <<>>
    /\ pressed = FALSE /\ rises = 0

Reading   == x.state = "ReadingClientRequest"
Awaiting  == x.state = "ReadingUpstreamResponse"
Tunneling == x.state = "TunnelingWebSocket"
Gone      == x.state = "Closed"

(* How much one read or write takes: one symbol, two, all but one or all   *)
(* there is, so that a cut can be anywhere and a read can run into the     *)
(* next message.                                                           *)
Pieces(s) == {1, 2, Len(s) - 1, Len(s)} \cap 1..Len(s)
Piece(s, n) == SubSeq(s, 1, n)
Rest(s, n) == SubSeq(s, n + 1, Len(s))

(* remove_connection: what was not written is lost.                        *)
Removed == [x EXCEPT !.state = "Closed", !.out = <<>>, !.wire = <<>>, !.reg = {}]
Leave ==
    /\ x' = Removed /\ up' = NoSocket
    /\ UNCHANGED <<script, served, due, pressed, rises>>

(* queue_client_response with a page: it declares that it closes, so the   *)
(* connection is closed after it.                                          *)
Answered(y, code) == [y EXCEPT !.state = "WritingClientResponse", !.close = TRUE,
                               !.out = Page(code), !.buffer = <<>>, !.wire = <<>>]
Answer(y, code) ==
    /\ x' = Answered(y, code) /\ due' = Page(code)
    /\ UNCHANGED <<script, pressed, rises>>

-----------------------------------------------------------------------------
(* The client's side.                                                      *)

(* route_completed_request: the close decision, then a page of the         *)
(* proxy's own or an upstream.  keepAlive is whether the socket may be     *)
(* kept for the next request; a kept socket to the same upstream is used,  *)
(* any other is dropped, and what was still to be written is forgotten.    *)
(* begin_response_framing starts the answer.                               *)
BeginFraming(y, request, upgrade) ==
    [y EXCEPT !.upgrade = upgrade, !.started = FALSE, !.ws = <<>>,
              !.framing = NewFraming(request.line = "HEAD"),
              !.sanitizer = NewSanitizer(y.close)]
Route(bytes) ==
    LET request == ParseRequest(bytes)
        upgrade == Upgrades(request.headers)
        y == [x EXCEPT !.buffer = <<>>, !.close = Closes(request.headers) \/ x.tls # "none"]
        keepAlive == ~x.upTls /\ ~upgrade /\ ~y.close
    IN /\ served' = served + 1
       /\ IF request.code # "" THEN Answer(x, request.code) /\ UNCHANGED up
          ELSE \/ \E code \in {"308", "404", "502", "503"} : Answer(y, code) /\ UNCHANGED up
               \/ \E same \in BOOLEAN :
                    LET reuse == up.state = "kept" /\ keepAlive /\ same IN
                    /\ x' = [BeginFraming(y, request, upgrade) EXCEPT
                               !.state = "WritingUpstreamRequest",
                               !.wire = BuildUpstreamRequest(request, upgrade, x.upTls, keepAlive)]
                    /\ up' = IF reuse THEN [up EXCEPT !.state = "busy", !.answer = FALSE,
                                                      !.short = @ \/ x.wire # <<>>]
                             ELSE [NoSocket EXCEPT !.state = "busy", !.keepAlive = keepAlive]
                    /\ due' = <<>> /\ UNCHANGED <<script, pressed, rises>>

(* read_client: one piece.  A piece of a TLS handshake is not plaintext.   *)
TakesHandshake ==
    /\ Reading /\ x.tls = "handshaking"
    /\ x' = [x EXCEPT !.tls = "established"]
    /\ UNCHANGED <<script, client, up, served, due, pressed, rises>>
ReadClient(n) ==
    LET push == PushRequest(x.buffer, Piece(client.unread, n)) IN
    /\ Reading /\ x.tls # "handshaking"
    /\ client' = [client EXCEPT !.unread = Rest(@, n)]
    /\ CASE push.outcome = "more" ->
              /\ x' = [x EXCEPT !.buffer = push.bytes]
              /\ UNCHANGED <<script, up, served, due, pressed, rises>>
         [] push.outcome = "complete" -> Route(push.bytes)
         [] push.outcome \notin {"more", "complete"} ->
              Answer(x, push.outcome) /\ UNCHANGED <<up, served>>

(* A read of nothing while a request is awaited removes the connection,    *)
(* also one that broke off the handshake.                                  *)
ReadClientEof ==
    /\ Reading /\ client.eof /\ (client.unread = <<>> \/ x.tls = "handshaking")
    /\ Leave /\ UNCHANGED client

(* The client closes its sending side, before or after all it had to say,  *)
(* which shows where the proxy reads it, or resets: then the connection is *)
(* dropped whatever it was doing.                                          *)
ClientCloses(n) ==
    /\ ~client.eof /\ (Reading \/ Tunneling)
    /\ client' = [client EXCEPT !.eof = TRUE, !.unread = Piece(@, n)]
    /\ UNCHANGED <<script, x, up, served, due, pressed, rises>>
ClientResets == ~Gone /\ Leave /\ UNCHANGED client

(* write_client: a piece of the output, and what follows the last one,     *)
(* which may have been written before the answer was known to be whole.    *)
(* An answer that does not close the connection is followed by the next    *)
(* request; a TLS client is told that the answer is whole.  client.got is  *)
(* what came of this answer, and of any before it that was not whole.      *)
WritePieces == IF x.out = <<>> THEN {0} ELSE Pieces(x.out)
Finished(y) == [y EXCEPT !.state = "ReadingClientRequest", !.close = FALSE]
WriteClient(n) ==
    LET ends == n = Len(x.out) /\ x.state = "WritingClientResponse"
        y == [x EXCEPT !.out = Rest(@, n)]
        tls == IF ends /\ x.close /\ x.tls = "established" THEN <<"close_notify">> ELSE <<>>
        got == client.got \o Piece(x.out, n) \o tls
    IN /\ ~Tunneling
       /\ n > 0 \/ x.state = "WritingClientResponse"
       /\ client' = [client EXCEPT !.got = IF ends /\ ~x.close /\ got = due THEN <<>> ELSE got]
       /\ x' = IF ~ends THEN y ELSE IF x.close THEN Removed ELSE Finished(y)
       /\ up' = IF ends /\ x.close THEN NoSocket ELSE up
       /\ due' = IF ends /\ ~x.close THEN <<>> ELSE due
       /\ UNCHANGED <<script, served, pressed, rises>>

-----------------------------------------------------------------------------
(* The upstream's side.                                                    *)

(* write_upstream: the transport takes the request, a TLS session perhaps  *)
(* only a part of it, and the answer is awaited from then on; the socket   *)
(* takes a piece of what the transport has, now or while the answer comes: *)
(* nothing, the header, or all.                                            *)
Writing == x.state = "WritingUpstreamRequest" \/ (Awaiting /\ x.wire # <<>>)
WireCuts == {0, HeaderEnd(x.wire), Len(x.wire)}
WriteUpstream(n) ==
    /\ Writing /\ (Awaiting => n > 0)
    /\ up' = [up EXCEPT !.got = @ \o Piece(x.wire, n)]
    /\ \E taken \in {TRUE} \cup {Awaiting \/ ~x.upTls \/ n = Len(x.wire)} :
          x' = [x EXCEPT !.wire = Rest(@, n),
                         !.state = IF taken THEN "ReadingUpstreamResponse" ELSE @]
    /\ UNCHANGED <<script, client, served, due, pressed, rises>>

(* A connect or a write that fails: a page.  It replaces what is left of   *)
(* an answer that has begun, except for the k symbols that are in the      *)
(* client's transport already.                                             *)
WriteUpstreamFails(k) ==
    /\ Writing /\ up' = NoSocket /\ UNCHANGED <<client, served>>
    /\ IF ~x.started THEN k = 0 /\ Answer(x, "502")
       ELSE /\ x' = [Answered(x, "502") EXCEPT !.out = Piece(x.out, k) \o @, !.cut = TRUE]
            /\ UNCHANGED <<script, due, pressed, rises>>

(* The upstream answers, perhaps before it has the whole request, or       *)
(* closes, at the end of an answer or inside; a kept socket that was       *)
(* closed shows it when the next answer is awaited.                        *)
UpstreamAnswers(a) ==
    LET r == script[served] IN
    /\ Awaiting /\ up.state = "busy" /\ ~up.answer /\ ~up.eof
    /\ a.framing = "tunnel" => r.upgrade
    /\ up' = [up EXCEPT !.unread = @ \o Sent(a, r), !.answer = TRUE, !.eof = a.framing = "eof"]
    /\ due' = Projected(a, r, x.close)
    /\ UNCHANGED <<script, client, x, served, pressed, rises>>
UpstreamCloses(n) ==
    /\ up.state = "busy" /\ (Awaiting \/ Tunneling) /\ ~up.eof
    /\ up' = [up EXCEPT !.unread = Piece(@, n), !.eof = TRUE]
    /\ UNCHANGED <<script, client, x, served, due, pressed, rises>>

(* read_upstream, a failure: a page while the client has nothing of the    *)
(* answer, otherwise the connection is dropped.                            *)
AttemptFails(code) ==
    IF x.started THEN Leave ELSE Answer(x, code) /\ up' = NoSocket /\ UNCHANGED served

(* The end of an answer: is the socket kept for the next request?  Whether *)
(* the request went out in full is not asked.                              *)
Completes(y, unread) ==
    LET kept == up.keepAlive /\ ~y.close /\ KeepAliveReusable(y.framing) IN
    /\ x' = [y EXCEPT !.state = "WritingClientResponse", !.wire = IF kept THEN @ ELSE <<>>]
    /\ up' = IF kept THEN [up EXCEPT !.state = "kept", !.unread = unread,
                                     !.got = IF x.wire = <<>> /\ ~up.short THEN <<>> ELSE @]
             ELSE NoSocket
ReadUpstream(n) ==
    LET input == Piece(up.unread, n)
        push == Push(x.framing, input)
        clean == Sanitize(x.sanitizer, Piece(input, push.consumed))
        y == [x EXCEPT !.framing = push.f, !.sanitizer = clean.s, !.out = @ \o clean.output,
                       !.started = @ \/ clean.output # <<>>]
    IN /\ Awaiting /\ ~x.upgrade /\ up.state = "busy" /\ Len(x.out) < MaxOut
       /\ IF push.f.state = "Failed" THEN AttemptFails("502")
          ELSE /\ IF push.f.state = "Complete" THEN Completes(y, Rest(up.unread, n))
                  ELSE x' = y /\ up' = [up EXCEPT !.unread = Rest(@, n)]
               /\ UNCHANGED <<script, served, due, pressed, rises>>
       /\ UNCHANGED client
ReadUpstreamEof ==
    /\ Awaiting /\ ~x.upgrade /\ up.state = "busy" /\ up.eof /\ up.unread = <<>>
    /\ Len(x.out) < MaxOut
    /\ IF ~x.started \/ FinishOnEof(x.framing).state = "Failed" THEN AttemptFails("502")
       ELSE /\ Completes([x EXCEPT !.framing = FinishOnEof(@)], <<>>)
            /\ UNCHANGED <<script, served, due, pressed, rises>>
    /\ UNCHANGED client

-----------------------------------------------------------------------------
(* The upgrade and the tunnel.                                             *)

(* reregister_tunnel_interests: the events a socket is registered for.     *)
Interests(y, press) ==
    {e \in {"readClient", "writeClient", "readUpstream", "writeUpstream"} :
        CASE e = "readClient"    -> ~press /\ Len(y.toUp) < MaxUpload
          [] e = "readUpstream"  -> ~press /\ Len(y.out) < MaxOut
          [] e = "writeClient"   -> y.out # <<>>
          [] e = "writeUpstream" -> y.toUp # <<>>}
Registered(y) == [y EXCEPT !.reg = Interests(y, pressed)]

(* websocket_response_is_switching_protocols: 101, by a valid head that    *)
(* agrees to the upgrade.                                                  *)
Switches(bytes) ==
    LET lines == LinesOf(Piece(bytes, HeaderEnd(bytes))) IN
    lines[1] = "101" /\ ~MalformedHead(lines) /\ Upgrades(lines)

(* read_websocket_upgrade_response: nothing is sent on before the header   *)
(* is whole; then a tunnel starts with all that was read, or what was read *)
(* is the answer, and the upstream is dropped.                             *)
ReadUpgrade(n) ==
    LET ws == x.ws \o Piece(up.unread, n) IN
    /\ Awaiting /\ x.upgrade /\ up.state = "busy"
    /\ IF HeaderEnd(ws) = 0
       THEN /\ x' = [x EXCEPT !.ws = ws] /\ up' = [up EXCEPT !.unread = Rest(@, n)]
            /\ UNCHANGED due
       ELSE IF Switches(ws)
       THEN /\ x' = Registered([x EXCEPT !.state = "TunnelingWebSocket", !.ws = <<>>, !.out = ws,
                                          !.toUp = x.wire, !.wire = <<>>])
            /\ up' = [up EXCEPT !.unread = Rest(@, n)]
            /\ UNCHANGED due
       ELSE /\ x' = [x EXCEPT !.state = "WritingClientResponse", !.ws = <<>>, !.out = ws,
                              !.wire = <<>>, !.close = @ \/ Closes(LinesOf(ws))]
            /\ up' = NoSocket /\ due' = ws
    /\ UNCHANGED <<script, client, served, pressed, rises>>
ReadUpgradeEof ==
    /\ Awaiting /\ x.upgrade /\ up.state = "busy" /\ up.eof /\ up.unread = <<>>
    /\ IF x.ws = <<>> THEN Answer(x, "502")
       ELSE /\ x' = [x EXCEPT !.state = "WritingClientResponse", !.ws = <<>>, !.out = x.ws,
                              !.wire = <<>>]
            /\ due' = x.ws /\ UNCHANGED <<script, pressed, rises>>
    /\ up' = NoSocket /\ UNCHANGED <<client, served>>

(* A client that has seen the 101 sends its frames.                        *)
ClientSendsFrames ==
    /\ Tunneling /\ HeaderEnd(client.got) # 0 /\ ~client.eof /\ ~client.framed
    /\ client' = [client EXCEPT !.framed = TRUE, !.unread = @ \o script[served].frames]
    /\ UNCHANGED <<script, x, up, served, due, pressed, rises>>

Delivered(event) == Tunneling /\ event \in x.reg
TunnelUnchanged == UNCHANGED <<script, served, due, pressed, rises>>

(* read_client_tunnel and read_upstream_tunnel; a read of nothing closes   *)
(* the tunnel, and cleanup_closed removes it with what is unwritten.       *)
ReadClientTunnel(n) ==
    /\ Delivered("readClient") /\ ~pressed /\ Len(x.toUp) < MaxUpload
    /\ client' = [client EXCEPT !.unread = Rest(@, n)]
    /\ x' = Registered([x EXCEPT !.toUp = @ \o Piece(client.unread, n)])
    /\ UNCHANGED up /\ TunnelUnchanged
ReadUpstreamTunnel(n) ==
    /\ Delivered("readUpstream") /\ ~pressed /\ Len(x.out) < MaxOut
    /\ up' = [up EXCEPT !.unread = Rest(@, n)]
    /\ x' = Registered([x EXCEPT !.out = @ \o Piece(up.unread, n)])
    /\ UNCHANGED client /\ TunnelUnchanged
TunnelEnds ==
    /\ \/ Delivered("readClient") /\ client.eof /\ client.unread = <<>>
       \/ Delivered("readUpstream") /\ up.eof /\ up.unread = <<>>
    /\ ~pressed /\ Leave /\ UNCHANGED client

(* write_client_tunnel and write_upstream_tunnel; the slips come first     *)
WriteClientDropsRest(n) ==
    /\ Delivered("writeClient")
    /\ client' = [client EXCEPT !.got = @ \o Piece(x.out, n)]
    /\ x' = Registered([x EXCEPT !.out = <<>>])
    /\ UNCHANGED up /\ TunnelUnchanged
WriteClientTunnel(n) ==
    /\ Delivered("writeClient")
    /\ client' = [client EXCEPT !.got = @ \o Piece(x.out, n)]
    /\ x' = Registered([x EXCEPT !.out = Rest(@, n)])
    /\ UNCHANGED up /\ TunnelUnchanged
WriteUpstreamTunnel(n) ==
    /\ Delivered("writeUpstream")
    /\ up' = [up EXCEPT !.got = @ \o Piece(x.toUp, n)]
    /\ x' = Registered([x EXCEPT !.toUp = Rest(@, n)])
    /\ UNCHANGED client /\ TunnelUnchanged

(* Other connections raise the pressure and relieve it; every turn ends    *)
(* with enforce_resource_pressure_interests.                               *)
PressureRises ==
    /\ Tunneling /\ ~pressed /\ rises < MaxRises
    /\ pressed' = TRUE /\ rises' = rises + 1
    /\ UNCHANGED <<script, client, x, up, served, due>>
PressureFalls ==
    /\ Tunneling /\ pressed /\ pressed' = FALSE
    /\ UNCHANGED <<script, client, x, up, served, due, rises>>
ForgetsTunnels ==
    /\ Tunneling /\ x.reg # {} /\ x' = Registered(x) /\ x' # x
    /\ UNCHANGED <<script, client, up, served, due, pressed, rises>>
TurnEnds ==
    /\ Tunneling /\ x' = Registered(x) /\ x' # x
    /\ UNCHANGED <<script, client, up, served, due, pressed, rises>>

-----------------------------------------------------------------------------
(* expire_connection.  A client that does not finish its request is told   *)
(* so, one that does not finish the handshake is not; an upstream that     *)
(* does not answer is dropped; a client that does not read is dropped.     *)
(* A tunnel has no deadline.                                               *)
Expire ==
    /\ CASE Reading -> IF x.tls = "handshaking" THEN Leave
                       ELSE Answer(x, "408") /\ up' = NoSocket /\ UNCHANGED served
         [] x.state \in {"WritingUpstreamRequest", "ReadingUpstreamResponse"} -> AttemptFails("504")
         [] x.state = "WritingClientResponse" -> Leave
         [] OTHER -> FALSE
    /\ UNCHANGED client

Ended == Gone /\ UNCHANGED vars

Next ==
    \/ TakesHandshake \/ ReadClientEof \/ ClientResets
    \/ \E n \in {0, Len(client.unread)} : ClientCloses(n)
    \/ \E n \in Pieces(client.unread) : ReadClient(n) \/ ReadClientTunnel(n)
    \/ \E n \in WritePieces : WriteClient(n)
    \/ \E n \in Pieces(x.out) : WriteClientTunnel(n)
    \/ \E n \in WireCuts : WriteUpstream(n)
    \/ \E n \in Pieces(x.toUp) : WriteUpstreamTunnel(n)
    \/ \E k \in 0..Len(x.out) : WriteUpstreamFails(k)
    \/ \E a \in Answers : UpstreamAnswers(a)
    \/ \E n \in {0, Len(up.unread)} : UpstreamCloses(n)
    \/ \E n \in Pieces(up.unread) : ReadUpstream(n) \/ ReadUpgrade(n) \/ ReadUpstreamTunnel(n)
    \/ ReadUpstreamEof \/ ReadUpgradeEof \/ ClientSendsFrames \/ TunnelEnds
    \/ PressureRises \/ PressureFalls \/ TurnEnds \/ Expire \/ Ended

Spec == Init /\ [][Next]_vars

(* In a tunnel the loop serves the sockets that are ready and ends its     *)
(* turns, both peers take what is written to them, and the pressure that   *)
(* other connections made falls again.                                     *)
FairSpec ==
    /\ Spec
    /\ WF_vars(TurnEnds) /\ WF_vars(PressureFalls)
    /\ WF_vars(\E n \in Pieces(client.unread) : ReadClientTunnel(n))
    /\ WF_vars(\E n \in Pieces(x.out) : WriteClientTunnel(n))
    /\ WF_vars(\E n \in Pieces(up.unread) : ReadUpstreamTunnel(n))
    /\ WF_vars(\E n \in Pieces(x.toUp) : WriteUpstreamTunnel(n))

-----------------------------------------------------------------------------
(* Properties.                                                             *)

(* What an upstream is sent is the request the client made, in its turn:   *)
(* however the bytes of one request or of several were cut on their way    *)
(* in, the upstream gets the end-to-end fields and the body of that one    *)
(* request, and never anything of a request that has to be refused.  Two   *)
(* exceptions: a request whose Connection field names its length arrives   *)
(* without the length (RequestsAreFramed fails), and one sent on a kept    *)
(* socket may follow the beginning of another (KeptSocketsAreWhole fails). *)
Asking == x.state \in {"WritingUpstreamRequest", "ReadingUpstreamResponse"}
RequestsArriveAsSent ==
    Asking =>
        LET r == script[served]
            sent == up.got \o x.wire
            wanted == Forwarded(r, x.upTls, up.keepAlive)
        IN  r.ok /\ IF up.short THEN IsSuffix(wanted, sent) ELSE sent = wanted

(* What the two exceptions except: a body is sent with its length, and a   *)
(* request on a kept socket follows requests that were sent in full.       *)
RequestsAreFramed ==
    Asking => \A l \in Lengths \cap ToSet(script[served].ends) : l \in ToSet(up.got \o x.wire)
KeptSocketsAreWhole == ~up.short

(* What the client gets is, answer by answer, the projection of what the   *)
(* upstream sent or a page, cut nowhere and doubled nowhere; when the      *)
(* connection waits for the next request, or a TLS client is told that no  *)
(* more comes, every answer before it is whole.  The exception is a        *)
(* request whose last bytes cannot be written while its answer streams:    *)
(* the client then gets a part of the answer, the page, and nothing more.  *)
AnswersArriveAsSent ==
    LET got == client.got \o x.out IN
    /\ \E rest \in {<<>>, <<"close_notify">>} :
          IF x.cut THEN \E n \in 0..Len(due) : IsPrefix(got, Piece(due, n) \o Page("502") \o rest)
          ELSE IsPrefix(got, due \o rest)
    /\ Reading => client.got = <<>>
    /\ "close_notify" \in ToSet(client.got) => x.cut \/ IsPrefix(due, client.got)

(* A tunnel is there only when the client asked for it and the upstream    *)
(* agreed, and it carries the bytes of each side to the other in order,    *)
(* none before its turn and none lost between request, 101 and frames.     *)
TunnelKeepsBytes ==
    Tunneling =>
        LET r == script[served] IN
        /\ r.upgrade /\ due[1] = "101"
        /\ IsPrefix(up.got \o x.toUp \o client.unread,
                    Forwarded(r, x.upTls, FALSE) \o (IF client.framed THEN r.frames ELSE <<>>))
        /\ IsPrefix(client.got \o x.out \o up.unread, due)

(* Whatever the flow limits and the pressure paused, a tunnel that is not  *)
(* torn down delivers everything that either side sent.                    *)
AllThrough == client.unread \o x.toUp \o up.unread \o x.out = <<>>
TunnelDelivers == [](Tunneling => <>(Gone \/ AllThrough))

=============================================================================

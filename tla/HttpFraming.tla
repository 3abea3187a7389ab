------------------------------ MODULE HttpFraming ------------------------------
(***************************************************************************)
(* HTTP/1.1 on the wire, as the proxy reads and writes it: the buffer that *)
(* finds the end of a request, the parser, the projection of a request for *)
(* its upstream, the incremental framing of an answer and the incremental  *)
(* projection of its header.                                               *)
(*                                                                         *)
(* Source: crates/edge-core/src/http_request.rs,                           *)
(* upstream_response_framing.rs, http_forwarding_policy.rs and the request *)
(* builders of lib.rs.  A wire is a sequence of symbols: "CR", "LF", one   *)
(* symbol for the text of a line, one for a byte of a body.  A read may    *)
(* end anywhere, also inside a line terminator.  Lengths count symbols.    *)
(***************************************************************************)
EXTENDS Integers, Sequences, SequencesExt

CONSTANTS
    MaxHeader,       \* limits.max_header_bytes
    MaxHeaderCount,  \* limits.max_header_count
    MaxBody          \* limits.max_body_bytes

ASSUME FramingAssumption ==
    MaxHeader \in Nat /\ MaxHeaderCount \in Nat /\ MaxBody \in Nat

Crlf == <<"CR", "LF">>
Line(l) == <<l>> \o Crlf
HeadOf(lines) == FlattenSeq([i \in DOMAIN lines |-> Line(lines[i])]) \o Crlf
LinesOf(bytes) == SelectSeq(bytes, LAMBDA b : b \notin {"CR", "LF"})
EndsWith(bytes, tail) == IsSuffix(tail, bytes)

(* windows(4).position: the index of the last symbol of the first blank    *)
(* line, 0 while there is none.                                            *)
HeaderEnd(bytes) ==
    LET ends == {i \in 4..Len(bytes) : SubSeq(bytes, i - 3, i) = Crlf \o Crlf} IN
    IF ends = {} THEN 0 ELSE CHOOSE i \in ends : \A j \in ends : i <= j

(* The header lines that frame a message.                                  *)
Lengths == {"Content-Length: 0", "Content-Length: 1", "Content-Length: 2", "Content-Length: 3"}
LengthOf(l) == CASE l = "Content-Length: 0" -> 0 [] l = "Content-Length: 1" -> 1
                 [] l = "Content-Length: 2" -> 2 [] l = "Content-Length: 3" -> 3
Chunked == "Transfer-Encoding: chunked"
LengthLines(lines) == SelectSeq(lines, LAMBDA l : l \in Lengths)

(* Lines no parser takes: no colon, or a control byte in the value.        *)
BadFields == {"no colon", "bad value"}

-----------------------------------------------------------------------------
(* Requests.  A refusal is the code of the page the client gets.           *)

Methods == {"GET", "HEAD", "POST"}

(* validate_request_line *)
RequestLineCode(l) ==
    CASE l \in Methods -> "" [] l = "CONNECT" -> "405" [] OTHER -> "400"

(* expected_request_body_len_from_headers *)
ExpectedBody(headers) ==
    LET ls == LengthLines(headers)
        refused == \/ \E l \in ToSet(headers) : l = "Content-Length: x" \/ l = Chunked
                   \/ \E i, j \in DOMAIN ls : ls[i] # ls[j]
    IN [code |-> IF refused THEN "400" ELSE "",
        length |-> IF refused \/ ls = <<>> THEN 0 ELSE LengthOf(ls[1])]

(* expected_request_body_len_from_header_bytes *)
ExpectedBodyOfHead(lines) ==
    LET line == RequestLineCode(lines[1]) IN
    IF line # "" THEN [code |-> line, length |-> 0]
    ELSE IF ToSet(lines) \cap BadFields # {} THEN [code |-> "400", length |-> 0]
    ELSE ExpectedBody(Tail(lines))

(* ClientRequestBuffer::push: "more", "complete" or a refusal              *)
PushRequest(buffer, chunk) ==
    LET bytes == buffer \o chunk
        end == HeaderEnd(bytes)
        expected == ExpectedBodyOfHead(LinesOf(SubSeq(bytes, 1, end)))
    IN [bytes |-> bytes,
        outcome |->
          IF end = 0 THEN (IF Len(bytes) > MaxHeader THEN "431" ELSE "more")
          ELSE IF end - 4 > MaxHeader THEN "431"
          ELSE IF expected.code # "" THEN expected.code
          ELSE IF expected.length > MaxBody \/ Len(bytes) > end + MaxBody THEN "413"
          ELSE IF Len(bytes) >= end + expected.length THEN "complete" ELSE "more"]

(* validate_http11_host_authority *)
HostIsClear(headers) == Len(SelectSeq(headers, LAMBDA l : l = "Host: a")) = 1

(* parse_http_request: the request a complete buffer holds, with the code  *)
(* of its refusal.  A slip that takes whatever follows the header as the   *)
(* body comes first.                                                       *)
HeadersCode(headers) ==
    IF Len(headers) > MaxHeaderCount THEN "431"
    ELSE IF "bad name: x" \in ToSet(headers) \/ ~HostIsClear(headers) THEN "400" ELSE ""
RequestOf(bytes, end, code) ==
    LET lines == LinesOf(SubSeq(bytes, 1, end)) IN
    [code |-> code, line |-> lines[1], headers |-> Tail(lines),
     body |-> SubSeq(bytes, end + 1, Len(bytes))]
ParseTakesTheRest(bytes) ==
    LET end == HeaderEnd(bytes) IN
    RequestOf(bytes, end, HeadersCode(Tail(LinesOf(SubSeq(bytes, 1, end)))))
ParseRequest(bytes) ==
    LET end == HeaderEnd(bytes)
        headers == Tail(LinesOf(SubSeq(bytes, 1, end)))
        code == HeadersCode(headers)
    IN RequestOf(bytes, end,
                 IF code = "" /\ Len(bytes) - end # ExpectedBody(headers).length THEN "400"
                 ELSE code)

-----------------------------------------------------------------------------
(* What is forwarded.                                                      *)

Closes(headers) == "Connection: close" \in ToSet(headers)

(* is_websocket_upgrade; an answer agrees by the same two fields           *)
Upgrades(headers) == {"Connection: upgrade", "Upgrade: websocket"} \subseteq ToSet(headers)

(* connection_header_tokens: the fields the Connection fields name, which  *)
(* may be any, also one that the message needs                             *)
NamesHop == "Connection: x-hop"
NamesLength == "Connection: content-length"
Nominated(headers) ==
    UNION {CASE l = NamesHop -> {"X-Hop: 1"} [] l = NamesLength -> Lengths [] OTHER -> {} :
              l \in ToSet(headers)}

(* is_hop_by_hop_header_name *)
HopByHop == {"Connection: close", "Connection: upgrade", NamesHop, NamesLength,
             "Keep-Alive: 1", "TE: trailers", Chunked, "Upgrade: websocket"}

(* remove_hop_by_hop_headers, with the fields that are kept all the same   *)
EndToEnd(headers, kept) ==
    SelectSeq(headers, LAMBDA l : l \in kept \/ l \notin HopByHop \cup Nominated(headers))

(* upstream_request_headers *)
UpstreamHeaders(headers, upgrade) ==
    IF upgrade THEN Append(EndToEnd(headers, {"Upgrade: websocket"}), "Connection: upgrade")
    ELSE EndToEnd(headers, {})

(* build_upstream_request_with_host_override_and_connection_close: the     *)
(* client's own X-Forwarded fields are replaced, and an upstream reached   *)
(* over TLS is addressed by its configured name.                           *)
Addressed(l, tls) == IF tls /\ l = "Host: a" THEN "Host: upstream" ELSE l
BuildUpstreamRequest(request, upgrade, tls, keepAlive) ==
    LET own == SelectSeq(UpstreamHeaders(request.headers, upgrade),
                         LAMBDA l : l # "X-Forwarded: client")
        headers == Append([i \in DOMAIN own |-> Addressed(own[i], tls)], "X-Forwarded: proxy")
    IN HeadOf(<<request.line>> \o headers
              \o (IF upgrade \/ keepAlive THEN <<>> ELSE <<"Connection: close">>))
       \o request.body

-----------------------------------------------------------------------------
(* The framing of an answer (HttpResponseFraming).                         *)

Interim == {"100", "103"}
Bodiless == {"101", "204", "304"}
Statuses == Interim \cup Bodiless \cup {"200", "403"}

(* with_body_expectation *)
NewFraming(head) ==
    [state |-> "Headers", line |-> <<>>, left |-> 0, head |-> head,
     close |-> FALSE, untilEof |-> FALSE]

Fail(f) == [f EXCEPT !.state = "Failed"]
Goes(f, state) == [f EXCEPT !.state = state, !.line = <<>>]
GoesFor(f, state, n) == [Goes(f, state) EXCEPT !.left = n]

(* parse_response_framing_headers and what push does with the result       *)
MalformedHead(lines) ==
    LET headers == ToSet(Tail(lines)) IN
    \/ lines[1] \notin Statuses
    \/ headers \cap (BadFields \cup {"bad name: x", "Transfer-Encoding: chunked, gzip"}) # {}
    \/ Len(LengthLines(lines)) > 1
    \/ Chunked \in headers /\ LengthLines(lines) # <<>>
AfterHead(f, lines) ==
    LET ls == LengthLines(lines)
        final == [f EXCEPT !.close = Closes(lines)]
    IN CASE MalformedHead(lines) -> Fail(f)
         [] ~MalformedHead(lines) /\ lines[1] \in Interim -> Goes(f, "Headers")
         [] ~MalformedHead(lines) /\ lines[1] \notin Interim ->
              IF f.head \/ lines[1] \in Bodiless THEN Goes(final, "Complete")
              ELSE IF Chunked \in ToSet(lines) THEN Goes(final, "ChunkSize")
              ELSE IF ls = <<>> THEN [Goes(final, "CloseDelimited") EXCEPT !.untilEof = TRUE]
              ELSE IF LengthOf(ls[1]) = 0 THEN Goes(final, "Complete")
              ELSE GoesFor(final, "ContentLength", LengthOf(ls[1]))

(* parse_chunk_size *)
Sizes == {"size 0", "size 1", "size 2"}
SizeOf(l) == CASE l = "size 0" -> 0 [] l = "size 1" -> 1 [] l = "size 2" -> 2
AfterSize(f, line) ==
    IF line = <<>> THEN Fail(f)
    ELSE IF line[1] \notin Sizes THEN Fail(f)
    ELSE IF SizeOf(line[1]) = 0 THEN Goes(f, "Trailers")
    ELSE GoesFor(f, "ChunkData", SizeOf(line[1]))

(* One byte of push: try_push_bounded, then the arm of the state.          *)
Bounded(f) == Len(f.line) < MaxHeader
OneLess(f, next) == IF f.left = 1 THEN Goes(f, next) ELSE [f EXCEPT !.left = @ - 1]
PushByte(f, b) ==
    LET line == Append(f.line, b)
        whole == LinesOf(line)
    IN CASE f.state \in {"Headers", "ChunkSize", "Trailers"} /\ ~Bounded(f) -> Fail(f)
         [] f.state = "Headers" /\ Bounded(f) ->
              IF EndsWith(line, Crlf \o Crlf) THEN AfterHead(f, whole) ELSE [f EXCEPT !.line = line]
         [] f.state = "ChunkSize" /\ Bounded(f) ->
              IF EndsWith(line, Crlf) THEN AfterSize(f, whole) ELSE [f EXCEPT !.line = line]
         [] f.state = "Trailers" /\ Bounded(f) ->
              IF line = Crlf THEN Goes(f, "Complete")
              ELSE IF ~EndsWith(line, Crlf) THEN [f EXCEPT !.line = line]
              ELSE IF whole[1] \in BadFields THEN Fail(f) ELSE Goes(f, "Trailers")
         [] f.state = "ContentLength" -> OneLess(f, "Complete")
         [] f.state = "ChunkData" -> OneLess(f, "ChunkDataCrlf")
         [] f.state = "ChunkDataCrlf" ->
              IF b # Crlf[Len(line)] THEN Fail(f)
              ELSE IF Len(line) = 2 THEN Goes(f, "ChunkSize") ELSE [f EXCEPT !.line = line]
         [] OTHER -> f

(* push: how much was consumed, up to the end of the answer                *)
Terminal(f) == f.state \in {"Complete", "Failed"}
PushOne(p, b) ==
    IF Terminal(p.f) THEN p ELSE [f |-> PushByte(p.f, b), consumed |-> p.consumed + 1]
Push(f, input) ==
    IF Terminal(f) THEN [f |-> Fail(f), consumed |-> 0]
    ELSE FoldLeft(PushOne, [f |-> f, consumed |-> 0], input)

(* finish_on_eof; the slip lets any answer end with the connection         *)
FinishOnAnyEof(f) == IF f.state = "Failed" THEN f ELSE Goes(f, "Complete")
FinishOnEof(f) ==
    IF f.state \in {"CloseDelimited", "Complete"} THEN Goes(f, "Complete") ELSE Fail(f)

(* is_keep_alive_reusable *)
KeepAliveReusable(f) == f.state = "Complete" /\ ~f.close /\ ~f.untilEof

-----------------------------------------------------------------------------
(* The projection of an answer (UpstreamResponseHeaderSanitizer).          *)

NewSanitizer(close) == [headers |-> <<>>, close |-> close, body |-> FALSE]

(* sanitize_response_header_block *)
SanitizedHead(lines, close) ==
    HeadOf(<<lines[1]>> \o EndToEnd(Tail(lines), {Chunked})
           \o (IF close /\ lines[1] \notin Interim THEN <<"Connection: close">> ELSE <<>>))

(* sanitize *)
SanitizeByte(p, b) ==
    LET headers == Append(p.s.headers, b) IN
    IF p.s.body THEN [p EXCEPT !.output = Append(@, b)]
    ELSE IF ~EndsWith(headers, Crlf \o Crlf) THEN [p EXCEPT !.s.headers = headers]
    ELSE [s |-> [p.s EXCEPT !.headers = <<>>, !.body = LinesOf(headers)[1] \notin Interim],
          output |-> p.output \o SanitizedHead(LinesOf(headers), p.s.close)]
Sanitize(s, input) == FoldLeft(SanitizeByte, [s |-> s, output |-> <<>>], input)

=============================================================================

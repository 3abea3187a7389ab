--------------------------- MODULE MC_HttpExchange ---------------------------
(* Clients and upstreams small enough for TLC, every answer to every       *)
(* request.                                                                *)
EXTENDS HttpExchange

Request(line, ends, hops, body) ==
    [line |-> line, ends |-> ends, hops |-> hops, body |-> body,
     upgrade |-> FALSE, ok |-> TRUE, frames |-> <<>>]
Refused(r) == [r EXCEPT !.ok = FALSE]
Get == Request("GET", <<"Host: a">>, <<>>, <<>>)
Post == Request("POST", <<"Host: a", "Content-Length: 1">>, <<>>, <<"b">>)
Hops == Request("HEAD", <<"Host: a">>, <<"X-Forwarded: client", "X-Hop: 1", NamesHop>>, <<>>)
Unsized == Request("POST", <<"Host: a", "Content-Length: 1">>, <<NamesLength>>, <<"b">>)
Final == Request("GET", <<"Host: a">>, <<"Connection: close">>, <<>>)
Tunnel == [Request("GET", <<"Host: a">>, <<"Upgrade: websocket", "Connection: upgrade">>, <<>>)
              EXCEPT !.upgrade = TRUE, !.frames = <<"f1", "f2">>]
NoHost == Refused(Request("GET", <<>>, <<>>, <<>>))
TwoLengths == Refused(Request("POST", <<"Host: a", "Content-Length: 1", "Content-Length: 2">>,
                              <<>>, <<"b">>))

MCScripts == {<<Get, Post>>, <<Post, Final>>, <<Unsized, Get>>, <<Hops, Get>>, <<Tunnel>>, <<Get, NoHost>>,
              <<TwoLengths>>}

Response(status, framing, length, data) ==
    [interim |-> <<>>, status |-> status, ends |-> <<"ETag: e">>, hops |-> <<>>,
     framing |-> framing, length |-> length, data |-> data, trailer |-> <<>>, junk |-> 0]
Whole == Response("200", "length", "Content-Length: 2", <<"d1", "d2">>)
InChunks == [Response("200", "chunked", "", <<"d1">>) EXCEPT !.trailer = Line("Trailer: t")]
UntilEof == Response("200", "eof", "", <<"d1">>)
Empty == [Response("204", "none", "", <<>>) EXCEPT !.hops = <<"Connection: close">>]
Continue == [Response("200", "length", "Content-Length: 1", <<"d1">>)
                EXCEPT !.interim = HeadOf(<<"100">>), !.hops = <<"X-Hop: 1", NamesHop>>]
NoLength == [Response("200", "length", "Content-Length: 1", <<"d1">>) EXCEPT !.hops = <<NamesLength>>]
BadChunk == [InChunks EXCEPT !.junk = 16]
Switch == [Response("101", "tunnel", "", <<"g1", "g2">>)
              EXCEPT !.hops = <<"Upgrade: websocket", "Connection: upgrade">>]

MCAnswers == {Whole, InChunks, UntilEof, Empty, Continue, NoLength, BadChunk, Switch}

=============================================================================

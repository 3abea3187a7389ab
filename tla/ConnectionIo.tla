----------------------------- MODULE ConnectionIo -----------------------------
(***************************************************************************)
(* The lifecycle of one proxied HTTP connection: the connection state      *)
(* machine, the progress of the current upstream attempt, and the two      *)
(* write buffers, as HttpConnectionIo keeps them.                          *)
(*                                                                         *)
(* Source: crates/edge-core/src/connection_state.rs, connection_io.rs and  *)
(* upstream_attempt.rs.  An io is a record; buffers are the number of      *)
(* units left to write.  Every method is an operator from an io to         *)
(* [ok, io]: the code often mutates before it finds out that it must       *)
(* refuse, so a refusal also says what it left behind.                     *)
(***************************************************************************)
EXTENDS Integers

ConnectionStates ==
    {"Accepted", "ReadingClientRequest", "SelectingRoute", "ConnectingUpstream",
     "HandshakingUpstreamTls", "WritingUpstreamRequest", "ReadingUpstreamResponse",
     "WritingClientResponse", "TunnelingWebSocket", "Draining", "Closed", "Failed"}

Phases == {"NotStarted", "Writing", "AwaitingResponse", "ResponseStarted", "Terminal"}

Failures == {"Connect", "ConnectTimeout", "TlsHandshake", "TlsHandshakeTimeout", "Write",
             "Read", "ReadTimeout", "ResetBeforeResponse", "ResetAfterResponse"}

(* UpstreamAttemptProgress: terminal is "None" while the attempt runs.     *)
FreshAttempt == [phase |-> "NotStarted", written |-> 0, started |-> FALSE, terminal |-> "None"]

(* HttpConnectionIo::new *)
NewIo == [state |-> "Accepted", attempt |-> FreshAttempt, upstreamWrite |-> 0, clientWrite |-> 0]

Okay(x)    == [ok |-> TRUE, io |-> x]
Refuse(x) == [ok |-> FALSE, io |-> x]

-----------------------------------------------------------------------------
(* The transition table, the events and the timeouts.                      *)

(* can_transition_to *)
CanTransitionTo(s, t) ==
    \/ t \in {"Closed", "Failed"}
    \/ t \in CASE s = "Accepted"               -> {"ReadingClientRequest", "WritingClientResponse"}
               [] s = "ReadingClientRequest"   -> {"SelectingRoute", "WritingClientResponse"}
               [] s = "SelectingRoute"         -> {"ConnectingUpstream", "WritingClientResponse"}
               [] s = "ConnectingUpstream"     -> {"WritingUpstreamRequest", "HandshakingUpstreamTls",
                                                   "WritingClientResponse"}
               [] s = "HandshakingUpstreamTls" -> {"WritingUpstreamRequest", "WritingClientResponse"}
               [] s = "WritingUpstreamRequest" -> {"ReadingUpstreamResponse", "WritingClientResponse"}
               [] s = "ReadingUpstreamResponse" -> {"WritingClientResponse", "TunnelingWebSocket"}
               [] s = "WritingClientResponse"  -> {"ReadingClientRequest", "Draining"}
               [] s = "TunnelingWebSocket"     -> {"Draining"}
               [] OTHER                        -> {}

(* transition_to *)
TransitionTo(x, t) ==
    IF CanTransitionTo(x.state, t) THEN Okay([x EXCEPT !.state = t]) ELSE Refuse(x)

(* handle_event: the state each event leads to, "" where it is not valid.  *)
EventTarget(s, event) ==
    CASE event = "IoError"                              -> "Failed"
      [] event \in {"ClientClosed", "CommandShutdown"}  -> "Closed"
      [] s = "Accepted" /\ event = "ClientReadable"     -> "ReadingClientRequest"
      [] s = "ReadingClientRequest" /\ event = "RequestParsed" -> "SelectingRoute"
      [] s = "SelectingRoute" /\ event = "RouteProxy"   -> "ConnectingUpstream"
      [] s = "SelectingRoute" /\ event = "RouteImmediate" -> "WritingClientResponse"
      [] s = "ConnectingUpstream" /\ event = "UpstreamConnectReady" -> "WritingUpstreamRequest"
      [] s = "ConnectingUpstream" /\ event = "UpstreamTlsHandshakeStarted" -> "HandshakingUpstreamTls"
      [] s = "HandshakingUpstreamTls" /\ event = "UpstreamTlsEstablished" -> "WritingUpstreamRequest"
      [] s = "WritingUpstreamRequest" /\ event = "UpstreamWritable" -> "ReadingUpstreamResponse"
      [] s = "ReadingUpstreamResponse" /\ event = "UpstreamReadable" -> "WritingClientResponse"
      [] s = "ReadingUpstreamResponse" /\ event = "RouteTunnel" -> "TunnelingWebSocket"
      [] s = "WritingClientResponse" /\ event = "ClientResponseCompleted" -> "ReadingClientRequest"
      [] s = "WritingClientResponse" /\ event = "ClientWritable" -> "Draining"
      [] s = "Draining" /\ event = "UpstreamClosed"     -> "Closed"
      [] OTHER                                          -> ""

HandleEvent(x, event) ==
    LET t == EventTarget(x.state, event) IN
    IF t = "" THEN Refuse(x) ELSE TransitionTo(x, t)

(* timeout_decision_for_state: what a deadline means in a state.  The slip *)
(* forgets the TLS handshake.                                              *)
TimeoutForgetsTls(s) ==
    CASE s \in {"Accepted", "ReadingClientRequest"} -> "ClientIdle"
      [] s = "ConnectingUpstream"                   -> "ConnectTimeout"
      [] s \in {"WritingUpstreamRequest", "ReadingUpstreamResponse"} -> "ReadTimeout"
      [] s = "WritingClientResponse"                -> "ClientWrite"
      [] OTHER                                      -> "None"
TimeoutKind(s) ==
    CASE s \in {"Accepted", "ReadingClientRequest"} -> "ClientIdle"
      [] s = "ConnectingUpstream"                   -> "ConnectTimeout"
      [] s = "HandshakingUpstreamTls"               -> "TlsHandshakeTimeout"
      [] s \in {"WritingUpstreamRequest", "ReadingUpstreamResponse"} -> "ReadTimeout"
      [] s = "WritingClientResponse"                -> "ClientWrite"
      [] OTHER                                      -> "None"

-----------------------------------------------------------------------------
(* The upstream attempt.                                                   *)

WithAttempt(x, a) == Okay([x EXCEPT !.attempt = a])
AtPhase(a, phase) == [a EXCEPT !.phase = phase]
Wrote(a, n) == [a EXCEPT !.written = @ + n]
Began(a) == [a EXCEPT !.started = TRUE, !.phase = "ResponseStarted"]
Settle(a, outcome) == [a EXCEPT !.terminal = outcome, !.phase = "Terminal"]

(* UpstreamAttemptProgress::begin *)
AttemptBegin(x) ==
    IF x.attempt.phase # "NotStarted" THEN Refuse(x)
    ELSE WithAttempt(x, AtPhase(x.attempt, "Writing"))

(* record_request_write *)
AttemptWrote(x, n) ==
    IF x.attempt.phase # "Writing" THEN Refuse(x)
    ELSE WithAttempt(x, Wrote(x.attempt, n))

(* request_write_completed *)
AttemptAwaits(x) ==
    IF x.attempt.phase # "Writing" THEN Refuse(x)
    ELSE WithAttempt(x, AtPhase(x.attempt, "AwaitingResponse"))

(* record_response_bytes *)
AttemptReceived(x, n) ==
    IF x.attempt.phase \notin {"AwaitingResponse", "ResponseStarted"} THEN Refuse(x)
    ELSE IF n = 0 THEN Okay(x)
    ELSE WithAttempt(x, Began(x.attempt))

(* succeed *)
AttemptSucceed(x) ==
    IF x.attempt.phase \notin {"AwaitingResponse", "ResponseStarted"} THEN Refuse(x)
    ELSE WithAttempt(x, Settle(x.attempt, "Succeeded"))

(* fail *)
FailUpstreamAttempt(x, failure) ==
    IF x.attempt.phase = "Terminal" THEN Refuse(x)
    ELSE WithAttempt(x, Settle(x.attempt, failure))

-----------------------------------------------------------------------------
(* The operations of HttpConnectionIo.                                     *)

(* receive_client_bytes: the request is "incomplete", "complete" or        *)
(* "malformed" after these bytes.                                          *)
ReceiveClientBytes(x, outcome) ==
    LET reading == IF x.state = "Accepted" THEN HandleEvent(x, "ClientReadable").io ELSE x IN
    CASE reading.state # "ReadingClientRequest" -> Refuse(reading)
      [] reading.state = "ReadingClientRequest" /\ outcome = "incomplete" -> Okay(reading)
      [] reading.state = "ReadingClientRequest" /\ outcome = "complete" ->
             HandleEvent(reading, "RequestParsed")
      [] reading.state = "ReadingClientRequest" /\ outcome = "malformed" -> Refuse(reading)

(* begin_upstream_connect *)
BeginUpstreamConnect(x) ==
    LET routed == HandleEvent(x, "RouteProxy") IN
    IF routed.ok THEN AttemptBegin(routed.io) ELSE routed

(* upstream_connected, with a request of n units *)
UpstreamConnected(x, n) ==
    CASE x.state = "ConnectingUpstream" ->
             HandleEvent([x EXCEPT !.upstreamWrite = n], "UpstreamConnectReady")
      [] x.state = "HandshakingUpstreamTls" ->
             HandleEvent([x EXCEPT !.upstreamWrite = n], "UpstreamTlsEstablished")
      [] OTHER -> Refuse(x)

(* advance_upstream_write, of n units at most *)
AdvanceUpstreamWrite(x, n) ==
    LET advanced == IF n < x.upstreamWrite THEN n ELSE x.upstreamWrite
        moved    == [x EXCEPT !.upstreamWrite = @ - advanced]
        wrote    == AttemptWrote(moved, advanced)
        awaits   == AttemptAwaits(wrote.io) IN
    IF x.state # "WritingUpstreamRequest" THEN Refuse(x)
    ELSE IF ~wrote.ok \/ moved.upstreamWrite # 0 THEN wrote
    ELSE IF ~awaits.ok THEN awaits
    ELSE HandleEvent(awaits.io, "UpstreamWritable")

(* receive_upstream_bytes *)
ReceiveUpstreamBytes(x, n) ==
    IF x.state # "ReadingUpstreamResponse" THEN Refuse(x)
    ELSE AttemptReceived([x EXCEPT !.clientWrite = @ + n], n)

(* finish_upstream_response *)
FinishUpstreamResponse(x) ==
    LET finished == HandleEvent(x, "UpstreamReadable") IN
    IF finished.ok THEN AttemptSucceed(finished.io) ELSE finished

(* prepare_upstream_retry: back to route selection with a fresh attempt.   *)
PrepareUpstreamRetry(x) ==
    IF x.state \notin {"ConnectingUpstream", "WritingUpstreamRequest"}
       \/ x.attempt.terminal = "None"
    THEN Refuse(x)
    ELSE Okay([x EXCEPT !.state = "SelectingRoute", !.attempt = FreshAttempt,
                        !.upstreamWrite = 0])

(* queue_client_response, of n units *)
QueueResponse(x, n) ==
    IF ~CanTransitionTo(x.state, "WritingClientResponse") THEN Refuse(x)
    ELSE TransitionTo([x EXCEPT !.clientWrite = n], "WritingClientResponse")

(* advance_client_write, of n units at most *)
AdvanceClientWrite(x, n) ==
    IF x.state \notin {"ReadingUpstreamResponse", "WritingClientResponse"} THEN Refuse(x)
    ELSE Okay([x EXCEPT !.clientWrite = IF n < @ THEN @ - n ELSE 0])

(* finish_client_response *)
FinishClientResponse(x, keepAlive) ==
    IF x.state # "WritingClientResponse" \/ x.clientWrite # 0 THEN Refuse(x)
    ELSE IF ~keepAlive THEN HandleEvent(x, "ClientWritable")
    ELSE HandleEvent([x EXCEPT !.attempt = FreshAttempt, !.upstreamWrite = 0],
                     "ClientResponseCompleted")

-----------------------------------------------------------------------------
(* What the state says of the attempt.                                     *)
Coherent(x) ==
    /\ x.state \in {"Accepted", "ReadingClientRequest", "SelectingRoute"} =>
           x.attempt = FreshAttempt /\ x.upstreamWrite = 0
    /\ x.state \in {"ConnectingUpstream", "HandshakingUpstreamTls"} =>
           x.attempt.phase \in {"Writing", "Terminal"} /\ x.attempt.written = 0
    /\ x.state \in {"ConnectingUpstream", "HandshakingUpstreamTls",
                    "WritingUpstreamRequest"} => ~x.attempt.started
    /\ x.state = "WritingUpstreamRequest" => x.attempt.phase \in {"Writing", "Terminal"}
    /\ x.state = "ReadingUpstreamResponse" =>
           /\ x.attempt.phase \in {"AwaitingResponse", "ResponseStarted", "Terminal"}
           /\ x.attempt.written > 0
    /\ x.attempt.started => x.attempt.written > 0

=============================================================================

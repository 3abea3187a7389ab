---------------------------- MODULE DataPlaneProofs ----------------------------
(***************************************************************************)
(* Theorems about the connection lifecycle, for buffers of any size; about *)
(* the event loop, for any set of connections and upstreams, any limit,    *)
(* any buffer and request size and any batch; and about upstream selection *)
(* and draining, for any upstreams, clients, revisions and bounds.         *)
(*                                                                         *)
(* The inductive invariant of the loop says what is true of every          *)
(* connection between two steps (Good), of the world around them (Whole),  *)
(* and of the events and calls that are still to be delivered (Promised):  *)
(* an event captured by poll may be delivered to a connection that has     *)
(* moved on, but never to a kept upstream socket.                          *)
(***************************************************************************)
EXTENDS DataPlane, ConnectionLifecycle, UpstreamDrain, FiniteSetTheorems, SequenceTheorems, TLAPS

-----------------------------------------------------------------------------
(* The lifecycle of one connection.                                        *)

Attempts == [phase : Phases, written : Nat, started : BOOLEAN,
             terminal : Failures \cup {"None", "Succeeded"}]

IoRecords == [state : ConnectionStates, attempt : Attempts,
              upstreamWrite : Nat, clientWrite : Nat]

(* An io the operations preserve: a well-typed record whose attempt agrees *)
(* with its state, whose phase agrees with its outcome, and which has      *)
(* request units left to write for as long as it says it writes them.      *)
Sound(x) ==
    /\ x \in IoRecords
    /\ Coherent(x)
    /\ (x.attempt.phase = "Terminal") <=> (x.attempt.terminal # "None")
    /\ x.state = "WritingUpstreamRequest" /\ x.attempt.phase = "Writing"
           => x.upstreamWrite > 0

(* The inductive invariant.                                                *)
LifecycleInv == Sound(io)

USE DEF Okay, Refuse

-----------------------------------------------------------------------------
(* What the events the event loop raises do.                               *)

(* The state an event is valid in and the state it leads to; every such    *)
(* move is in the transition table.                                        *)
LEMMA EventTable ==
    ASSUME NEW s
    PROVE  /\ EventTarget(s, "ClientReadable") = IF s = "Accepted" THEN "ReadingClientRequest" ELSE ""
           /\ EventTarget(s, "RequestParsed") = IF s = "ReadingClientRequest" THEN "SelectingRoute" ELSE ""
           /\ EventTarget(s, "RouteProxy") = IF s = "SelectingRoute" THEN "ConnectingUpstream" ELSE ""
           /\ EventTarget(s, "UpstreamConnectReady") =
                 IF s = "ConnectingUpstream" THEN "WritingUpstreamRequest" ELSE ""
           /\ EventTarget(s, "UpstreamTlsHandshakeStarted") =
                 IF s = "ConnectingUpstream" THEN "HandshakingUpstreamTls" ELSE ""
           /\ EventTarget(s, "UpstreamTlsEstablished") =
                 IF s = "HandshakingUpstreamTls" THEN "WritingUpstreamRequest" ELSE ""
           /\ EventTarget(s, "UpstreamWritable") =
                 IF s = "WritingUpstreamRequest" THEN "ReadingUpstreamResponse" ELSE ""
           /\ EventTarget(s, "UpstreamReadable") =
                 IF s = "ReadingUpstreamResponse" THEN "WritingClientResponse" ELSE ""
           /\ EventTarget(s, "ClientResponseCompleted") =
                 IF s = "WritingClientResponse" THEN "ReadingClientRequest" ELSE ""
           /\ EventTarget(s, "ClientWritable") = IF s = "WritingClientResponse" THEN "Draining" ELSE ""
           /\ EventTarget(s, "IoError") = "Failed"
BY DEF EventTarget

(* Two ios that differ in their state only.                                *)
SameButState(x, y) ==
    /\ y \in IoRecords
    /\ y.attempt = x.attempt
    /\ y.upstreamWrite = x.upstreamWrite
    /\ y.clientWrite = x.clientWrite

(* An event moves the connection to its target or leaves it alone.         *)
LEMMA EventMoves ==
    ASSUME NEW x \in IoRecords, NEW e
    PROVE  /\ SameButState(x, HandleEvent(x, e).io)
           /\ \/ HandleEvent(x, e).io.state = x.state
              \/ /\ EventTarget(x.state, e) # ""
                 /\ HandleEvent(x, e).io.state = EventTarget(x.state, e)
           /\ HandleEvent(x, e).ok \in BOOLEAN
           /\ HandleEvent(x, e).ok => /\ EventTarget(x.state, e) # ""
                                      /\ HandleEvent(x, e).io.state = EventTarget(x.state, e)
           /\ EventTarget(x.state, e) = "" => HandleEvent(x, e) = Refuse(x)
           /\ ~HandleEvent(x, e).ok => HandleEvent(x, e).io = x
<1> DEFINE t == EventTarget(x.state, e)
           y == [x EXCEPT !.state = t]
<1>1. t \in ConnectionStates \cup {""}
  BY DEF EventTarget, ConnectionStates
<1> HIDE DEF t
<1>2. CASE t = ""
  BY <1>2 DEF HandleEvent, SameButState, t
<1>3. CASE t # ""
  <2>1. y \in IoRecords /\ y.state = t /\ SameButState(x, y)
    BY <1>1, <1>3 DEF IoRecords, SameButState
  <2> HIDE DEF y
  <2>2. HandleEvent(x, e) = IF CanTransitionTo(x.state, t) THEN Okay(y) ELSE Refuse(x)
    BY <1>3 DEF HandleEvent, TransitionTo, t, y
  <2>3. SameButState(x, x)
    BY DEF SameButState
  <2>4. CASE CanTransitionTo(x.state, t)
    <3>1. HandleEvent(x, e).io = y /\ HandleEvent(x, e).ok = TRUE
      BY <2>2, <2>4
    <3> QED
      BY <2>1, <3>1, <1>3 DEF t
  <2>5. CASE ~CanTransitionTo(x.state, t)
    <3>1. HandleEvent(x, e).io = x /\ HandleEvent(x, e).ok = FALSE
      BY <2>2, <2>5
    <3> QED
      BY <2>3, <3>1, <1>3 DEF t
  <2> QED
    BY <2>4, <2>5
<1> QED
  BY <1>2, <1>3

-----------------------------------------------------------------------------
(* Every operation of HttpConnectionIo preserves Sound.                    *)

(* A legal move that leaves the attempt alone preserves Sound.             *)
LEMMA MoveSound ==
    ASSUME NEW x, NEW y, Sound(x), SameButState(x, y),
           \/ y.state = x.state
           \/ y.state \in {"WritingClientResponse", "Draining", "Failed"}
           \/ x.state = "Accepted" /\ y.state = "ReadingClientRequest"
           \/ x.state = "ReadingClientRequest" /\ y.state = "SelectingRoute"
           \/ x.state = "ConnectingUpstream" /\ y.state = "HandshakingUpstreamTls"
           \/ /\ x.state \in {"ConnectingUpstream", "HandshakingUpstreamTls"}
              /\ y.state = "WritingUpstreamRequest" /\ x.upstreamWrite > 0
    PROVE  Sound(y)
<1>1. y \in IoRecords /\ y.attempt = x.attempt /\ y.upstreamWrite = x.upstreamWrite
  BY DEF SameButState
<1>2. Coherent(y)
  BY <1>1 DEF Sound, Coherent
<1> QED
  BY <1>1, <1>2 DEF Sound

(* A change of the attempt only.                                           *)
LEMMA AttemptChanged ==
    ASSUME NEW x \in IoRecords, NEW a \in Attempts
    PROVE  /\ [x EXCEPT !.attempt = a] \in IoRecords
           /\ [x EXCEPT !.attempt = a].attempt = a
           /\ [x EXCEPT !.attempt = a].state = x.state
           /\ [x EXCEPT !.attempt = a].upstreamWrite = x.upstreamWrite
           /\ [x EXCEPT !.attempt = a].clientWrite = x.clientWrite
BY DEF IoRecords

(* The four changes an attempt undergoes.                                  *)
LEMMA AtPhaseFacts ==
    ASSUME NEW a \in Attempts, NEW p \in Phases
    PROVE  /\ AtPhase(a, p) \in Attempts
           /\ AtPhase(a, p).phase = p
           /\ AtPhase(a, p).written = a.written
           /\ AtPhase(a, p).started = a.started
           /\ AtPhase(a, p).terminal = a.terminal
BY DEF Attempts, AtPhase

LEMMA WroteFacts ==
    ASSUME NEW a \in Attempts, NEW n \in Nat
    PROVE  /\ Wrote(a, n) \in Attempts
           /\ Wrote(a, n).phase = a.phase
           /\ Wrote(a, n).written = a.written + n
           /\ Wrote(a, n).started = a.started
           /\ Wrote(a, n).terminal = a.terminal
BY DEF Attempts, Wrote

LEMMA BeganFacts ==
    ASSUME NEW a \in Attempts
    PROVE  /\ Began(a) \in Attempts
           /\ Began(a).phase = "ResponseStarted"
           /\ Began(a).written = a.written
           /\ Began(a).started = TRUE
           /\ Began(a).terminal = a.terminal
BY DEF Attempts, Began, Phases

LEMMA SettleFacts ==
    ASSUME NEW a \in Attempts, NEW o \in Failures \cup {"Succeeded"}
    PROVE  /\ Settle(a, o) \in Attempts
           /\ Settle(a, o).phase = "Terminal"
           /\ Settle(a, o).written = a.written
           /\ Settle(a, o).started = a.started
           /\ Settle(a, o).terminal = o
BY DEF Attempts, Settle, Phases

(* receive_client_bytes preserves Sound.                                   *)
LEMMA ReceiveSound ==
    ASSUME NEW x, Sound(x), NEW outcome \in {"incomplete", "complete", "malformed"}
    PROVE  Sound(ReceiveClientBytes(x, outcome).io)
<1> DEFINE a == HandleEvent(x, "ClientReadable").io
           r == IF x.state = "Accepted" THEN a ELSE x
           p == HandleEvent(r, "RequestParsed").io
<1>1. Sound(a)
  <2>1. /\ SameButState(x, a)
        /\ \/ a.state = x.state
           \/ EventTarget(x.state, "ClientReadable") # "" /\ a.state = EventTarget(x.state, "ClientReadable")
    BY EventMoves DEF Sound
  <2>2. EventTarget(x.state, "ClientReadable") = IF x.state = "Accepted" THEN "ReadingClientRequest" ELSE ""
    BY EventTable
  <2> QED
    BY <2>1, <2>2, MoveSound
<1> HIDE DEF a
<1>2. Sound(r)
  BY <1>1
<1> HIDE DEF r
<1>3. Sound(p)
  <2>1. /\ SameButState(r, p)
        /\ \/ p.state = r.state
           \/ EventTarget(r.state, "RequestParsed") # "" /\ p.state = EventTarget(r.state, "RequestParsed")
    BY <1>2, EventMoves DEF Sound
  <2>2. EventTarget(r.state, "RequestParsed") = IF r.state = "ReadingClientRequest" THEN "SelectingRoute" ELSE ""
    BY EventTable
  <2> QED
    BY <1>2, <2>1, <2>2, MoveSound
<1> HIDE DEF p
<1>4. ReceiveClientBytes(x, outcome).io \in {r, p}
  BY DEF ReceiveClientBytes, r, p, a
<1> QED
  BY <1>2, <1>3, <1>4

(* begin_upstream_connect preserves Sound.                                 *)
LEMMA ConnectSound ==
    ASSUME NEW x, Sound(x)
    PROVE  Sound(BeginUpstreamConnect(x).io)
<1> DEFINE h == HandleEvent(x, "RouteProxy")
           y == h.io
           a == AtPhase(y.attempt, "Writing")
           z == [y EXCEPT !.attempt = a]
<1>1. CASE ~h.ok
  <2>1. h.io = x
    BY <1>1, EventMoves DEF Sound
  <2> QED
    BY <1>1, <2>1 DEF BeginUpstreamConnect
<1>2. CASE h.ok
  <2>1. /\ SameButState(x, y)
        /\ y.state = EventTarget(x.state, "RouteProxy")
        /\ EventTarget(x.state, "RouteProxy") # ""
    BY <1>2, EventMoves DEF Sound
  <2>2. EventTarget(x.state, "RouteProxy") =
            IF x.state = "SelectingRoute" THEN "ConnectingUpstream" ELSE ""
    BY EventTable
  <2>3. x.state = "SelectingRoute" /\ y.state = "ConnectingUpstream"
    BY <2>1, <2>2
  <2>4. y \in IoRecords /\ y.attempt = FreshAttempt
    BY <2>1, <2>3 DEF Sound, Coherent, SameButState
  <2> HIDE DEF y
  <2>5. /\ a \in Attempts /\ a.phase = "Writing" /\ a.written = 0
        /\ a.started = FALSE /\ a.terminal = "None"
    <3>1. y.attempt \in Attempts /\ "Writing" \in Phases
      BY <2>4 DEF IoRecords, Phases
    <3> QED
      BY <2>4, <3>1, AtPhaseFacts DEF FreshAttempt
  <2>6. BeginUpstreamConnect(x).io = z
    BY <1>2, <2>4 DEF BeginUpstreamConnect, AttemptBegin, WithAttempt, FreshAttempt, y
  <2> HIDE DEF a
  <2>7. z \in IoRecords /\ z.attempt = a /\ z.state = "ConnectingUpstream"
    BY <2>3, <2>4, <2>5, AttemptChanged
  <2> HIDE DEF z
  <2>8. Sound(z)
    BY <2>5, <2>7 DEF Sound, Coherent
  <2> QED
    BY <2>6, <2>8
<1> QED
  BY <1>1, <1>2

(* Starting the upstream TLS handshake preserves Sound.                    *)
LEMMA StartTlsSound ==
    ASSUME NEW x, Sound(x)
    PROVE  Sound(HandleEvent(x, "UpstreamTlsHandshakeStarted").io)
<1> DEFINE y == HandleEvent(x, "UpstreamTlsHandshakeStarted").io
<1> SUFFICES Sound(y)
  OBVIOUS
<1>1. /\ SameButState(x, y)
        /\ \/ y.state = x.state
           \/ EventTarget(x.state, "UpstreamTlsHandshakeStarted") # "" /\ y.state = EventTarget(x.state, "UpstreamTlsHandshakeStarted")
  BY EventMoves DEF Sound
<1>2. EventTarget(x.state, "UpstreamTlsHandshakeStarted") = IF x.state = "ConnectingUpstream" THEN "HandshakingUpstreamTls" ELSE ""
  BY EventTable
<1> QED
  BY <1>1, <1>2, MoveSound

(* An I/O error preserves Sound.                                           *)
LEMMA BreakOffSound ==
    ASSUME NEW x, Sound(x)
    PROVE  Sound(HandleEvent(x, "IoError").io)
<1> DEFINE y == HandleEvent(x, "IoError").io
<1>1. SameButState(x, y) /\ (y.state = x.state \/ y.state = EventTarget(x.state, "IoError"))
  BY EventMoves DEF Sound
<1>2. EventTarget(x.state, "IoError") = "Failed"
  BY EventTable
<1> HIDE DEF y
<1>3. Sound(y)
  BY <1>1, <1>2, MoveSound
<1> QED
  BY <1>3 DEF y

(* A change of a buffer only.                                              *)
LEMMA UpstreamBufferChanged ==
    ASSUME NEW x \in IoRecords, NEW n \in Nat
    PROVE  /\ [x EXCEPT !.upstreamWrite = n] \in IoRecords
           /\ [x EXCEPT !.upstreamWrite = n].state = x.state
           /\ [x EXCEPT !.upstreamWrite = n].attempt = x.attempt
           /\ [x EXCEPT !.upstreamWrite = n].upstreamWrite = n
           /\ [x EXCEPT !.upstreamWrite = n].clientWrite = x.clientWrite
BY DEF IoRecords

LEMMA ClientBufferChanged ==
    ASSUME NEW x \in IoRecords, NEW n \in Nat
    PROVE  /\ [x EXCEPT !.clientWrite = n] \in IoRecords
           /\ [x EXCEPT !.clientWrite = n].state = x.state
           /\ [x EXCEPT !.clientWrite = n].attempt = x.attempt
           /\ [x EXCEPT !.clientWrite = n].upstreamWrite = x.upstreamWrite
           /\ [x EXCEPT !.clientWrite = n].clientWrite = n
BY DEF IoRecords

(* upstream_connected preserves Sound.                                     *)
LEMMA ConnectedSound ==
    ASSUME NEW x, Sound(x), NEW n \in Nat \ {0}
    PROVE  Sound(UpstreamConnected(x, n).io)
<1> DEFINE w == [x EXCEPT !.upstreamWrite = n]
           c == HandleEvent(w, "UpstreamConnectReady").io
           t == HandleEvent(w, "UpstreamTlsEstablished").io
<1>0. n \in Nat
  OBVIOUS
<1>1. CASE x.state \in {"ConnectingUpstream", "HandshakingUpstreamTls"}
  <2>1. /\ w \in IoRecords /\ w.state = x.state /\ w.attempt = x.attempt
        /\ w.upstreamWrite = n /\ n > 0
    BY <1>0, UpstreamBufferChanged DEF Sound
  <2>2. Sound(w)
    BY <2>1, <1>1 DEF Sound, Coherent
  <2>3. /\ EventTarget(w.state, "UpstreamConnectReady") =
              IF w.state = "ConnectingUpstream" THEN "WritingUpstreamRequest" ELSE ""
        /\ EventTarget(w.state, "UpstreamTlsEstablished") =
              IF w.state = "HandshakingUpstreamTls" THEN "WritingUpstreamRequest" ELSE ""
    BY EventTable
  <2>4. UpstreamConnected(x, n).io \in {c, t}
    BY <1>1 DEF UpstreamConnected
  <2> HIDE DEF w
  <2>5. /\ SameButState(w, c)
        /\ \/ c.state = w.state
           \/ /\ EventTarget(w.state, "UpstreamConnectReady") # ""
              /\ c.state = EventTarget(w.state, "UpstreamConnectReady")
    BY <2>1, EventMoves
  <2>6. /\ SameButState(w, t)
        /\ \/ t.state = w.state
           \/ /\ EventTarget(w.state, "UpstreamTlsEstablished") # ""
              /\ t.state = EventTarget(w.state, "UpstreamTlsEstablished")
    BY <2>1, EventMoves
  <2> HIDE DEF c, t
  <2>7. Sound(c)
    BY <2>1, <2>2, <2>3, <2>5, MoveSound
  <2>8. Sound(t)
    BY <2>1, <2>2, <2>3, <2>6, MoveSound
  <2> QED
    BY <2>4, <2>7, <2>8
<1>2. CASE x.state \notin {"ConnectingUpstream", "HandshakingUpstreamTls"}
  <2>1. UpstreamConnected(x, n).io = x
    BY <1>2 DEF UpstreamConnected
  <2> QED
    BY <2>1
<1> QED
  BY <1>1, <1>2

(* receive_upstream_bytes preserves Sound.                                 *)
LEMMA ReadResponseSound ==
    ASSUME NEW x, Sound(x), NEW n \in Nat
    PROVE  Sound(ReceiveUpstreamBytes(x, n).io)
<1> DEFINE w == [x EXCEPT !.clientWrite = @ + n]
           z == [w EXCEPT !.attempt = Began(w.attempt)]
<1>1. CASE x.state # "ReadingUpstreamResponse"
  BY <1>1 DEF ReceiveUpstreamBytes
<1>2. CASE x.state = "ReadingUpstreamResponse"
  <2>1. x.clientWrite + n \in Nat
    BY DEF Sound, IoRecords
  <2>2. /\ w \in IoRecords /\ w.state = x.state /\ w.attempt = x.attempt
        /\ w.upstreamWrite = x.upstreamWrite
    BY <2>1, ClientBufferChanged DEF Sound
  <2>3. Sound(w)
    BY <2>2, <1>2 DEF Sound, Coherent
  <2>4. ReceiveUpstreamBytes(x, n).io \in {w, z}
    BY <1>2 DEF ReceiveUpstreamBytes, AttemptReceived, WithAttempt
  <2>5. ASSUME w.attempt.phase \in {"AwaitingResponse", "ResponseStarted"} PROVE Sound(z)
    <3> HIDE DEF w
    <3>1. w.attempt \in Attempts
      BY <2>2 DEF IoRecords
    <3>2. z \in IoRecords /\ z.attempt = Began(w.attempt) /\ z.state = w.state
      BY <2>2, <3>1, BeganFacts, AttemptChanged
    <3> HIDE DEF z
    <3>3. /\ z.attempt.phase = "ResponseStarted" /\ z.attempt.written = w.attempt.written
          /\ z.attempt.started = TRUE /\ z.attempt.terminal = w.attempt.terminal
      BY <3>1, <3>2, BeganFacts
    <3> QED
      BY <2>2, <2>3, <2>5, <3>2, <3>3, <1>2 DEF Sound, Coherent
  <2>6. w.attempt.phase \notin {"AwaitingResponse", "ResponseStarted"}
            => ReceiveUpstreamBytes(x, n).io = w
    BY <1>2 DEF ReceiveUpstreamBytes, AttemptReceived
  <2> QED
    BY <2>3, <2>4, <2>5, <2>6
<1> QED
  BY <1>1, <1>2

(* fail_upstream_attempt preserves Sound.                                  *)
LEMMA FailSound ==
    ASSUME NEW x, Sound(x), NEW f \in Failures, x.state \in UpstreamStates
    PROVE  Sound(FailUpstreamAttempt(x, f).io)
<1> DEFINE z == [x EXCEPT !.attempt = Settle(x.attempt, f)]
<1>1. CASE x.attempt.phase = "Terminal"
  BY <1>1 DEF FailUpstreamAttempt
<1>2. CASE x.attempt.phase # "Terminal"
  <2>1. x.attempt \in Attempts
    BY DEF Sound, IoRecords
  <2>2. /\ z \in IoRecords /\ z.state = x.state /\ z.upstreamWrite = x.upstreamWrite
        /\ z.attempt = Settle(x.attempt, f)
    BY <2>1, SettleFacts, AttemptChanged DEF Sound
  <2>3. FailUpstreamAttempt(x, f).io = z
    BY <1>2 DEF FailUpstreamAttempt, WithAttempt
  <2> HIDE DEF z
  <2>4. /\ z.attempt.phase = "Terminal" /\ z.attempt.terminal = f
        /\ z.attempt.written = x.attempt.written /\ z.attempt.started = x.attempt.started
    BY <2>1, <2>2, SettleFacts
  <2>5. f # "None"
    BY DEF Failures
  <2>6. Coherent(z)
    BY <2>2, <2>4 DEF Sound, Coherent, UpstreamStates
  <2> QED
    BY <2>2, <2>3, <2>4, <2>5, <2>6 DEF Sound
<1> QED
  BY <1>1, <1>2

(* advance_upstream_write preserves Sound: the request is marked written   *)
(* and the state moves on in the step that takes the last unit.            *)
LEMMA WriteRequestSound ==
    ASSUME NEW x, Sound(x), NEW n \in Nat \ {0}
    PROVE  Sound(AdvanceUpstreamWrite(x, n).io)
<1> DEFINE k == IF n < x.upstreamWrite THEN n ELSE x.upstreamWrite
           m == [x EXCEPT !.upstreamWrite = @ - k]
           w == [m EXCEPT !.attempt = Wrote(m.attempt, k)]
           q == [w EXCEPT !.attempt = AtPhase(w.attempt, "AwaitingResponse")]
           y == HandleEvent(q, "UpstreamWritable").io
<1>1. CASE x.state # "WritingUpstreamRequest"
  BY <1>1 DEF AdvanceUpstreamWrite
<1>2. CASE x.state = "WritingUpstreamRequest"
  <2>1. k \in Nat /\ x.upstreamWrite - k \in Nat
    BY DEF Sound, IoRecords
  <2>a. n > 0 /\ n \in Nat /\ x.upstreamWrite \in Nat
    BY DEF Sound, IoRecords
  <2>2. /\ m \in IoRecords /\ m.state = x.state /\ m.attempt = x.attempt
        /\ m.upstreamWrite = x.upstreamWrite - k
    BY <2>1, UpstreamBufferChanged DEF Sound
  <2>3. Coherent(m) /\ (m.attempt.phase = "Terminal" <=> m.attempt.terminal # "None")
    BY <1>2, <2>2 DEF Sound, Coherent
  <2>4. CASE m.attempt.phase # "Writing"
    <3>1. AdvanceUpstreamWrite(x, n).io = m
      BY <1>2, <2>4 DEF AdvanceUpstreamWrite, AttemptWrote
    <3> HIDE DEF m
    <3>2. Sound(m)
      BY <2>2, <2>3, <2>4 DEF Sound
    <3> QED
      BY <3>1, <3>2
  <2>5. CASE m.attempt.phase = "Writing"
    <3> HIDE DEF k
    <3>1. m.attempt \in Attempts
      BY <2>2 DEF IoRecords
    <3>2. w \in IoRecords /\ w.state = m.state /\ w.attempt = Wrote(m.attempt, k)
          /\ w.upstreamWrite = m.upstreamWrite
      BY <2>1, <2>2, <3>1, WroteFacts, AttemptChanged
    <3>3. /\ w.attempt \in Attempts /\ w.attempt.phase = "Writing"
          /\ w.attempt.written = m.attempt.written + k
          /\ w.attempt.started = m.attempt.started /\ w.attempt.terminal = m.attempt.terminal
      BY <2>1, <2>5, <3>1, <3>2, WroteFacts
    <3>4. /\ AttemptWrote(m, k) = Okay(w)
      BY <2>5 DEF AttemptWrote, WithAttempt
    <3>5. AttemptAwaits(w) = Okay(q)
      BY <3>3 DEF AttemptAwaits, WithAttempt
    <3>6. /\ w.upstreamWrite # 0 => AdvanceUpstreamWrite(x, n).io = w
          /\ w.upstreamWrite = 0 => AdvanceUpstreamWrite(x, n).io = y
      BY <1>2, <3>2, <3>4, <3>5 DEF AdvanceUpstreamWrite, k
    <3> HIDE DEF m
    <3>7. m.attempt.written \in Nat /\ ~m.attempt.started /\ m.attempt.terminal = "None"
      BY <1>2, <2>2, <2>3, <2>5, <3>1 DEF Coherent, Attempts
    <3>8. ASSUME w.upstreamWrite # 0 PROVE Sound(w)
      <4>1. w.upstreamWrite > 0
        BY <3>2, <3>8 DEF IoRecords
      <4> HIDE DEF w
      <4> QED
        BY <1>2, <2>2, <3>2, <3>3, <3>7, <4>1 DEF Sound, Coherent
    <3>9. ASSUME w.upstreamWrite = 0 PROVE Sound(y)
      <4>1. "AwaitingResponse" \in Phases
        BY DEF Phases
      <4> HIDE DEF w
      <4>2. /\ q \in IoRecords /\ q.state = w.state
            /\ q.attempt = AtPhase(w.attempt, "AwaitingResponse")
        BY <3>2, <3>3, <4>1, AtPhaseFacts, AttemptChanged
      <4>3. /\ q.attempt.phase = "AwaitingResponse" /\ q.attempt.written = w.attempt.written
            /\ q.attempt.started = w.attempt.started /\ q.attempt.terminal = w.attempt.terminal
        BY <3>3, <4>1, <4>2, AtPhaseFacts
      <4> HIDE DEF q
      <4>4. SameButState(q, y)
        BY <4>2, EventMoves
      <4>5. q.state = "WritingUpstreamRequest"
        BY <1>2, <2>2, <3>2, <4>2
      <4>6. y.state = "ReadingUpstreamResponse"
        BY <4>2, <4>5 DEF HandleEvent, TransitionTo, CanTransitionTo, EventTarget, IoRecords
      <4>7. w.attempt.written > 0
        <5>1. x.upstreamWrite = k
          BY <3>9, <2>1, <2>2, <2>a, <3>2 DEF k
        <5>2. x.upstreamWrite > 0
          BY <1>2, <2>2, <2>5 DEF Sound
        <5> QED
          BY <2>1, <3>3, <3>7, <5>1, <5>2
      <4> HIDE DEF y
      <4> QED
        BY <3>3, <3>7, <4>3, <4>4, <4>6, <4>7 DEF Sound, Coherent, SameButState
    <3> QED
      BY <3>6, <3>8, <3>9
  <2> QED
    BY <2>4, <2>5
<1> QED
  BY <1>1, <1>2

(* finish_upstream_response preserves Sound, also when the attempt refuses *)
(* to succeed after the state has moved.                                   *)
LEMMA FinishResponseSound ==
    ASSUME NEW x, Sound(x)
    PROVE  Sound(FinishUpstreamResponse(x).io)
<1> DEFINE h == HandleEvent(x, "UpstreamReadable")
           y == h.io
           z == [y EXCEPT !.attempt = Settle(y.attempt, "Succeeded")]
<1>1. /\ SameButState(x, y)
      /\ \/ y.state = x.state
         \/ /\ EventTarget(x.state, "UpstreamReadable") # ""
            /\ y.state = EventTarget(x.state, "UpstreamReadable")
      /\ h.ok => /\ EventTarget(x.state, "UpstreamReadable") # ""
                 /\ y.state = EventTarget(x.state, "UpstreamReadable")
  BY EventMoves DEF Sound
<1>2. EventTarget(x.state, "UpstreamReadable") =
          IF x.state = "ReadingUpstreamResponse" THEN "WritingClientResponse" ELSE ""
  BY EventTable
<1>3. FinishUpstreamResponse(x).io \in {y, z} /\ (~h.ok => FinishUpstreamResponse(x).io = y)
  BY DEF FinishUpstreamResponse, AttemptSucceed, WithAttempt
<1> HIDE DEF y
<1>4. Sound(y)
  BY <1>1, <1>2, MoveSound
<1>5. ASSUME h.ok PROVE Sound(z)
  <2>1. y.state = "WritingClientResponse" /\ y.attempt \in Attempts
    BY <1>1, <1>2, <1>4, <1>5 DEF Sound, IoRecords
  <2>2. /\ z \in IoRecords /\ z.state = y.state
        /\ z.attempt = Settle(y.attempt, "Succeeded")
    BY <1>4, <2>1, SettleFacts, AttemptChanged DEF Sound
  <2> HIDE DEF z
  <2>3. /\ z.attempt.phase = "Terminal" /\ z.attempt.terminal = "Succeeded"
        /\ z.attempt.written = y.attempt.written /\ z.attempt.started = y.attempt.started
    BY <2>1, <2>2, SettleFacts
  <2> QED
    BY <1>4, <2>1, <2>2, <2>3 DEF Sound, Coherent
<1> QED
  BY <1>3, <1>4, <1>5

(* A fresh attempt is an attempt, and the states before an upstream is     *)
(* contacted accept it.                                                    *)
LEMMA FreshFacts ==
    /\ FreshAttempt \in Attempts
    /\ FreshAttempt.phase = "NotStarted" /\ FreshAttempt.terminal = "None"
    /\ FreshAttempt.written = 0 /\ FreshAttempt.started = FALSE
BY DEF FreshAttempt, Attempts, Phases

(* A connection that starts over with a new attempt and an empty request   *)
(* buffer, in the same state or in another.                                *)
Restart(x, a) == [x EXCEPT !.attempt = a, !.upstreamWrite = 0]
RestartAt(x, t, a) == [x EXCEPT !.state = t, !.attempt = a, !.upstreamWrite = 0]

(* What starting over changes and what it leaves alone.                    *)
LEMMA RestartFacts ==
    ASSUME NEW x \in IoRecords, NEW a \in Attempts, NEW t \in ConnectionStates
    PROVE  /\ Restart(x, a) \in IoRecords /\ Restart(x, a).state = x.state
           /\ Restart(x, a).attempt = a /\ Restart(x, a).upstreamWrite = 0
           /\ RestartAt(x, t, a) \in IoRecords /\ RestartAt(x, t, a).state = t
           /\ RestartAt(x, t, a).attempt = a /\ RestartAt(x, t, a).upstreamWrite = 0
<1>1. 0 \in Nat
  OBVIOUS
<1>2. /\ Restart(x, a) \in IoRecords /\ Restart(x, a).state = x.state
      /\ Restart(x, a).attempt = a /\ Restart(x, a).upstreamWrite = 0
  BY <1>1 DEF IoRecords, Restart
<1>3. /\ RestartAt(x, t, a) \in IoRecords /\ RestartAt(x, t, a).state = t
      /\ RestartAt(x, t, a).attempt = a /\ RestartAt(x, t, a).upstreamWrite = 0
  BY <1>1 DEF IoRecords, RestartAt
<1> QED
  BY <1>2, <1>3

(* prepare_upstream_retry preserves Sound.                                 *)
LEMMA RetrySound ==
    ASSUME NEW x, Sound(x)
    PROVE  Sound(PrepareUpstreamRetry(x).io)
<1> DEFINE z == RestartAt(x, "SelectingRoute", FreshAttempt)
<1>0. x \in IoRecords /\ "SelectingRoute" \in ConnectionStates
  BY DEF Sound, ConnectionStates
<1>1. /\ z \in IoRecords /\ z.state = "SelectingRoute" /\ z.attempt = FreshAttempt
      /\ z.upstreamWrite = 0
  BY <1>0, FreshFacts, RestartFacts
<1>2. PrepareUpstreamRetry(x).io \in {x, z}
  BY DEF PrepareUpstreamRetry, RestartAt
<1> HIDE DEF z
<1>3. Sound(z)
  BY <1>1, FreshFacts DEF Sound, Coherent
<1> QED
  BY <1>2, <1>3

(* queue_client_response preserves Sound.                                  *)
LEMMA RespondSound ==
    ASSUME NEW x, Sound(x), NEW n \in Nat \ {0}
    PROVE  Sound(QueueResponse(x, n).io)
<1> DEFINE w == [x EXCEPT !.clientWrite = n]
           z == [w EXCEPT !.state = "WritingClientResponse"]
<1>1. n \in Nat
  OBVIOUS
<1>2. w \in IoRecords /\ w.attempt = x.attempt /\ w.state = x.state
  BY <1>1, ClientBufferChanged DEF Sound
<1>3. QueueResponse(x, n).io \in {x, z}
  BY <1>2 DEF QueueResponse, TransitionTo
<1> HIDE DEF w
<1>4. /\ z \in IoRecords /\ z.attempt = x.attempt /\ z.state = "WritingClientResponse"
  BY <1>2 DEF IoRecords, ConnectionStates
<1> HIDE DEF z
<1>5. Sound(z)
  BY <1>4 DEF Sound, Coherent
<1> QED
  BY <1>3, <1>5

(* advance_client_write preserves Sound.                                   *)
LEMMA WriteClientSound ==
    ASSUME NEW x, Sound(x), NEW n \in Nat \ {0}
    PROVE  Sound(AdvanceClientWrite(x, n).io)
<1> DEFINE k == IF n < x.clientWrite THEN x.clientWrite - n ELSE 0
           z == [x EXCEPT !.clientWrite = k]
<1>1. k \in Nat
  BY DEF Sound, IoRecords
<1>2. AdvanceClientWrite(x, n).io \in {x, z}
  BY DEF AdvanceClientWrite
<1> HIDE DEF k
<1>3. /\ z \in IoRecords /\ z.attempt = x.attempt /\ z.state = x.state
      /\ z.upstreamWrite = x.upstreamWrite
  BY <1>1, ClientBufferChanged DEF Sound
<1> HIDE DEF z
<1>4. Sound(z)
  BY <1>3 DEF Sound, Coherent
<1> QED
  BY <1>2, <1>4

(* finish_client_response preserves Sound.                                 *)
LEMMA FinishClientSound ==
    ASSUME NEW x, Sound(x), NEW keepAlive \in BOOLEAN
    PROVE  Sound(FinishClientResponse(x, keepAlive).io)
<1> DEFINE d == HandleEvent(x, "ClientWritable").io
           w == Restart(x, FreshAttempt)
           z == HandleEvent(w, "ClientResponseCompleted").io
<1>1. CASE x.state # "WritingClientResponse"
  BY <1>1 DEF FinishClientResponse
<1>2. CASE x.state = "WritingClientResponse"
  <2>1. FinishClientResponse(x, keepAlive).io \in {x, d, z}
    BY <1>2 DEF FinishClientResponse, Restart
  <2>2. Sound(d)
    <3>1. /\ SameButState(x, d)
          /\ \/ d.state = x.state
             \/ d.state = EventTarget(x.state, "ClientWritable")
      BY EventMoves DEF Sound
    <3>2. EventTarget(x.state, "ClientWritable") = "Draining"
      BY <1>2, EventTable
    <3> HIDE DEF d
    <3> QED
      BY <3>1, <3>2, MoveSound
  <2>3. Sound(z)
    <3>0. x \in IoRecords /\ x.state \in ConnectionStates
      BY DEF Sound, IoRecords
    <3>1. /\ w \in IoRecords /\ w.state = x.state /\ w.attempt = FreshAttempt
          /\ w.upstreamWrite = 0
      BY <3>0, FreshFacts, RestartFacts
    <3> HIDE DEF w
    <3>2. /\ SameButState(w, z)
          /\ \/ z.state = w.state
             \/ z.state = EventTarget(w.state, "ClientResponseCompleted")
      BY <3>1, EventMoves
    <3>3. EventTarget(w.state, "ClientResponseCompleted") = "ReadingClientRequest"
      <4>1. EventTarget(w.state, "ClientResponseCompleted") =
               IF w.state = "WritingClientResponse" THEN "ReadingClientRequest" ELSE ""
        BY EventTable
      <4> QED
        BY <1>2, <3>1, <4>1
    <3> HIDE DEF z
    <3>4. /\ z \in IoRecords /\ z.attempt = FreshAttempt /\ z.upstreamWrite = 0
          /\ z.state \in {"WritingClientResponse", "ReadingClientRequest"}
      BY <1>2, <3>1, <3>2, <3>3 DEF SameButState
    <3> QED
      BY <3>4, FreshFacts DEF Sound, Coherent
  <2> QED
    BY <2>1, <2>2, <2>3
<1> QED
  BY <1>1, <1>2

-----------------------------------------------------------------------------

(* The inductive invariant holds: whatever the event loop calls, in        *)
(* whatever order, with buffers of any size.                               *)
THEOREM LifecycleAlwaysSound == LifecycleSpec => []LifecycleInv
<1>1. LifecycleInit => LifecycleInv
  BY FreshFacts
     DEF LifecycleInit, LifecycleInv, NewIo, Sound, Coherent, IoRecords, ConnectionStates
<1>2. LifecycleInv /\ [LifecycleNext]_io => LifecycleInv'
  <2> SUFFICES ASSUME Sound(io), [LifecycleNext]_io PROVE Sound(io')
    BY DEF LifecycleInv
  <2>1. CASE Receive
    BY <2>1, ReceiveSound DEF Receive
  <2>2. CASE Connect
    BY <2>2, ConnectSound DEF Connect
  <2>3. CASE StartTls
    BY <2>3, StartTlsSound DEF StartTls
  <2>4. CASE Connected
    BY <2>4, ConnectedSound DEF Connected
  <2>5. CASE WriteRequest
    BY <2>5, WriteRequestSound DEF WriteRequest
  <2>6. CASE TakeResponse
    BY <2>6, ReadResponseSound DEF TakeResponse
  <2>7. CASE EndResponse
    BY <2>7, FinishResponseSound DEF EndResponse
  <2>8. CASE SettleFailed
    BY <2>8, FailSound DEF SettleFailed
  <2>9. CASE Retry
    BY <2>9, RetrySound DEF Retry
  <2>10. CASE Respond
    BY <2>10, RespondSound DEF Respond
  <2>11. CASE DrainClient
    BY <2>11, WriteClientSound DEF DrainClient
  <2>12. CASE FinishClient
    BY <2>12, FinishClientSound DEF FinishClient
  <2>13. CASE BreakOff
    BY <2>13, BreakOffSound DEF BreakOff
  <2>14. CASE UNCHANGED io
    BY <2>14
  <2> QED
    BY <2>1, <2>2, <2>3, <2>4, <2>5, <2>6, <2>7, <2>8, <2>9, <2>10, <2>11, <2>12,
       <2>13, <2>14 DEF LifecycleNext
<1> QED
  BY <1>1, <1>2, PTL DEF LifecycleSpec

(* AttemptFollowsState for buffers of any size: the facts evaluate_retry   *)
(* decides from agree with the connection's state at every moment.         *)
THEOREM AttemptCoherent == LifecycleSpec => []AttemptFollowsState
<1>1. LifecycleInv => AttemptFollowsState
  BY DEF LifecycleInv, Sound, AttemptFollowsState
<1> QED
  BY <1>1, LifecycleAlwaysSound, PTL

(* IoTypeOK for buffers of any size.                                       *)
THEOREM LifecycleTypeCorrect == LifecycleSpec => []IoTypeOK
<1>1. LifecycleInv => IoTypeOK
  BY DEF LifecycleInv, Sound, IoTypeOK, IoRecords, Attempts
<1> QED
  BY <1>1, LifecycleAlwaysSound, PTL

-----------------------------------------------------------------------------
(* A settled attempt.                                                      *)

(* What an operation may leave of the attempt of x.                        *)
Keeps(x, y) == y.attempt = x.attempt \/ y.attempt = FreshAttempt

(* An event never touches the attempt.                                     *)
LEMMA EventKeeps ==
    ASSUME NEW x \in IoRecords, NEW e
    PROVE  HandleEvent(x, e).io.attempt = x.attempt /\ HandleEvent(x, e).io \in IoRecords
BY EventMoves DEF SameButState

(* No operation overwrites the outcome of a settled attempt.               *)
LEMMA SettledStays ==
    ASSUME NEW x, Sound(x), x.attempt.phase = "Terminal",
           NEW n \in Nat, NEW f \in Failures
    PROVE  /\ \A o \in {"incomplete", "complete", "malformed"} : Keeps(x, ReceiveClientBytes(x, o).io)
           /\ Keeps(x, BeginUpstreamConnect(x).io)
           /\ Keeps(x, UpstreamConnected(x, n).io)
           /\ Keeps(x, AdvanceUpstreamWrite(x, n).io)
           /\ Keeps(x, ReceiveUpstreamBytes(x, n).io)
           /\ Keeps(x, FinishUpstreamResponse(x).io)
           /\ Keeps(x, FailUpstreamAttempt(x, f).io)
           /\ Keeps(x, PrepareUpstreamRetry(x).io)
           /\ Keeps(x, QueueResponse(x, n).io)
           /\ Keeps(x, AdvanceClientWrite(x, n).io)
           /\ \A k \in BOOLEAN : Keeps(x, FinishClientResponse(x, k).io)
<1> x \in IoRecords
  BY DEF Sound
<1>1. \A o \in {"incomplete", "complete", "malformed"} : Keeps(x, ReceiveClientBytes(x, o).io)
  <2> DEFINE y == IF x.state = "Accepted" THEN HandleEvent(x, "ClientReadable").io ELSE x
             z == HandleEvent(y, "RequestParsed").io
  <2> SUFFICES ASSUME NEW o \in {"incomplete", "complete", "malformed"}
               PROVE  Keeps(x, ReceiveClientBytes(x, o).io)
    OBVIOUS
  <2>1. y \in IoRecords /\ y.attempt = x.attempt
    BY EventKeeps
  <2>2. ReceiveClientBytes(x, o).io \in {y, z}
    BY DEF ReceiveClientBytes
  <2> HIDE DEF y
  <2>3. z.attempt = y.attempt
    BY <2>1, EventKeeps
  <2> QED
    BY <2>1, <2>2, <2>3 DEF Keeps
<1>2. Keeps(x, BeginUpstreamConnect(x).io)
  <2> DEFINE y == HandleEvent(x, "RouteProxy").io
  <2>1. y.attempt = x.attempt
    BY EventKeeps
  <2>2. AttemptBegin(y).io = y
    BY <2>1 DEF AttemptBegin
  <2>3. BeginUpstreamConnect(x).io \in {y, AttemptBegin(y).io}
    BY DEF BeginUpstreamConnect
  <2> QED
    BY <2>1, <2>2, <2>3 DEF Keeps
<1>3. Keeps(x, UpstreamConnected(x, n).io)
  <2> DEFINE y == [x EXCEPT !.upstreamWrite = n]
  <2>1. y \in IoRecords /\ y.attempt = x.attempt
    BY DEF IoRecords
  <2>2. UpstreamConnected(x, n).io \in
           {x, HandleEvent(y, "UpstreamConnectReady").io, HandleEvent(y, "UpstreamTlsEstablished").io}
    BY DEF UpstreamConnected
  <2> HIDE DEF y
  <2>3. /\ HandleEvent(y, "UpstreamConnectReady").io.attempt = x.attempt
        /\ HandleEvent(y, "UpstreamTlsEstablished").io.attempt = x.attempt
    BY <2>1, EventKeeps
  <2> QED
    BY <2>2, <2>3 DEF Keeps
<1>4. Keeps(x, AdvanceUpstreamWrite(x, n).io)
  <2> DEFINE k == x.upstreamWrite - (IF n < x.upstreamWrite THEN n ELSE x.upstreamWrite)
             m == IF n < x.upstreamWrite THEN n ELSE x.upstreamWrite
             y == [x EXCEPT !.upstreamWrite = k]
  <2>1. k \in Nat
    BY DEF IoRecords
  <2>2. y = [x EXCEPT !.upstreamWrite = @ - m] /\ y.attempt = x.attempt
    BY <2>1 DEF IoRecords
  <2> HIDE DEF k, m
  <2>3. y.attempt.phase = "Terminal"
    BY <2>2
  <2> HIDE DEF y
  <2>4. AttemptWrote(y, m) = Refuse(y)
    BY <2>3 DEF AttemptWrote
  <2>5. AdvanceUpstreamWrite(x, n).io \in {x, y}
    BY <2>2, <2>4 DEF AdvanceUpstreamWrite, m
  <2> QED
    BY <2>2, <2>5 DEF Keeps
<1>5. Keeps(x, ReceiveUpstreamBytes(x, n).io)
  <2> DEFINE k == x.clientWrite + n
             y == [x EXCEPT !.clientWrite = k]
  <2>1. k \in Nat
    BY DEF IoRecords
  <2>2. y = [x EXCEPT !.clientWrite = @ + n]
    OBVIOUS
  <2> HIDE DEF k
  <2>3. y.attempt = x.attempt
    BY <2>1, ClientBufferChanged
  <2> HIDE DEF y
  <2>4. AttemptReceived(y, n) = Refuse(y)
    BY <2>3 DEF AttemptReceived
  <2>5. ReceiveUpstreamBytes(x, n).io \in {x, y}
    BY <2>2, <2>4 DEF ReceiveUpstreamBytes
  <2> QED
    BY <2>3, <2>5 DEF Keeps
<1>6. Keeps(x, FinishUpstreamResponse(x).io)
  <2> DEFINE y == HandleEvent(x, "UpstreamReadable").io
  <2>1. y.attempt = x.attempt
    BY EventKeeps
  <2>2. AttemptSucceed(y).io = y
    BY <2>1 DEF AttemptSucceed
  <2>3. FinishUpstreamResponse(x).io \in {y, AttemptSucceed(y).io}
    BY DEF FinishUpstreamResponse
  <2> QED
    BY <2>1, <2>2, <2>3 DEF Keeps
<1>7. Keeps(x, FailUpstreamAttempt(x, f).io)
  BY DEF Keeps, FailUpstreamAttempt
<1>8. Keeps(x, PrepareUpstreamRetry(x).io)
  <2> DEFINE z == RestartAt(x, "SelectingRoute", FreshAttempt)
  <2>1. PrepareUpstreamRetry(x).io \in {x, z}
    BY DEF PrepareUpstreamRetry, RestartAt
  <2>2. "SelectingRoute" \in ConnectionStates
    BY DEF ConnectionStates
  <2>3. z.attempt = FreshAttempt
    BY <2>2, FreshFacts, RestartFacts
  <2> QED
    BY <2>1, <2>3 DEF Keeps
<1>9. Keeps(x, QueueResponse(x, n).io)
  <2> DEFINE w == [x EXCEPT !.clientWrite = n]
             z == [w EXCEPT !.state = "WritingClientResponse"]
  <2>1. w \in IoRecords /\ w.attempt = x.attempt
    BY ClientBufferChanged
  <2>2. QueueResponse(x, n).io \in {x, w, z}
    BY DEF QueueResponse, TransitionTo
  <2> HIDE DEF w
  <2>3. z.attempt = w.attempt
    BY <2>1 DEF IoRecords
  <2> QED
    BY <2>1, <2>2, <2>3 DEF Keeps
<1>10. Keeps(x, AdvanceClientWrite(x, n).io)
  <2> DEFINE k == IF n < x.clientWrite THEN x.clientWrite - n ELSE 0
             z == [x EXCEPT !.clientWrite = k]
  <2>1. k \in Nat
    BY DEF IoRecords
  <2>2. AdvanceClientWrite(x, n).io \in {x, z}
    BY DEF AdvanceClientWrite
  <2> HIDE DEF k
  <2>3. z.attempt = x.attempt
    BY <2>1, ClientBufferChanged
  <2> QED
    BY <2>2, <2>3 DEF Keeps
<1>11. \A k \in BOOLEAN : Keeps(x, FinishClientResponse(x, k).io)
  <2> SUFFICES ASSUME NEW keepAlive \in BOOLEAN PROVE Keeps(x, FinishClientResponse(x, keepAlive).io)
    OBVIOUS
  <2> DEFINE d == HandleEvent(x, "ClientWritable").io
             w == Restart(x, FreshAttempt)
             z == HandleEvent(w, "ClientResponseCompleted").io
  <2>1. FinishClientResponse(x, keepAlive).io \in {x, d, z}
    BY DEF FinishClientResponse, Restart
  <2>2. d.attempt = x.attempt
    BY EventKeeps
  <2>3. x.state \in ConnectionStates
    BY DEF IoRecords
  <2>4. w \in IoRecords /\ w.attempt = FreshAttempt
    BY <2>3, FreshFacts, RestartFacts
  <2> HIDE DEF w
  <2>5. z.attempt = FreshAttempt
    BY <2>4, EventKeeps
  <2> QED
    BY <2>1, <2>2, <2>5 DEF Keeps
<1> QED
  BY <1>1, <1>2, <1>3, <1>4, <1>5, <1>6, <1>7, <1>8, <1>9, <1>10, <1>11

(* AttemptSettlesOnce for buffers of any size: an outcome, once recorded,  *)
(* is never replaced by another.                                           *)
THEOREM OutcomeIsFinal == LifecycleSpec => AttemptSettlesOnce
<1>1. LifecycleInv /\ [LifecycleNext]_io =>
        [io.attempt.terminal # "None" => io'.attempt = io.attempt \/ io'.attempt = FreshAttempt]_io
  <2> SUFFICES ASSUME Sound(io), LifecycleNext, io.attempt.terminal # "None"
               PROVE  Keeps(io, io')
    BY DEF LifecycleInv, Keeps
  <2>0. io.attempt.phase = "Terminal" /\ io \in IoRecords
    BY DEF Sound
  <2>01. Nat \ {0} \subseteq Nat /\ 0 \in Nat
    OBVIOUS
  <2>1. CASE Receive
    BY <2>0, <2>01, <2>1, SettledStays DEF Receive, Failures
  <2>2. CASE Connect
    BY <2>0, <2>01, <2>2, SettledStays DEF Connect, Failures
  <2>3. CASE StartTls
    BY <2>0, <2>3, EventKeeps DEF StartTls, Keeps
  <2>4. CASE Connected
    BY <2>0, <2>01, <2>4, SettledStays DEF Connected, Failures
  <2>5. CASE WriteRequest
    BY <2>0, <2>01, <2>5, SettledStays DEF WriteRequest, Failures
  <2>6. CASE TakeResponse
    BY <2>0, <2>01, <2>6, SettledStays DEF TakeResponse, Failures
  <2>7. CASE EndResponse
    BY <2>0, <2>01, <2>7, SettledStays DEF EndResponse, Failures
  <2>8. CASE SettleFailed
    BY <2>0, <2>01, <2>8, SettledStays DEF SettleFailed
  <2>9. CASE Retry
    BY <2>0, <2>01, <2>9, SettledStays DEF Retry, Failures
  <2>10. CASE Respond
    BY <2>0, <2>01, <2>10, SettledStays DEF Respond, Failures
  <2>11. CASE DrainClient
    BY <2>0, <2>01, <2>11, SettledStays DEF DrainClient, Failures
  <2>12. CASE FinishClient
    BY <2>0, <2>01, <2>12, SettledStays DEF FinishClient, Failures
  <2>13. CASE BreakOff
    BY <2>0, <2>13, EventKeeps DEF BreakOff, Keeps
  <2> QED
    BY <2>1, <2>2, <2>3, <2>4, <2>5, <2>6, <2>7, <2>8, <2>9, <2>10, <2>11, <2>12,
       <2>13 DEF LifecycleNext
<1> QED
  BY <1>1, LifecycleAlwaysSound, PTL DEF LifecycleSpec, AttemptSettlesOnce

HIDE DEF Okay, Refuse

-----------------------------------------------------------------------------
(* The inductive invariant.                                                *)

Peers == Upstreams \cup {NoUpstream}

Conns ==
    [io : IoRecords, out : Nat, batch : Nat, wire : BOOLEAN, upOut : Nat,
     tls : BOOLEAN, pendTls : BOOLEAN, up : Peers, upReg : SUBSET {"r", "w"},
     clReg : SUBSET {"r", "w"}, closeAfter : BOOLEAN, closeClient : BOOLEAN,
     deadline : BOOLEAN, reuse : Peers, attempted : SUBSET Upstreams, used : Nat,
     lease : Peers, sent : SUBSET Upstreams]

Budgets == [used : 0 .. Limit, pressure : PressureStates, held : [Owners -> [Slots -> Nat]]]

(* The upstream of a connection: the one selected and leased while there   *)
(* is an attempt, and a kept socket is the one its key names.              *)
Led(x) ==
    /\ InUpstream(x) => /\ x.up \in {NoUpstream, x.lease} /\ x.lease \in x.attempted
                        /\ IsFiniteSet(x.attempted)
                        /\ Cardinality(x.attempted) = x.used + 1
                        /\ x.io.attempt.terminal # "Succeeded"
    /\ Readable(x) => x.lease = NoUpstream
    /\ x.up = NoUpstream \/ x.reuse = NoUpstream \/ x.up = x.reuse
    /\ x.upReg # {} => x.up # NoUpstream /\ InUpstream(x)

(* What the upstreams were handed of the request.                          *)
Handed(x) ==
    /\ x.sent = {} \/ \E u \in Upstreams : x.sent = {u}
    /\ x.io.state \in {"ConnectingUpstream", "HandshakingUpstreamTls", "WritingUpstreamRequest"}
           => x.sent = {} /\ x.io.attempt.written = 0

(* The response bytes that a connection owns, and those it is charged for. *)
Quiet(x, h) == x.io.clientWrite = 0 /\ x.batch = 0 /\ x.out = 0 /\ h["response"] = 0
Unanswered(x) ==
    \/ x.io.state \in {"Accepted", "ReadingClientRequest", "SelectingRoute"}
    \/ InUpstream(x) /\ ~x.io.attempt.started
Owned(x, h) ==
    /\ x.out <= x.batch
    /\ x.out = 0 /\ x.batch # 0 => Cut(x) /\ x.closeAfter
    /\ Unanswered(x) => Quiet(x, h)
    /\ Cut(x) \/ h["response"] = x.io.clientWrite + x.batch
    /\ x.io.state \notin {"Closed", "TunnelingWebSocket"}
    /\ x.io.state = "Draining" => x.io.clientWrite = 0
    /\ x.io.state = "Failed" => x.clReg = {}

(* A deadline that means something in the state the connection is in.      *)
Armed(x) == x.closeAfter \/ (x.deadline /\ TimeoutKind(x.io.state) # "None")

(* A connection in the middle of a handler, and between two of them.       *)
Fit(x, h) == x \in Conns /\ Sound(x.io) /\ Led(x) /\ Handed(x) /\ Owned(x, h)
Good(x, h) == Fit(x, h) /\ Armed(x)

(* The world around the connections.                                       *)
Accounted(B) == B \in Budgets /\ IsFiniteSet(HeldBytes(B.held)) /\ BudgetBalanced(B)
Holders(w, u) == {c \in DOMAIN w.conn : w.conn[c].lease = u}
Whole(w) ==
    /\ w \in [conn : [DOMAIN w.conn -> Conns], budget : Budgets,
              leases : [Upstreams -> Nat], halted : BOOLEAN]
    /\ DOMAIN w.conn \subseteq Owners /\ IsFiniteSet(DOMAIN w.conn)
    /\ Accounted(w.budget)
    /\ \A c \in Owners \ DOMAIN w.conn : w.budget.held[c] = EmptySlots
    /\ \A u \in Upstreams : w.leases[u] = Cardinality(Holders(w, u))
AllGood(w) == \A c \in DOMAIN w.conn : Good(w.conn[c], w.budget.held[c])

(* What may still be delivered: an upstream event meets no kept socket,    *)
(* and a client read meets a connection that reads.                        *)
Active(w, c) == c \in DOMAIN w.conn => w.conn[c].up = NoUpstream \/ InUpstream(w.conn[c])
Reads(w, c) == c \in DOMAIN w.conn => Readable(w.conn[c])
UpstreamOps == {"WriteUpstream", "ReadUpstream"}
Promised ==
    /\ events \subseteq [side : {"client", "upstream"}, c : Owners, ready : SUBSET {"r", "w", "e"}]
    /\ \A e, f \in events : e.side = f.side /\ e.c = f.c => e = f
    /\ \A e \in events : e.side = "upstream" => Active(rt, e.c)
    /\ work \in Seq([op : UpstreamOps \cup {"ReadClient", "WriteClient", "Reconcile"}, c : Owners])
    /\ work # <<>> => turn = "events"
    /\ \A i \in DOMAIN work : work[i].op \in UpstreamOps =>
           /\ Active(rt, work[i].c)
           /\ \A e \in events : e.side = "upstream" => e.c # work[i].c
           /\ work[i].op = "ReadUpstream" =>
                 \A j \in DOMAIN work : j > i => work[j].op = "Reconcile"
    /\ \A i \in DOMAIN work : work[i].op = "ReadClient" => i = 1 /\ Reads(rt, work[i].c)
    /\ \A i, j \in DOMAIN work : work[i].c = work[j].c
    /\ turn = "drive" => \A c \in todo : Reads(rt, c)

LoopInv == Whole(rt) /\ AllGood(rt) /\ Promised /\ ReadsFollowPressure

-----------------------------------------------------------------------------
(* The budget: every operation keeps the total exact and touches the slots *)
(* of its own connection only.                                             *)

(* Some bytes in a slot.                                                   *)
LEMMA BytesInSlot ==
    ASSUME NEW i, NEW n \in Nat
    PROVE  IsFiniteSet({i} \X (1 .. n)) /\ Cardinality({i} \X (1 .. n)) = n
<1>1. IsFiniteSet(1 .. n) /\ Cardinality(1 .. n) = n
  BY FS_Interval
<1>2. IsFiniteSet({i}) /\ Cardinality({i}) = 1
  BY FS_Singleton
<1>3. /\ IsFiniteSet({i} \X (1 .. n))
      /\ Cardinality({i} \X (1 .. n)) = Cardinality({i}) * Cardinality(1 .. n)
  BY <1>1, <1>2, FS_Product
<1> QED
  BY <1>1, <1>2, <1>3

(* A byte that is held is a byte of some slot of some connection.           *)
LEMMA InHeld ==
    ASSUME NEW hs, NEW b
    PROVE  b \in HeldBytes(hs) <=>
               \E c \in Owners, k \in Slots : b \in {<<c, k>>} \X (1 .. hs[c][k])
<1>1. ASSUME NEW c \in Owners, NEW k \in Slots, b \in {<<c, k>>} \X (1 .. hs[c][k])
      PROVE  b \in HeldBytes(hs)
  <2> DEFINE S == {<<c, k>>} \X (1 .. hs[c][k])
  <2>1. S \in {{<<d, j>>} \X (1 .. hs[d][j]) : d \in Owners, j \in Slots}
    OBVIOUS
  <2> HIDE DEF S
  <2>2. b \in S
    BY <1>1 DEF S
  <2> QED
    BY <2>1, <2>2 DEF HeldBytes
<1>2. ASSUME b \in HeldBytes(hs)
      PROVE  \E c \in Owners, k \in Slots : b \in {<<c, k>>} \X (1 .. hs[c][k])
  BY <1>2 DEF HeldBytes
<1> QED
  BY <1>1, <1>2

(* The bytes of a slot and those of all the others.                        *)
Elsewhere(hs, c, k) == {b \in HeldBytes(hs) : b[1] # <<c, k>>}
(* What is held is what a slot holds and what is held elsewhere.            *)
LEMMA SlotByItself ==
    ASSUME NEW hs \in [Owners -> [Slots -> Nat]], NEW c \in Owners, NEW k \in Slots,
           IsFiniteSet(Elsewhere(hs, c, k))
    PROVE  /\ IsFiniteSet(HeldBytes(hs))
           /\ Cardinality(Elsewhere(hs, c, k)) \in Nat
           /\ Cardinality(HeldBytes(hs)) = Cardinality(Elsewhere(hs, c, k)) + hs[c][k]
<1> DEFINE own == {<<c, k>>} \X (1 .. hs[c][k])
           rest == Elsewhere(hs, c, k)
<1>1. hs[c][k] \in Nat
  OBVIOUS
<1>2. IsFiniteSet(own) /\ Cardinality(own) = hs[c][k]
  BY <1>1, BytesInSlot
<1>3. HeldBytes(hs) = rest \cup own
  <2>1. ASSUME NEW b \in HeldBytes(hs), b \notin rest PROVE b \in own
    <3>1. b[1] = <<c, k>>
      BY <2>1 DEF Elsewhere
    <3>2. PICK d \in Owners, j \in Slots : b \in {<<d, j>>} \X (1 .. hs[d][j])
      BY InHeld
    <3>3. b[1] = <<d, j>>
      BY <3>2
    <3>4. d = c /\ j = k
      BY <3>1, <3>3
    <3> QED
      BY <3>2, <3>4
  <2>2. own \subseteq HeldBytes(hs)
    BY InHeld
  <2>3. rest \subseteq HeldBytes(hs)
    BY DEF Elsewhere
  <2> QED
    BY <2>1, <2>2, <2>3
<1>4. rest \cap own = {}
  BY DEF Elsewhere
<1> HIDE DEF own
<1>5. Cardinality(rest) \in Nat
  BY FS_CardinalityType
<1> HIDE DEF rest
<1>6. IsFiniteSet(rest)
  BY DEF rest
<1>7. /\ IsFiniteSet(rest \cup own)
      /\ Cardinality(rest \cup own) =
            Cardinality(rest) + Cardinality(own) - Cardinality(rest \cap own)
  BY <1>2, <1>6, FS_Union
<1>8. Cardinality(rest \cap own) = 0
  BY <1>4, FS_EmptySet
<1> QED
  BY <1>1, <1>2, <1>3, <1>5, <1>7, <1>8 DEF rest

(* A slot takes another size.                                              *)
LEMMA HoldIs ==
    ASSUME NEW B, B \in Budgets, NEW c \in Owners, NEW k \in Slots, NEW n \in Nat
    PROVE  /\ Hold(B, c, k, n).used = (B.used - B.held[c][k]) + n
           /\ Hold(B, c, k, n).pressure = RefreshPressure(B.pressure, (B.used - B.held[c][k]) + n)
           /\ Hold(B, c, k, n).held \in [Owners -> [Slots -> Nat]]
           /\ Hold(B, c, k, n).held[c][k] = n
           /\ \A j \in Slots \ {k} : Hold(B, c, k, n).held[c][j] = B.held[c][j]
           /\ \A d \in Owners \ {c} : Hold(B, c, k, n).held[d] = B.held[d]
BY DEF Hold, Budgets

(* The pressure is always one of its states.                                *)
LEMMA RefreshTyped ==
    ASSUME NEW p \in PressureStates, NEW u
    PROVE  RefreshPressure(p, u) \in PressureStates
BY DEF RefreshPressure, PressureStates

(* The total follows the slot.                                             *)
LEMMA HoldAccounted ==
    ASSUME NEW B, Accounted(B), NEW c \in Owners, NEW k \in Slots, NEW n \in Nat,
           (B.used - B.held[c][k]) + n <= Limit
    PROVE  Accounted(Hold(B, c, k, n)) /\ B.held[c][k] <= B.used
<1> DEFINE new == Hold(B, c, k, n)
           rest == Elsewhere(B.held, c, k)
<1>1. B \in Budgets /\ B.held \in [Owners -> [Slots -> Nat]] /\ B.used \in Nat
      /\ B.held[c][k] \in Nat /\ B.pressure \in PressureStates
  BY LimitAssumption DEF Accounted, Budgets
<1>2. IsFiniteSet(rest)
  <2>1. rest \subseteq HeldBytes(B.held)
    BY DEF Elsewhere
  <2> QED
    BY <2>1, FS_Subset DEF Accounted
<1>3. /\ Cardinality(rest) \in Nat
      /\ Cardinality(HeldBytes(B.held)) = Cardinality(rest) + B.held[c][k]
  BY <1>1, <1>2, SlotByItself
<1>4. /\ new.used = (B.used - B.held[c][k]) + n
      /\ new.pressure = RefreshPressure(B.pressure, (B.used - B.held[c][k]) + n)
      /\ new.held \in [Owners -> [Slots -> Nat]] /\ new.held[c][k] = n
      /\ \A j \in Slots \ {k} : new.held[c][j] = B.held[c][j]
      /\ \A d \in Owners \ {c} : new.held[d] = B.held[d]
  BY <1>1, HoldIs
<1>5. new = [used |-> new.used, pressure |-> new.pressure, held |-> new.held]
  BY DEF Hold
<1> HIDE DEF new
<1>6. Elsewhere(new.held, c, k) = rest
  <2>1. ASSUME NEW h \in [Owners -> [Slots -> Nat]], NEW g \in [Owners -> [Slots -> Nat]],
               \A j \in Slots \ {k} : h[c][j] = g[c][j],
               \A d \in Owners \ {c} : h[d] = g[d],
               NEW b \in Elsewhere(h, c, k)
        PROVE  b \in Elsewhere(g, c, k)
    <3>1. b[1] # <<c, k>> /\ b \in HeldBytes(h)
      BY DEF Elsewhere
    <3>2. PICK d \in Owners, j \in Slots : b \in {<<d, j>>} \X (1 .. h[d][j])
      BY <3>1, InHeld
    <3>3. h[d][j] = g[d][j]
      <4>1. b[1] = <<d, j>>
        BY <3>2
      <4>2. d # c \/ j # k
        BY <3>1, <4>1
      <4> QED
        BY <2>1, <4>2
    <3>4. b \in HeldBytes(g)
      BY <3>2, <3>3, InHeld
    <3> QED
      BY <3>1, <3>4 DEF Elsewhere
  <2>2. Elsewhere(new.held, c, k) \subseteq rest
    BY <1>1, <1>4, <2>1
  <2>3. rest \subseteq Elsewhere(new.held, c, k)
    <3>1. /\ \A j \in Slots \ {k} : B.held[c][j] = new.held[c][j]
          /\ \A d \in Owners \ {c} : B.held[d] = new.held[d]
      BY <1>4
    <3> QED
      BY <1>1, <1>4, <2>1, <3>1
  <2> QED
    BY <2>2, <2>3
<1> HIDE DEF rest
<1>7. /\ IsFiniteSet(HeldBytes(new.held))
      /\ Cardinality(HeldBytes(new.held)) = Cardinality(rest) + n
  BY <1>2, <1>4, <1>6, SlotByItself
<1>8. B.used = Cardinality(rest) + B.held[c][k]
  BY <1>3 DEF Accounted, BudgetBalanced
<1>9. new.used = Cardinality(rest) + n /\ new.used \in 0 .. Limit
  BY <1>1, <1>3, <1>4, <1>8, LimitAssumption
<1>10. new \in Budgets
  BY <1>1, <1>4, <1>5, <1>9, RefreshTyped DEF Budgets
<1> QED
  BY <1>1, <1>3, <1>7, <1>8, <1>9, <1>10 DEF new, Accounted, BudgetBalanced

(* What an operation on the slots of c leaves.                             *)
Charged(B, r, c) ==
    /\ r = [ok |-> r.ok, budget |-> r.budget] /\ r.ok \in BOOLEAN
    /\ Accounted(r.budget)
    /\ \A d \in Owners \ {c} : r.budget.held[d] = B.held[d]

(* A refusal changes the pressure at most.                                 *)
LEMMA RefusalCharged ==
    ASSUME NEW B, Accounted(B), NEW c, NEW p \in PressureStates
    PROVE  /\ Charged(B, Deny([B EXCEPT !.pressure = p]), c)
           /\ Deny([B EXCEPT !.pressure = p]).budget.held = B.held
           /\ Deny([B EXCEPT !.pressure = p]).budget.used = B.used
           /\ Charged(B, Deny(B), c) /\ Charged(B, Grant(B), c)
<1>1. /\ [B EXCEPT !.pressure = p] \in Budgets
      /\ [B EXCEPT !.pressure = p].held = B.held
      /\ [B EXCEPT !.pressure = p].used = B.used
  BY DEF Accounted, Budgets
<1> QED
  BY <1>1 DEF Accounted, BudgetBalanced, Charged, Deny, Grant

(* The three operations on one slot.                                       *)
OneSlot(B, r, c, k, n) ==
    /\ Charged(B, r, c)
    /\ \A j \in Slots \ {k} : r.budget.held[c][j] = B.held[c][j]
    /\ r.budget.held[c][k] = IF r.ok THEN n ELSE B.held[c][k]
    /\ r.budget.used = (B.used - B.held[c][k]) + r.budget.held[c][k]
(* The slots and the total are numbers, and the total is within the limit.  *)
LEMMA SlotTyped ==
    ASSUME NEW B, Accounted(B), NEW c \in Owners, NEW k \in Slots
    PROVE  B.held[c][k] \in Nat /\ B.used \in Nat /\ B.used <= Limit
BY LimitAssumption DEF Accounted, Budgets

(* A refusal touches no slot.                                               *)
LEMMA RefusalsOneSlot ==
    ASSUME NEW B, Accounted(B), NEW c \in Owners, NEW k \in Slots, NEW n
    PROVE  /\ OneSlot(B, Deny(B), c, k, n)
           /\ OneSlot(B, DenyOver(B), c, k, n) /\ OneSlot(B, DenyBroken(B), c, k, n)
<1>0. B.used \in Nat /\ B.held[c][k] \in Nat
  BY SlotTyped
<1>1. ASSUME NEW p \in PressureStates PROVE OneSlot(B, Deny([B EXCEPT !.pressure = p]), c, k, n)
  <2> DEFINE r == Deny([B EXCEPT !.pressure = p])
  <2>1. Charged(B, r, c) /\ r.budget.held = B.held /\ r.budget.used = B.used /\ r.ok = FALSE
    BY RefusalCharged DEF Deny
  <2> HIDE DEF r
  <2>2. OneSlot(B, r, c, k, n)
    BY <1>0, <2>1 DEF OneSlot
  <2> QED
    BY <2>2 DEF r
<1>2. OneSlot(B, Deny(B), c, k, n)
  <2>1. Charged(B, Deny(B), c)
    BY RefusalCharged DEF PressureStates
  <2> QED
    BY <1>0, <2>1 DEF OneSlot, Deny
<1> QED
  BY <1>1, <1>2 DEF DenyOver, DenyBroken, PressureStates

(* A slot that takes a size that fits leaves the total exact.               *)
LEMMA HoldCharged ==
    ASSUME NEW B, Accounted(B), NEW c \in Owners, NEW k \in Slots, NEW n \in Nat,
           (B.used - B.held[c][k]) + n <= Limit
    PROVE  OneSlot(B, Grant(Hold(B, c, k, n)), c, k, n)
<1>1. B \in Budgets
  BY DEF Accounted
<1> DEFINE new == Hold(B, c, k, n)
<1>2. Accounted(new)
  BY HoldAccounted
<1>3. /\ new.held[c][k] = n /\ new.used = (B.used - B.held[c][k]) + n
      /\ \A j \in Slots \ {k} : new.held[c][j] = B.held[c][j]
      /\ \A d \in Owners \ {c} : new.held[d] = B.held[d]
  BY <1>1, HoldIs
<1> HIDE DEF new
<1>4. OneSlot(B, Grant(new), c, k, n)
  BY <1>2, <1>3 DEF OneSlot, Charged, Grant
<1> QED
  BY <1>4 DEF new

(* try_acquire on an empty slot takes what was asked, or nothing.           *)
LEMMA TakeCharged ==
    ASSUME NEW B, Accounted(B), NEW c \in Owners, NEW k \in Slots, NEW n \in Nat, B.held[c][k] = 0
    PROVE  OneSlot(B, TakeSlot(B, c, k, n), c, k, n)
<1>1. B.used \in Nat
  BY SlotTyped
<1>2. /\ OneSlot(B, Deny(B), c, k, n)
      /\ OneSlot(B, DenyOver(B), c, k, n) /\ OneSlot(B, DenyBroken(B), c, k, n)
  BY RefusalsOneSlot
<1>3. CASE B.used + n <= Limit
  BY <1>1, <1>2, <1>3, HoldCharged DEF TakeSlot
<1>4. CASE B.used + n > Limit
  BY <1>2, <1>4 DEF TakeSlot
<1> QED
  BY <1>1, <1>3, <1>4, LimitAssumption

(* try_resize leaves the size that was asked, or what there was.            *)
LEMMA ResizeCharged ==
    ASSUME NEW B, Accounted(B), NEW c \in Owners, NEW k \in Slots, NEW n \in Nat
    PROVE  OneSlot(B, ResizeSlot(B, c, k, n), c, k, n)
<1>1. B.used \in Nat /\ B.held[c][k] \in Nat
  BY SlotTyped
<1>2. OneSlot(B, DenyOver(B), c, k, n) /\ OneSlot(B, DenyBroken(B), c, k, n)
  BY RefusalsOneSlot
<1>3. CASE (B.used - B.held[c][k]) + n <= Limit
  BY <1>1, <1>2, <1>3, HoldCharged DEF ResizeSlot
<1>4. CASE (B.used - B.held[c][k]) + n > Limit
  BY <1>2, <1>4 DEF ResizeSlot
<1> QED
  BY <1>1, <1>3, <1>4, LimitAssumption

(* Dropping a lease empties its slot and cannot fail.                       *)
LEMMA DropCharged ==
    ASSUME NEW B, Accounted(B), NEW c \in Owners, NEW k \in Slots
    PROVE  OneSlot(B, DropSlot(B, c, k), c, k, 0) /\ DropSlot(B, c, k).ok
<1>1. B.used \in Nat /\ B.held[c][k] \in Nat /\ B.used <= Limit
  BY SlotTyped
<1>2. CASE B.held[c][k] = 0
  <2>1. Charged(B, Grant(B), c)
    BY RefusalCharged DEF PressureStates
  <2> QED
    BY <1>1, <1>2, <2>1 DEF OneSlot, Grant, DropSlot
<1>3. CASE B.held[c][k] # 0
  <2>1. (B.used - B.held[c][k]) + 0 <= Limit
    BY <1>1, LimitAssumption
  <2> QED
    BY <1>3, <2>1, HoldCharged DEF DropSlot, Grant
<1> QED
  BY <1>2, <1>3

(* What TakeSlot says when it refuses and when it grants.                  *)
LEMMA TakeAnswers ==
    ASSUME NEW B, NEW c, NEW k, NEW n
    PROVE  /\ ~TakeSlot(B, c, k, n).ok => TakeSlot(B, c, k, n) \in {Deny(B), DenyOver(B), DenyBroken(B)}
           /\ TakeSlot(B, c, k, n).ok => ~(B.used + n > Limit) /\ n # 0
BY DEF TakeSlot, Grant, Deny, DenyOver, DenyBroken

(* Growing the request charge adds to it, or changes nothing.               *)
LEMMA GrowRequestCharged ==
    ASSUME NEW B, Accounted(B), NEW c \in Owners, NEW n \in Nat
    PROVE  OneSlot(B, BudgetGrowRequest(B, c, n), c, "request", B.held[c]["request"] + n)
<1>1. "request" \in Slots
  BY DEF Slots
<1>2. B.held[c]["request"] \in Nat /\ B.used \in Nat
  BY <1>1, SlotTyped
<1>3. CASE n = 0
  <2>1. Charged(B, Grant(B), c)
    BY RefusalCharged DEF PressureStates
  <2> QED
    BY <1>1, <1>2, <1>3, <2>1 DEF OneSlot, Grant, BudgetGrowRequest
<1>4. CASE n # 0 /\ B.held[c]["request"] = 0
  <2>1. OneSlot(B, TakeSlot(B, c, "request", n), c, "request", n)
    BY <1>1, <1>4, TakeCharged
  <2> QED
    BY <1>2, <1>4, <2>1 DEF BudgetGrowRequest
<1>5. CASE n # 0 /\ B.held[c]["request"] # 0
  BY <1>1, <1>2, <1>5, ResizeCharged DEF BudgetGrowRequest
<1> QED
  BY <1>3, <1>4, <1>5

(* Synchronising a slot leaves the size that was asked, or what there was.  *)
LEMMA SyncCharged ==
    ASSUME NEW B, Accounted(B), NEW c \in Owners, NEW k \in Slots, NEW n \in Nat
    PROVE  OneSlot(B, BudgetSync(B, c, k, n), c, k, n)
<1>1. B.held[c][k] \in Nat /\ B.used \in Nat
  BY SlotTyped
<1>2. CASE n = B.held[c][k]
  <2>1. Charged(B, Grant(B), c)
    BY RefusalCharged DEF PressureStates
  <2> QED
    BY <1>1, <1>2, <2>1 DEF OneSlot, Grant, BudgetSync
<1>3. CASE n # B.held[c][k] /\ n = 0
  BY <1>3, DropCharged DEF BudgetSync
<1>4. CASE n # B.held[c][k] /\ n # 0
  BY <1>4, TakeCharged, ResizeCharged DEF BudgetSync
<1> QED
  BY <1>2, <1>3, <1>4

(* The response charge follows the buffer that was allocated; without one   *)
(* the charge is as before.                                                 *)
LEMMA SetResponseCharged ==
    ASSUME NEW B, Accounted(B), NEW c \in Owners, NEW n \in Nat, NEW allocated \in BOOLEAN
    PROVE  /\ OneSlot(B, BudgetSetResponse(B, c, n, allocated), c, "response", n)
           /\ BudgetSetResponse(B, c, n, allocated).ok => allocated
<1> DEFINE old == B.held[c]["response"]
           taken == IF old = 0 THEN TakeSlot(B, c, "response", n) ELSE ResizeSlot(B, c, "response", n)
           back == Hold(taken.budget, c, "response", old)
<1>1. "response" \in Slots
  BY DEF Slots
<1>2. old \in Nat /\ B.used \in Nat /\ B.used <= Limit
  BY <1>1, SlotTyped
<1>3. OneSlot(B, taken, c, "response", n)
  BY <1>1, TakeCharged, ResizeCharged
<1>4. BudgetSetResponse(B, c, n, allocated) =
         IF taken.ok /\ ~allocated THEN Deny(back) ELSE taken
  BY <1>3 DEF BudgetSetResponse, SettleResponse, OneSlot, Charged
<1> HIDE DEF taken
<1>5. CASE ~(taken.ok /\ ~allocated)
  BY <1>3, <1>4, <1>5 DEF OneSlot
<1>6. CASE taken.ok /\ ~allocated
  <2>1. /\ Accounted(taken.budget) /\ taken.budget.held[c]["response"] = n
        /\ taken.budget.used = (B.used - old) + n
        /\ \A j \in Slots \ {"response"} : taken.budget.held[c][j] = B.held[c][j]
        /\ \A d \in Owners \ {c} : taken.budget.held[d] = B.held[d]
    BY <1>3, <1>6 DEF OneSlot, Charged
  <2>2. (taken.budget.used - taken.budget.held[c]["response"]) + old = B.used
    BY <1>2, <2>1
  <2>3. (taken.budget.used - taken.budget.held[c]["response"]) + old <= Limit
    BY <1>2, <2>2
  <2>4. OneSlot(taken.budget, Grant(back), c, "response", old)
    BY <1>1, <1>2, <2>1, <2>3, HoldCharged
  <2> HIDE DEF back
  <2>5. /\ Accounted(back) /\ back.held[c]["response"] = old
        /\ back.used = B.used
        /\ \A j \in Slots \ {"response"} : back.held[c][j] = B.held[c][j]
        /\ \A d \in Owners \ {c} : back.held[d] = B.held[d]
    BY <2>1, <2>2, <2>4 DEF OneSlot, Charged, Grant
  <2>6. OneSlot(B, Deny(back), c, "response", n)
    BY <1>2, <2>5 DEF OneSlot, Charged, Deny
  <2> QED
    BY <1>4, <1>6, <2>6 DEF Deny
<1> QED
  BY <1>5, <1>6

(* Written response bytes are released exactly, and never more than are     *)
(* held.                                                                    *)
LEMMA ReleaseDrainedCharged ==
    ASSUME NEW B, Accounted(B), NEW c \in Owners, NEW n \in Nat
    PROVE  /\ OneSlot(B, ReleaseDrained(B, c, n), c, "response", B.held[c]["response"] - n)
           /\ ReleaseDrained(B, c, n).ok => n <= B.held[c]["response"]
           /\ n > 0 /\ n <= B.held[c]["response"] => ReleaseDrained(B, c, n).ok
<1> DEFINE old == B.held[c]["response"]
           m == old - n
<1>1. "response" \in Slots
  BY DEF Slots
<1>2. old \in Nat /\ B.used \in Nat /\ B.used <= Limit
  BY <1>1, SlotTyped
<1>3. CASE old < n
  <2>1. OneSlot(B, Deny(B), c, "response", m)
    BY <1>1, RefusalsOneSlot
  <2> QED
    BY <1>2, <1>3, <2>1 DEF ReleaseDrained, Deny
<1>4. CASE ~(old < n) /\ old = 0
  <2>1. OneSlot(B, DenyBroken(B), c, "response", m)
    BY <1>1, RefusalsOneSlot
  <2> QED
    BY <1>2, <1>4, <2>1 DEF ReleaseDrained, BudgetShrinkResponse, DenyBroken, Deny
<1>5. CASE ~(old < n) /\ old # 0 /\ m = 0
  <2>1. /\ OneSlot(B, DropSlot(B, c, "response"), c, "response", 0)
        /\ DropSlot(B, c, "response").ok
    BY <1>1, DropCharged
  <2> QED
    BY <1>2, <1>5, <2>1 DEF ReleaseDrained, BudgetShrinkResponse
<1>6. CASE ~(old < n) /\ old # 0 /\ m # 0
  <2>1. m \in Nat
    BY <1>2, <1>6
  <2>2. OneSlot(B, ResizeSlot(B, c, "response", m), c, "response", m)
    BY <1>1, <2>1, ResizeCharged
  <2>3. ~((B.used - old) + m > Limit)
    BY <1>2, <1>6, LimitAssumption
  <2>4. ResizeSlot(B, c, "response", m).ok
    BY <1>6, <2>3 DEF ResizeSlot, Grant
  <2> QED
    BY <1>2, <1>6, <2>2, <2>4 DEF ReleaseDrained, BudgetShrinkResponse
<1> QED
  BY <1>3, <1>4, <1>5, <1>6

(* An operation that leaves the response slot of its connection alone.     *)
KeepsResponse(B, r, c) ==
    Charged(B, r, c) /\ r.budget.held[c]["response"] = B.held[c]["response"]

(* The pair of charges is taken whole or not at all.                       *)
LEMMA TakePairCharged ==
    ASSUME NEW B, Accounted(B), NEW c \in Owners, NEW u \in Nat, NEW r \in Nat,
           NEW allocated \in BOOLEAN
    PROVE  KeepsResponse(B, BudgetTakePair(B, c, u, r, allocated), c)
<1> DEFINE first == TakeSlot(B, c, "upstream", u)
           second == TakeSlot(first.budget, c, "retry", r)
           less == DropSlot(second.budget, c, "upstream")
           none == DropSlot(less.budget, c, "retry")
<1>1. "upstream" \in Slots /\ "retry" \in Slots /\ "response" \in Slots
  BY DEF Slots
<1>2. CASE B.held[c]["upstream"] # 0 \/ B.held[c]["retry"] # 0
  <2>1. OneSlot(B, DenyBroken(B), c, "retry", 0)
    BY <1>1, RefusalsOneSlot
  <2> QED
    BY <1>1, <1>2, <2>1 DEF KeepsResponse, OneSlot, BudgetTakePair
<1>3. CASE B.held[c]["upstream"] = 0 /\ B.held[c]["retry"] = 0
  <2>1. OneSlot(B, first, c, "upstream", u)
    BY <1>1, <1>3, TakeCharged
  <2>2. BudgetTakePair(B, c, u, r, allocated) =
          IF ~first.ok THEN first
          ELSE IF second.ok /\ allocated THEN second ELSE Deny(none.budget)
    BY <1>3 DEF BudgetTakePair, TakeSecond, SettlePair, DropPair
  <2> HIDE DEF first
  <2>3. KeepsResponse(B, first, c) /\ Accounted(first.budget) /\ first.budget.held[c]["retry"] = 0
    BY <1>1, <1>3, <2>1 DEF KeepsResponse, OneSlot, Charged
  <2>4. OneSlot(first.budget, second, c, "retry", r)
    BY <1>1, <2>3, TakeCharged
  <2> HIDE DEF second
  <2>5. KeepsResponse(B, second, c) /\ Accounted(second.budget)
    BY <1>1, <2>3, <2>4 DEF KeepsResponse, OneSlot, Charged
  <2>6. OneSlot(second.budget, less, c, "upstream", 0)
    BY <1>1, <2>5, DropCharged
  <2> HIDE DEF less
  <2>7. KeepsResponse(B, less, c) /\ Accounted(less.budget)
    BY <1>1, <2>5, <2>6 DEF KeepsResponse, OneSlot, Charged
  <2>8. OneSlot(less.budget, none, c, "retry", 0)
    BY <1>1, <2>7, DropCharged
  <2> HIDE DEF none
  <2>9. KeepsResponse(B, Deny(none.budget), c)
    BY <1>1, <2>7, <2>8 DEF KeepsResponse, OneSlot, Charged, Deny
  <2> QED
    BY <2>2, <2>3, <2>5, <2>9
<1> QED
  BY <1>2, <1>3

(* The charge of a retry replaces the one of the failed attempt.           *)
LEMMA ReplaceUpstreamCharged ==
    ASSUME NEW B, Accounted(B), NEW c \in Owners, NEW u \in Nat, NEW allocated \in BOOLEAN
    PROVE  /\ KeepsResponse(B, BudgetReplaceUpstream(B, c, u, allocated), c)
           /\ BudgetReplaceUpstream(B, c, u, allocated).ok => allocated
<1> DEFINE old == B.held[c]["upstream"]
           taken == TakeSlot(B, c, "upstream", u)
           both == Hold(B, c, "upstream", old + u)
           fresh == Hold(both, c, "upstream", u)
           back == Hold(both, c, "upstream", old)
           result == BudgetReplaceUpstream(B, c, u, allocated)
<1>1. "upstream" \in Slots /\ "response" \in Slots
  BY DEF Slots
<1>2. old \in Nat /\ B.used \in Nat /\ B.used <= Limit
  BY <1>1, SlotTyped
<1>3. OneSlot(B, DenyBroken(B), c, "upstream", 0) /\ OneSlot(B, Deny(B), c, "upstream", 0)
      /\ OneSlot(B, DenyOver(B), c, "upstream", 0)
  BY <1>1, RefusalsOneSlot
<1>4. CASE old = 0
  BY <1>1, <1>3, <1>4 DEF KeepsResponse, OneSlot, BudgetReplaceUpstream, DenyBroken, Deny
<1>5. CASE old # 0 /\ ~taken.ok
  <2>1. result = taken /\ taken \in {Deny(B), DenyOver(B), DenyBroken(B)}
    BY <1>5, TakeAnswers DEF BudgetReplaceUpstream
  <2> QED
    BY <1>1, <1>3, <1>5, <2>1 DEF KeepsResponse, OneSlot
<1>6. CASE old # 0 /\ taken.ok
  <2>1. ~(B.used + u > Limit)
    BY <1>6, TakeAnswers
  <2>2. (B.used - old) + (old + u) <= Limit /\ old + u \in Nat
    BY <1>2, <2>1, LimitAssumption
  <2>3. OneSlot(B, Grant(both), c, "upstream", old + u)
    BY <1>1, <2>2, HoldCharged
  <2>4. result = IF allocated THEN Grant(fresh) ELSE Deny(back)
    BY <1>6 DEF BudgetReplaceUpstream
  <2> HIDE DEF both
  <2>5. /\ Accounted(both) /\ both.held[c]["upstream"] = old + u
        /\ both.used = (B.used - old) + (old + u)
        /\ both.held[c]["response"] = B.held[c]["response"]
        /\ \A d \in Owners \ {c} : both.held[d] = B.held[d]
    BY <1>1, <2>3 DEF OneSlot, Charged, Grant
  <2>6. /\ (both.used - both.held[c]["upstream"]) + u <= Limit
        /\ (both.used - both.held[c]["upstream"]) + old <= Limit
    BY <1>2, <2>1, <2>5, LimitAssumption
  <2>7. /\ OneSlot(both, Grant(fresh), c, "upstream", u)
        /\ OneSlot(both, Grant(back), c, "upstream", old)
    BY <1>1, <1>2, <2>5, <2>6, HoldCharged
  <2> HIDE DEF fresh, back
  <2>8. KeepsResponse(B, Grant(fresh), c) /\ KeepsResponse(B, Deny(back), c)
    BY <1>1, <2>5, <2>7 DEF KeepsResponse, OneSlot, Charged, Grant, Deny
  <2> HIDE DEF result
  <2>9. KeepsResponse(B, result, c) /\ (result.ok => allocated)
    BY <2>4, <2>8 DEF Grant, Deny
  <2> QED
    BY <2>9 DEF result
<1> QED
  BY <1>4, <1>5, <1>6

(* A budget that differs from B in the slots of c.                         *)
Emptied(B, b, c, S) ==
    /\ Accounted(b) /\ \A d \in Owners \ {c} : b.held[d] = B.held[d]
    /\ \A j \in S : b.held[c][j] = 0
    /\ \A j \in Slots \ S : b.held[c][j] = B.held[c][j]

(* One more slot is emptied.                                               *)
LEMMA EmptyOneMore ==
    ASSUME NEW B, NEW b, NEW c \in Owners, NEW S \in SUBSET Slots, NEW k \in Slots \ S,
           Emptied(B, b, c, S), NEW T, T = S \cup {k}
    PROVE  /\ Emptied(B, DropSlot(b, c, k).budget, c, T)
           /\ DropSlot(b, c, k).budget.used = b.used - B.held[c][k]
           /\ b.used \in Nat /\ B.held[c][k] \in Nat
<1>1. Accounted(b) /\ b.held[c][k] = B.held[c][k]
  BY DEF Emptied
<1> DEFINE r == DropSlot(b, c, k)
<1>2. OneSlot(b, r, c, k, 0) /\ r.ok
  BY <1>1, DropCharged
<1>3. b.used \in Nat /\ b.held[c][k] \in Nat
  BY <1>1, SlotTyped
<1> HIDE DEF r
<1>4. Emptied(B, r.budget, c, T) /\ r.budget.used = b.used - B.held[c][k]
  BY <1>1, <1>2, <1>3 DEF Emptied, OneSlot, Charged
<1> QED
  BY <1>1, <1>3, <1>4 DEF r

(* A connection that owns nothing.                                         *)
LEMMA SumIsZero ==
    ASSUME NEW a \in Nat, NEW b \in Nat, NEW c \in Nat, NEW d \in Nat, NEW e \in Nat,
           NEW f \in Nat, NEW g \in Nat, a + b + c + d + e + f + g = 0
    PROVE  a = 0 /\ b = 0 /\ c = 0 /\ d = 0 /\ e = 0 /\ f = 0 /\ g = 0
OBVIOUS

(* A connection that holds no byte has empty slots.                         *)
LEMMA BytesNone ==
    ASSUME NEW h \in [Slots -> Nat], BytesOf(h) = 0
    PROVE  h = EmptySlots
<1>1. \A k \in Slots : h[k] \in Nat
  OBVIOUS
<1>2. /\ "request" \in Slots /\ "upstream" \in Slots /\ "retry" \in Slots
      /\ "response" \in Slots /\ "tls" \in Slots /\ "wsUp" \in Slots /\ "wsDown" \in Slots
  BY DEF Slots
<1>3. /\ h["request"] = 0 /\ h["upstream"] = 0 /\ h["retry"] = 0 /\ h["response"] = 0
      /\ h["tls"] = 0 /\ h["wsUp"] = 0 /\ h["wsDown"] = 0
  BY <1>1, <1>2, SumIsZero DEF BytesOf
<1> QED
  BY <1>3 DEF EmptySlots, Slots

(* A removed connection gives back every byte.                             *)
LEMMA DropAllAccounted ==
    ASSUME NEW B, Accounted(B), NEW c \in Owners
    PROVE  /\ Accounted(BudgetDropAll(B, c))
           /\ BudgetDropAll(B, c).held[c] = EmptySlots
           /\ \A d \in Owners \ {c} : BudgetDropAll(B, c).held[d] = B.held[d]
<1> DEFINE b1 == DropSlot(B, c, "request").budget
           b2 == DropSlot(b1, c, "upstream").budget
           b3 == DropSlot(b2, c, "retry").budget
           b4 == DropSlot(b3, c, "response").budget
           b5 == DropSlot(b4, c, "tls").budget
           b6 == DropSlot(b5, c, "wsUp").budget
           b7 == DropSlot(b6, c, "wsDown").budget
           h == B.held[c]
           mine == BytesOf(h)
           new == BudgetDropAll(B, c)
<1>0. B \in Budgets /\ h \in [Slots -> Nat]
  BY DEF Accounted, Budgets
<1>1. Emptied(B, B, c, {})
  BY DEF Emptied
<1>2. /\ Emptied(B, b1, c, {"request"})
      /\ b1.used = B.used - h["request"] /\ h["request"] \in Nat
  <2> DEFINE S == {}
             T == {"request"}
             k == "request"
  <2>1. T = S \cup {k} /\ S \in SUBSET Slots /\ k \in Slots \ S
    BY DEF Slots
  <2>2. Emptied(B, B, c, S)
    BY <1>1
  <2> HIDE DEF S, T, k
  <2>3. /\ Emptied(B, DropSlot(B, c, k).budget, c, T)
        /\ DropSlot(B, c, k).budget.used = B.used - B.held[c][k] /\ B.held[c][k] \in Nat
    BY <2>1, <2>2, EmptyOneMore, ZenonT(60)
  <2> QED
    BY <2>3 DEF S, T, k
<1> HIDE DEF b1
<1>3. /\ Emptied(B, b2, c, {"request", "upstream"})
      /\ b2.used = b1.used - h["upstream"] /\ h["upstream"] \in Nat
  <2> DEFINE S == {"request"}
             T == {"request", "upstream"}
             k == "upstream"
  <2>1. T = S \cup {k} /\ S \in SUBSET Slots /\ k \in Slots \ S
    BY DEF Slots
  <2>2. Emptied(B, b1, c, S)
    BY <1>2
  <2> HIDE DEF S, T, k
  <2>3. /\ Emptied(B, DropSlot(b1, c, k).budget, c, T)
        /\ DropSlot(b1, c, k).budget.used = b1.used - B.held[c][k] /\ B.held[c][k] \in Nat
    BY <2>1, <2>2, EmptyOneMore
  <2> QED
    BY <2>3 DEF S, T, k
<1> HIDE DEF b2
<1>4. /\ Emptied(B, b3, c, {"request", "upstream", "retry"})
      /\ b3.used = b2.used - h["retry"] /\ h["retry"] \in Nat
  <2> DEFINE S == {"request", "upstream"}
             T == {"request", "upstream", "retry"}
             k == "retry"
  <2>1. T = S \cup {k} /\ S \in SUBSET Slots /\ k \in Slots \ S
    BY DEF Slots
  <2>2. Emptied(B, b2, c, S)
    BY <1>3
  <2> HIDE DEF S, T, k
  <2>3. /\ Emptied(B, DropSlot(b2, c, k).budget, c, T)
        /\ DropSlot(b2, c, k).budget.used = b2.used - B.held[c][k] /\ B.held[c][k] \in Nat
    BY <2>1, <2>2, EmptyOneMore
  <2> QED
    BY <2>3 DEF S, T, k
<1> HIDE DEF b3
<1>5. /\ Emptied(B, b4, c, {"request", "upstream", "retry", "response"})
      /\ b4.used = b3.used - h["response"] /\ h["response"] \in Nat
  <2> DEFINE S == {"request", "upstream", "retry"}
             T == {"request", "upstream", "retry", "response"}
             k == "response"
  <2>1. T = S \cup {k} /\ S \in SUBSET Slots /\ k \in Slots \ S
    BY DEF Slots
  <2>2. Emptied(B, b3, c, S)
    BY <1>4
  <2> HIDE DEF S, T, k
  <2>3. /\ Emptied(B, DropSlot(b3, c, k).budget, c, T)
        /\ DropSlot(b3, c, k).budget.used = b3.used - B.held[c][k] /\ B.held[c][k] \in Nat
    BY <2>1, <2>2, EmptyOneMore
  <2> QED
    BY <2>3 DEF S, T, k
<1> HIDE DEF b4
<1>6. /\ Emptied(B, b5, c, {"request", "upstream", "retry", "response", "tls"})
      /\ b5.used = b4.used - h["tls"] /\ h["tls"] \in Nat
  <2> DEFINE S == {"request", "upstream", "retry", "response"}
             T == {"request", "upstream", "retry", "response", "tls"}
             k == "tls"
  <2>1. T = S \cup {k} /\ S \in SUBSET Slots /\ k \in Slots \ S
    BY DEF Slots
  <2>2. Emptied(B, b4, c, S)
    BY <1>5
  <2> HIDE DEF S, T, k
  <2>3. /\ Emptied(B, DropSlot(b4, c, k).budget, c, T)
        /\ DropSlot(b4, c, k).budget.used = b4.used - B.held[c][k] /\ B.held[c][k] \in Nat
    BY <2>1, <2>2, EmptyOneMore
  <2> QED
    BY <2>3 DEF S, T, k
<1> HIDE DEF b5
<1>7. /\ Emptied(B, b6, c, {"request", "upstream", "retry", "response", "tls", "wsUp"})
      /\ b6.used = b5.used - h["wsUp"] /\ h["wsUp"] \in Nat
  <2> DEFINE S == {"request", "upstream", "retry", "response", "tls"}
             T == {"request", "upstream", "retry", "response", "tls", "wsUp"}
             k == "wsUp"
  <2>1. T = S \cup {k} /\ S \in SUBSET Slots /\ k \in Slots \ S
    BY DEF Slots
  <2>2. Emptied(B, b5, c, S)
    BY <1>6
  <2> HIDE DEF S, T, k
  <2>3. /\ Emptied(B, DropSlot(b5, c, k).budget, c, T)
        /\ DropSlot(b5, c, k).budget.used = b5.used - B.held[c][k] /\ B.held[c][k] \in Nat
    BY <2>1, <2>2, EmptyOneMore
  <2> QED
    BY <2>3 DEF S, T, k
<1> HIDE DEF b6
<1>8. /\ Emptied(B, b7, c, {"request", "upstream", "retry", "response", "tls", "wsUp", "wsDown"})
      /\ b7.used = b6.used - h["wsDown"] /\ h["wsDown"] \in Nat
  <2> DEFINE S == {"request", "upstream", "retry", "response", "tls", "wsUp"}
             T == {"request", "upstream", "retry", "response", "tls", "wsUp", "wsDown"}
             k == "wsDown"
  <2>1. T = S \cup {k} /\ S \in SUBSET Slots /\ k \in Slots \ S
    BY DEF Slots
  <2>2. Emptied(B, b6, c, S)
    BY <1>7
  <2> HIDE DEF S, T, k
  <2>3. /\ Emptied(B, DropSlot(b6, c, k).budget, c, T)
        /\ DropSlot(b6, c, k).budget.used = b6.used - B.held[c][k] /\ B.held[c][k] \in Nat
    BY <2>1, <2>2, EmptyOneMore
  <2> QED
    BY <2>3 DEF S, T, k
<1> HIDE DEF b7
<1>9. B.used \in Nat /\ B.pressure \in PressureStates
  BY <1>0, LimitAssumption DEF Budgets
<1>10. b7.used = B.used - mine /\ b7 \in Budgets /\ Accounted(b7) /\ mine \in Nat
  <2>1. b7.used = B.used - (h["request"] + h["upstream"] + h["retry"] + h["response"]
                            + h["tls"] + h["wsUp"] + h["wsDown"])
    BY <1>2, <1>3, <1>4, <1>5, <1>6, <1>7, <1>8, <1>9
  <2> QED
    BY <1>2, <1>3, <1>4, <1>5, <1>6, <1>7, <1>8, <2>1 DEF BytesOf, Emptied, Accounted
<1>11. b7.held \in [Owners -> [Slots -> Nat]] /\ b7.used \in 0 .. Limit
  BY <1>10 DEF Budgets
<1>12. b7.held[c] = EmptySlots /\ \A d \in Owners \ {c} : b7.held[d] = B.held[d]
  <2>1. b7.held[c] \in [Slots -> Nat]
    BY <1>11
  <2>2. \A j \in Slots : b7.held[c][j] = 0
    BY <1>8 DEF Emptied, Slots
  <2>3. b7.held[c] = EmptySlots
    BY <2>1, <2>2 DEF EmptySlots
  <2> QED
    BY <1>8, <2>3 DEF Emptied
<1>13. CASE mine = 0
  <2>2. h = EmptySlots
    BY <1>0, <1>13, BytesNone
  <2> QED
    BY <1>13, <2>2 DEF BudgetDropAll
<1>14. CASE mine # 0
  <2>1. B.held \in [Owners -> [Slots -> Nat]]
    BY <1>0 DEF Budgets
  <2>2. [B.held EXCEPT ![c] = EmptySlots] = b7.held
    BY <1>11, <1>12, <2>1
  <2>3. /\ new = [used |-> b7.used, pressure |-> RefreshPressure(B.pressure, b7.used), held |-> b7.held]
    BY <1>10, <1>14, <2>2 DEF BudgetDropAll
  <2>4. new \in Budgets /\ new.held = b7.held /\ new.used = b7.used
    BY <1>9, <1>11, <2>3, RefreshTyped DEF Budgets
  <2> HIDE DEF new
  <2>5. Accounted(new) /\ new.held[c] = EmptySlots /\ \A d \in Owners \ {c} : new.held[d] = B.held[d]
    BY <1>10, <1>12, <2>4 DEF Accounted, BudgetBalanced
  <2> QED
    BY <2>5 DEF new
<1> QED
  BY <1>13, <1>14

-----------------------------------------------------------------------------
(* The world: what a handler of connection c may do on its way from v.     *)

(* A world in which every connection but c is as it was in v.              *)
Rest(v, w, c) ==
    /\ Whole(w)
    /\ \A d \in DOMAIN w.conn \ {c} :
          d \in DOMAIN v.conn /\ w.conn[d] = v.conn[d] /\ w.budget.held[d] = v.budget.held[d]
At(v, w, c) == Rest(v, w, c) /\ c \in DOMAIN w.conn

(* What Whole says of the parts of the world.                               *)
LEMMA WholeFacts ==
    ASSUME NEW w, Whole(w)
    PROVE  /\ w.conn \in [DOMAIN w.conn -> Conns] /\ DOMAIN w.conn \subseteq Owners
           /\ w.budget \in Budgets /\ Accounted(w.budget)
           /\ w.leases \in [Upstreams -> Nat] /\ w.halted \in BOOLEAN
           /\ w = [conn |-> w.conn, budget |-> w.budget, leases |-> w.leases, halted |-> w.halted]
BY DEF Whole

(* What At says of the connection at hand.                                  *)
LEMMA AtFacts ==
    ASSUME NEW v, NEW w, NEW c, At(v, w, c)
    PROVE  /\ c \in Owners /\ w.conn[c] \in Conns /\ Accounted(w.budget) /\ w.halted \in BOOLEAN
           /\ w.budget.held[c] \in [Slots -> Nat]
<1>1. Whole(w) /\ c \in DOMAIN w.conn
  BY DEF At, Rest
<1>2. w.conn \in [DOMAIN w.conn -> Conns] /\ DOMAIN w.conn \subseteq Owners
      /\ w.budget \in Budgets /\ Accounted(w.budget) /\ w.halted \in BOOLEAN
  BY <1>1, WholeFacts
<1> QED
  BY <1>1, <1>2 DEF Budgets

(* The leases follow a connection that changes its own.                    *)
LEMMA LeaseAt ==
    ASSUME NEW v, NEW w, NEW c, At(v, w, c), NEW y \in Conns, NEW n,
           n \in [conn : [DOMAIN w.conn -> Conns], budget : Budgets,
                  leases : [Upstreams -> Int], halted : BOOLEAN],
           n.conn[c] = y, \A d \in DOMAIN w.conn \ {c} : n.conn[d] = w.conn[d],
           n.budget = w.budget,
           \A u \in Upstreams : n.leases[u] = (w.leases[u] - (IF u = w.conn[c].lease THEN 1 ELSE 0))
                                             + (IF u = y.lease THEN 1 ELSE 0)
    PROVE  At(v, n, c)
<1> DEFINE D == DOMAIN w.conn
           o == w.conn[c].lease
<1>1. /\ Whole(w) /\ c \in D /\ w.conn \in [D -> Conns] /\ w.leases \in [Upstreams -> Nat]
      /\ D \subseteq Owners /\ IsFiniteSet(D) /\ Accounted(w.budget) /\ w.halted \in BOOLEAN
      /\ w.budget \in Budgets
  BY DEF At, Rest, Whole
<1>2. DOMAIN n.conn = D /\ n.conn \in [D -> Conns] /\ n.conn[c] = y
      /\ \A d \in D \ {c} : n.conn[d] = w.conn[d]
  BY <1>1
<1>3. ASSUME NEW u \in Upstreams
      PROVE  n.leases[u] = Cardinality(Holders(n, u)) /\ n.leases[u] \in Nat
  <2> DEFINE H == Holders(w, u)
             G == Holders(n, u)
  <2>1. H \subseteq D /\ IsFiniteSet(H) /\ Cardinality(H) \in Nat
    BY <1>1, FS_Subset, FS_CardinalityType DEF Holders
  <2>2. w.leases[u] = Cardinality(H)
    BY <1>1 DEF Whole
  <2>3. n.leases[u] = (w.leases[u] - (IF u = o THEN 1 ELSE 0)) + (IF u = y.lease THEN 1 ELSE 0)
    OBVIOUS
  <2>4. \A d \in D \ {c} : d \in G <=> d \in H
    BY <1>2 DEF Holders
  <2>5. c \in H <=> u = o
    BY <1>1 DEF Holders
  <2>6. c \in G <=> u = y.lease
    BY <1>1, <1>2 DEF Holders
  <2>7. G \subseteq D
    BY <1>2 DEF Holders
  <2> HIDE DEF H, G
  <2>8. CASE u # o /\ u # y.lease
    <3>0. ASSUME NEW d PROVE d \in G <=> d \in H
      BY <1>1, <2>1, <2>4, <2>5, <2>6, <2>7, <2>8
    <3>1. G = H
      BY <3>0
    <3> QED
      BY <2>1, <2>2, <2>3, <2>8, <3>1 DEF G
  <2>9. CASE u = o /\ u = y.lease
    <3>0. ASSUME NEW d PROVE d \in G <=> d \in H
      BY <1>1, <2>1, <2>4, <2>5, <2>6, <2>7, <2>9
    <3>1. G = H
      BY <3>0
    <3> QED
      BY <2>1, <2>2, <2>3, <2>9, <3>1 DEF G
  <2>10. CASE u = o /\ u # y.lease
    <3>1. G = H \ {c} /\ c \in H
      BY <2>1, <2>4, <2>5, <2>6, <2>7, <2>10
    <3>2. Cardinality(G) = Cardinality(H) - 1 /\ Cardinality(G) \in Nat
      BY <2>1, <3>1, FS_RemoveElement, FS_CardinalityType
    <3> QED
      BY <2>1, <2>2, <2>3, <2>10, <3>2 DEF G
  <2>11. CASE u # o /\ u = y.lease
    <3>1. G = H \cup {c} /\ c \notin H
      BY <1>1, <2>1, <2>4, <2>5, <2>6, <2>7, <2>11
    <3>2. Cardinality(G) = Cardinality(H) + 1
      BY <2>1, <3>1, FS_AddElement
    <3> QED
      BY <2>1, <2>2, <2>3, <2>11, <3>2 DEF G
  <2> QED
    BY <2>8, <2>9, <2>10, <2>11
<1>4. n.leases \in [Upstreams -> Nat]
  BY <1>3
<1>5. Whole(n)
  <2>1. n \in [conn : [DOMAIN n.conn -> Conns], budget : Budgets,
               leases : [Upstreams -> Nat], halted : BOOLEAN]
    BY <1>1, <1>2, <1>4
  <2>2. \A d \in Owners \ DOMAIN n.conn : n.budget.held[d] = EmptySlots
    BY <1>1, <1>2 DEF Whole
  <2> QED
    BY <1>1, <1>2, <1>3, <2>1, <2>2 DEF Whole
<1> QED
  BY <1>1, <1>2, <1>5 DEF At, Rest

(* Everything but the lease of the connection may change at will.          *)
LEMMA PutAt ==
    ASSUME NEW v, NEW w, NEW c, At(v, w, c), NEW y \in Conns, y.lease = w.conn[c].lease
    PROVE  /\ At(v, Put(w, c, y), c) /\ Put(w, c, y).conn[c] = y
           /\ Put(w, c, y).budget = w.budget /\ Put(w, c, y).halted = w.halted
           /\ Put(w, c, y).leases = w.leases
<1> DEFINE n == Put(w, c, y)
<1>0. Whole(w) /\ c \in DOMAIN w.conn
  BY DEF At, Rest
<1>1. /\ w = [conn |-> w.conn, budget |-> w.budget, leases |-> w.leases, halted |-> w.halted]
      /\ w.leases \in [Upstreams -> Nat] /\ w.conn \in [DOMAIN w.conn -> Conns]
      /\ w.budget \in Budgets /\ w.halted \in BOOLEAN
  BY <1>0, WholeFacts
<1>2. n = [conn |-> [w.conn EXCEPT ![c] = y], budget |-> w.budget, leases |-> w.leases,
           halted |-> w.halted]
  BY <1>1 DEF Put
<1>3. w.leases \in [Upstreams -> Int] /\ [w.conn EXCEPT ![c] = y] \in [DOMAIN w.conn -> Conns]
  <2>1. ASSUME NEW f \in [Upstreams -> Nat] PROVE f \in [Upstreams -> Int]
    OBVIOUS
  <2>2. ASSUME NEW D, NEW f \in [D -> Conns] PROVE [f EXCEPT ![c] = y] \in [D -> Conns]
    OBVIOUS
  <2> QED
    BY <1>1, <2>1, <2>2
<1>4. /\ n \in [conn : [DOMAIN w.conn -> Conns], budget : Budgets,
                 leases : [Upstreams -> Int], halted : BOOLEAN]
      /\ n.budget = w.budget /\ n.leases = w.leases /\ n.halted = w.halted
      /\ n.conn = [w.conn EXCEPT ![c] = y]
  BY <1>1, <1>2, <1>3
<1>5. n.conn[c] = y /\ \A d \in DOMAIN w.conn \ {c} : n.conn[d] = w.conn[d]
  BY <1>0, <1>1, <1>4
<1>6. \A u \in Upstreams : n.leases[u] = (w.leases[u] - (IF u = w.conn[c].lease THEN 1 ELSE 0))
                                           + (IF u = y.lease THEN 1 ELSE 0)
  BY <1>1, <1>4
<1> HIDE DEF n
<1>7. At(v, n, c)
  BY <1>4, <1>5, <1>6, LeaseAt
<1> QED
  BY <1>4, <1>5, <1>7 DEF n

(* The budget may change in the slots of the connection at hand.            *)
LEMMA BudgetAt ==
    ASSUME NEW v, NEW w, NEW c, At(v, w, c), NEW B, Accounted(B),
           \A d \in Owners \ {c} : B.held[d] = w.budget.held[d]
    PROVE  /\ At(v, SetBudget(w, B), c) /\ SetBudget(w, B).budget = B
           /\ SetBudget(w, B).conn = w.conn /\ SetBudget(w, B).halted = w.halted
           /\ SetBudget(w, B).leases = w.leases
<1> DEFINE n == SetBudget(w, B)
<1>0. Whole(w) /\ c \in DOMAIN w.conn
  BY DEF At, Rest
<1>1. w = [conn |-> w.conn, budget |-> w.budget, leases |-> w.leases, halted |-> w.halted]
  BY <1>0, WholeFacts
<1>2. /\ n = [conn |-> n.conn, budget |-> n.budget, leases |-> n.leases, halted |-> n.halted]
      /\ n.conn = w.conn /\ n.budget = B /\ n.halted = w.halted /\ n.leases = w.leases
  BY <1>1 DEF SetBudget
<1> HIDE DEF n
<1>3. Whole(n)
  <2>1. B \in Budgets
    BY DEF Accounted
  <2>2. n \in [conn : [DOMAIN n.conn -> Conns], budget : Budgets,
               leases : [Upstreams -> Nat], halted : BOOLEAN]
    BY <1>0, <1>2, <2>1, WholeFacts
  <2>3. \A d \in Owners \ DOMAIN n.conn : n.budget.held[d] = EmptySlots
    BY <1>0, <1>2 DEF Whole
  <2>4. \A u \in Upstreams : Holders(n, u) = Holders(w, u)
    BY <1>2 DEF Holders
  <2> QED
    BY <1>0, <1>2, <2>2, <2>3, <2>4 DEF Whole
<1>4. At(v, n, c)
  <2>1. DOMAIN w.conn \subseteq Owners
    BY <1>0, WholeFacts
  <2> QED
    BY <1>0, <1>2, <1>3, <2>1 DEF At, Rest
<1> QED
  BY <1>2, <1>4 DEF n

(* An error that ends the loop leaves the connections and the budget.       *)
LEMMA HaltAt ==
    ASSUME NEW v, NEW w, NEW c, At(v, w, c)
    PROVE  At(v, Halt(w), c) /\ Halt(w).halted /\ Halt(w).conn = w.conn /\ Halt(w).budget = w.budget
<1> DEFINE n == Halt(w)
<1>0. Whole(w) /\ c \in DOMAIN w.conn
  BY DEF At, Rest
<1>1. w = [conn |-> w.conn, budget |-> w.budget, leases |-> w.leases, halted |-> w.halted]
  BY <1>0, WholeFacts
<1>2. /\ n = [conn |-> n.conn, budget |-> n.budget, leases |-> n.leases, halted |-> n.halted]
      /\ n.conn = w.conn /\ n.budget = w.budget /\ n.halted = TRUE /\ n.leases = w.leases
  <2>1. n = [conn |-> w.conn, budget |-> w.budget, leases |-> w.leases, halted |-> TRUE]
    <3>1. ASSUME NEW b
          PROVE  [w EXCEPT !.halted = b] =
                 [conn |-> w.conn, budget |-> w.budget, leases |-> w.leases, halted |-> b]
      BY <1>1
    <3> QED
      BY <3>1, Zenon DEF Halt
  <2> HIDE DEF n
  <2> QED
    BY <2>1
<1> HIDE DEF n
<1>3. Whole(n)
  <2>1. \A u \in Upstreams : Holders(n, u) = Holders(w, u)
    BY <1>2 DEF Holders
  <2>2. n \in [conn : [DOMAIN n.conn -> Conns], budget : Budgets,
               leases : [Upstreams -> Nat], halted : BOOLEAN]
    BY <1>0, <1>2, WholeFacts
  <2> QED
    BY <1>0, <1>2, <2>1, <2>2 DEF Whole
<1>4. At(v, n, c)
  BY <1>0, <1>2, <1>3 DEF At, Rest
<1> QED
  BY <1>2, <1>4 DEF n

(* Giving a drain reference back.                                          *)
LEMMA ReleaseFacts ==
    ASSUME NEW w, Whole(w), NEW o \in Peers
    PROVE  /\ ReleaseLease(w, o) = [conn |-> w.conn, budget |-> w.budget,
                                    leases |-> ReleaseLease(w, o).leases, halted |-> w.halted]
           /\ ReleaseLease(w, o).leases \in [Upstreams -> Int]
           /\ \A u \in Upstreams :
                 ReleaseLease(w, o).leases[u] = w.leases[u] - (IF u = o THEN 1 ELSE 0)
<1>1. /\ w = [conn |-> w.conn, budget |-> w.budget, leases |-> w.leases, halted |-> w.halted]
      /\ w.leases \in [Upstreams -> Nat]
  BY WholeFacts
<1>2. CASE o = NoUpstream
  <2>1. ReleaseLease(w, o) = w /\ o \notin Upstreams
    BY <1>2, RuntimeAssumption DEF ReleaseLease
  <2>2. \A u \in Upstreams : w.leases[u] \in Nat
    BY <1>1
  <2>3. w.leases \in [Upstreams -> Int]
    <3>1. ASSUME NEW f \in [Upstreams -> Nat] PROVE f \in [Upstreams -> Int]
      OBVIOUS
    <3> QED
      BY <1>1, <3>1
  <2> QED
    BY <1>1, <2>1, <2>2, <2>3
<1>3. CASE o # NoUpstream
  <2>1. o \in Upstreams
    BY <1>3 DEF Peers
  <2> DEFINE L == [w.leases EXCEPT ![o] = @ - 1]
  <2>2. ReleaseLease(w, o) = [conn |-> w.conn, budget |-> w.budget, leases |-> L, halted |-> w.halted]
    BY <1>1, <1>3 DEF ReleaseLease
  <2>3. L \in [Upstreams -> Int] /\ \A u \in Upstreams : L[u] = w.leases[u] - (IF u = o THEN 1 ELSE 0)
    <3>1. \A u \in Upstreams : w.leases[u] \in Nat
      BY <1>1
    <3> QED
      BY <1>1, <2>1, <3>1
  <2> HIDE DEF L
  <2>4. ReleaseLease(w, o).leases = L
    BY <2>2
  <2> QED
    BY <2>2, <2>3, <2>4
<1> QED
  BY <1>2, <1>3

(* Whatever was charged or leased for a connection goes with it.           *)
LEMMA RemoveRest ==
    ASSUME NEW v, NEW w, NEW c, At(v, w, c)
    PROVE  /\ Rest(v, RemoveConnection(w, c), c) /\ c \notin DOMAIN RemoveConnection(w, c).conn
           /\ DOMAIN RemoveConnection(w, c).conn = DOMAIN w.conn \ {c}
           /\ RemoveConnection(w, c).halted = w.halted
<1> DEFINE D == DOMAIN w.conn
           E == D \ {c}
           o == w.conn[c].lease
           r == ReleaseLease(w, o)
           B == BudgetDropAll(w.budget, c)
           f == Restrict(w.conn, E)
           n == RemoveConnection(w, c)
<1>1. /\ Whole(w) /\ c \in D /\ w.conn \in [D -> Conns] /\ D \subseteq Owners /\ IsFiniteSet(D)
      /\ Accounted(w.budget) /\ w.halted \in BOOLEAN /\ w.leases \in [Upstreams -> Nat]
  BY DEF At, Rest, Whole
<1>2. o \in Peers
  BY <1>1 DEF Conns
<1>3. /\ r = [conn |-> w.conn, budget |-> w.budget, leases |-> r.leases, halted |-> w.halted]
      /\ r.leases \in [Upstreams -> Int]
      /\ \A u \in Upstreams : r.leases[u] = w.leases[u] - (IF u = o THEN 1 ELSE 0)
  BY <1>1, <1>2, ReleaseFacts
<1>4. /\ Accounted(B) /\ B.held[c] = EmptySlots
      /\ \A d \in Owners \ {c} : B.held[d] = w.budget.held[d]
  BY <1>1, DropAllAccounted
<1>5. f \in [E -> Conns] /\ \A d \in E : f[d] = w.conn[d]
  BY <1>1 DEF Restrict
<1>6. n = [r EXCEPT !.budget = B, !.conn = f]
  BY <1>1 DEF RemoveConnection, Live
<1> HIDE DEF r, B, f
<1>7. n = [conn |-> f, budget |-> B, leases |-> r.leases, halted |-> w.halted]
  <2> DEFINE L == r.leases
  <2>1. r = [conn |-> w.conn, budget |-> w.budget, leases |-> L, halted |-> w.halted]
    BY <1>3
  <2> HIDE DEF L, n
  <2>2. n = [conn |-> f, budget |-> B, leases |-> L, halted |-> w.halted]
    BY <1>6, <2>1
  <2> QED
    BY <2>2 DEF L
<1> HIDE DEF n
<1>8. n.conn = f /\ n.budget = B /\ n.leases = r.leases /\ n.halted = w.halted /\ DOMAIN n.conn = E
  BY <1>5, <1>7
<1>9. ASSUME NEW u \in Upstreams
      PROVE  n.leases[u] = Cardinality(Holders(n, u)) /\ n.leases[u] \in Nat
  <2> DEFINE H == Holders(w, u)
             G == Holders(n, u)
  <2>1. H \subseteq D /\ IsFiniteSet(H) /\ Cardinality(H) \in Nat
    BY <1>1, FS_Subset, FS_CardinalityType DEF Holders
  <2>2. w.leases[u] = Cardinality(H)
    BY <1>1 DEF Whole
  <2>3. n.leases[u] = w.leases[u] - (IF u = o THEN 1 ELSE 0)
    BY <1>3, <1>8
  <2>4. G = H \ {c}
    <3>1. ASSUME NEW d PROVE d \in G <=> d \in H \ {c}
      BY <1>5, <1>8 DEF Holders
    <3> QED
      BY <3>1
  <2>5. c \in H <=> u = o
    BY <1>1 DEF Holders
  <2> HIDE DEF H, G
  <2>6. CASE u = o
    <3>1. Cardinality(G) = Cardinality(H) - 1 /\ Cardinality(G) \in Nat
      BY <2>1, <2>4, <2>5, <2>6, FS_RemoveElement, FS_CardinalityType
    <3> QED
      BY <2>1, <2>2, <2>3, <2>6, <3>1 DEF G
  <2>7. CASE u # o
    <3>1. G = H
      BY <2>4, <2>5, <2>7
    <3> QED
      BY <2>1, <2>2, <2>3, <2>7, <3>1 DEF G
  <2> QED
    BY <2>6, <2>7
<1>10. Whole(n)
  <2>1. n.leases \in [Upstreams -> Nat]
    BY <1>3, <1>8, <1>9
  <2>2. B \in Budgets
    BY <1>4 DEF Accounted
  <2>3. n \in [conn : [DOMAIN n.conn -> Conns], budget : Budgets,
               leases : [Upstreams -> Nat], halted : BOOLEAN]
    BY <1>1, <1>5, <1>7, <1>8, <2>1, <2>2
  <2>4. IsFiniteSet(E) /\ E \subseteq Owners
    BY <1>1, FS_RemoveElement
  <2>5. \A d \in Owners \ E : B.held[d] = EmptySlots
    BY <1>1, <1>4 DEF Whole
  <2> QED
    BY <1>4, <1>8, <1>9, <2>3, <2>4, <2>5 DEF Whole
<1>11. \A d \in E : d \in DOMAIN v.conn /\ n.conn[d] = v.conn[d] /\ n.budget.held[d] = v.budget.held[d]
  <2>1. \A d \in E : d \in DOMAIN v.conn /\ w.conn[d] = v.conn[d] /\ w.budget.held[d] = v.budget.held[d]
    BY DEF At, Rest
  <2> QED
    BY <1>1, <1>4, <1>5, <1>8, <2>1
<1>12. Rest(v, n, c)
  BY <1>8, <1>10, <1>11 DEF Rest
<1> QED
  BY <1>8, <1>12 DEF n

-----------------------------------------------------------------------------
(* One connection: the changes that leave it fit.                          *)

(* An upstream socket that is kept for the next request.                   *)
Kept(x) == x.up # NoUpstream /\ ~InUpstream(x)

(* A connection stays Fit when the upstream socket is dropped, an interest  *)
(* is given up or it is marked to be closed.                                *)
LEMMA FitLike ==
    ASSUME NEW x, NEW h, Fit(x, h), NEW y \in Conns, NEW g, g["response"] = h["response"],
           y.io = x.io, y.out = x.out, y.batch = x.batch, x.closeAfter => y.closeAfter,
           y.lease = x.lease, y.attempted = x.attempted, y.used = x.used, y.sent = x.sent,
           (y.up = x.up /\ y.reuse = x.reuse) \/ y.up = NoUpstream,
           y.upReg = {} \/ (y.up # NoUpstream /\ InUpstream(x)),
           y.clReg = {} \/ x.io.state # "Failed"
    PROVE  Fit(y, g)
<1>1. Sound(y.io) /\ Handed(y)
  BY DEF Fit, Handed
<1>2. InUpstream(y) = InUpstream(x) /\ Readable(y) = Readable(x) /\ Cut(y) = Cut(x)
      /\ Unanswered(y) = Unanswered(x)
  BY DEF InUpstream, Readable, Cut, Unanswered
<1>3. Led(y)
  BY <1>2 DEF Fit, Led
<1>4. Owned(y, g)
  BY <1>2 DEF Fit, Owned, Quiet
<1> QED
  BY <1>1, <1>3, <1>4 DEF Fit

(* What the small operators change.                                        *)
LEMMA GiveUpFacts ==
    ASSUME NEW x \in Conns
    PROVE  /\ GiveUp(x) \in Conns /\ GiveUp(x).io = x.io /\ GiveUp(x).out = x.out
           /\ GiveUp(x).batch = x.batch /\ GiveUp(x).up = x.up /\ GiveUp(x).upReg = x.upReg
           /\ GiveUp(x).clReg = x.clReg /\ GiveUp(x).reuse = x.reuse /\ GiveUp(x).lease = x.lease
           /\ GiveUp(x).attempted = x.attempted /\ GiveUp(x).used = x.used
           /\ GiveUp(x).sent = x.sent /\ GiveUp(x).closeAfter
BY DEF GiveUp, Conns

(* The deadline is set again and nothing else changes.                      *)
LEMMA RefreshFacts ==
    ASSUME NEW x \in Conns
    PROVE  /\ Refresh(x) \in Conns /\ Refresh(x).io = x.io /\ Refresh(x).out = x.out
           /\ Refresh(x).batch = x.batch /\ Refresh(x).up = x.up /\ Refresh(x).upReg = x.upReg
           /\ Refresh(x).clReg = x.clReg /\ Refresh(x).reuse = x.reuse /\ Refresh(x).lease = x.lease
           /\ Refresh(x).attempted = x.attempted /\ Refresh(x).used = x.used
           /\ Refresh(x).sent = x.sent /\ Refresh(x).closeAfter = x.closeAfter
           /\ Refresh(x).deadline = (TimeoutKind(x.io.state) # "None")
BY DEF Refresh, Conns

(* A connection marked to be closed needs no deadline.                      *)
LEMMA GiveUpGood ==
    ASSUME NEW x, NEW h, Fit(x, h), NEW g, g["response"] = h["response"]
    PROVE  Good(GiveUp(x), g) /\ GiveUp(x) \in Conns /\ GiveUp(x).lease = x.lease
           /\ GiveUp(x).up = x.up /\ GiveUp(x).io = x.io
<1> DEFINE y == GiveUp(x)
<1>1. x \in Conns
  BY DEF Fit
<1>2. /\ y \in Conns /\ y.io = x.io /\ y.out = x.out
      /\ y.batch = x.batch /\ y.up = x.up /\ y.upReg = x.upReg
      /\ y.clReg = x.clReg /\ y.reuse = x.reuse /\ y.lease = x.lease
      /\ y.attempted = x.attempted /\ y.used = x.used
      /\ y.sent = x.sent /\ y.closeAfter
  BY <1>1, GiveUpFacts
<1> HIDE DEF y
<1>3. /\ y.upReg = {} \/ (y.up # NoUpstream /\ InUpstream(x))
      /\ y.clReg = {} \/ x.io.state # "Failed"
  BY <1>2 DEF Fit, Led, Owned
<1>4. Fit(y, g)
  BY <1>2, <1>3, FitLike
<1> QED
  BY <1>2, <1>4 DEF y, Good, Armed

(* A connection in a state with a timeout, or being closed, is good once   *)
(* its deadline was refreshed.                                             *)
LEMMA RefreshGood ==
    ASSUME NEW x, NEW h, Fit(x, h), NEW g, g["response"] = h["response"],
           x.closeAfter \/ TimeoutKind(x.io.state) # "None"
    PROVE  Good(Refresh(x), g) /\ Refresh(x) \in Conns /\ Refresh(x).lease = x.lease
           /\ Refresh(x).up = x.up /\ Refresh(x).io = x.io
<1> DEFINE y == Refresh(x)
<1>1. x \in Conns
  BY DEF Fit
<1>2. /\ y \in Conns /\ y.io = x.io /\ y.out = x.out
      /\ y.batch = x.batch /\ y.up = x.up /\ y.upReg = x.upReg
      /\ y.clReg = x.clReg /\ y.reuse = x.reuse /\ y.lease = x.lease
      /\ y.attempted = x.attempted /\ y.used = x.used
      /\ y.sent = x.sent /\ y.closeAfter = x.closeAfter
      /\ y.deadline = (TimeoutKind(x.io.state) # "None")
  BY <1>1, RefreshFacts
<1> HIDE DEF y
<1>3. /\ y.upReg = {} \/ (y.up # NoUpstream /\ InUpstream(x))
      /\ y.clReg = {} \/ x.io.state # "Failed"
  BY <1>2 DEF Fit, Led, Owned
<1>4. Fit(y, g)
  BY <1>2, <1>3, FitLike
<1>5. Armed(y)
  BY <1>2 DEF Armed
<1> QED
  BY <1>2, <1>4, <1>5 DEF y, Good

(* What a handler of c leaves: an error, or a world in which c is gone or  *)
(* good.  kept says whether its upstream socket may be left unused.        *)
Done(v, w, c, kept) ==
    /\ Rest(v, w, c)
    /\ \/ w.halted
       \/ c \in DOMAIN w.conn =>
             Good(w.conn[c], w.budget.held[c]) /\ (Kept(w.conn[c]) => kept)

(* A handler that ends with a connection in order is done.                  *)
LEMMA PutDone ==
    ASSUME NEW v, NEW w, NEW c, At(v, w, c), NEW y, Good(y, w.budget.held[c]),
           y.lease = w.conn[c].lease, NEW kept, Kept(y) => kept
    PROVE  Done(v, Put(w, c, y), c, kept)
<1>1. y \in Conns
  BY DEF Good, Fit
<1> DEFINE n == Put(w, c, y)
<1>2. At(v, n, c) /\ n.conn[c] = y /\ n.budget = w.budget
  BY <1>1, PutAt
<1> HIDE DEF n
<1>3. Done(v, n, c, kept)
  BY <1>2 DEF Done, At
<1> QED
  BY <1>3 DEF n

(* A handler that ends by removing the connection is done.                  *)
LEMMA RemoveDone ==
    ASSUME NEW v, NEW w, NEW c, At(v, w, c), NEW kept
    PROVE  Done(v, RemoveConnection(w, c), c, kept)
BY RemoveRest DEF Done

(* A handler that ends with an error is done.                               *)
LEMMA HaltDone ==
    ASSUME NEW v, NEW w, NEW c, At(v, w, c), NEW kept
    PROVE  Done(v, Halt(w), c, kept)
BY HaltAt DEF Done, At

(* drop_upstream *)
LEMMA DropAt ==
    ASSUME NEW v, NEW w, NEW c, At(v, w, c), Fit(w.conn[c], w.budget.held[c])
    PROVE  /\ At(v, DropUpstream(w, c), c)
           /\ DropUpstream(w, c).budget = w.budget /\ DropUpstream(w, c).halted = w.halted
           /\ DropUpstream(w, c).conn[c].up = NoUpstream /\ DropUpstream(w, c).conn[c].upReg = {}
           /\ DropUpstream(w, c).conn[c].io = w.conn[c].io
           /\ DropUpstream(w, c).conn[c].lease = w.conn[c].lease
           /\ DropUpstream(w, c).conn[c].attempted = w.conn[c].attempted
           /\ DropUpstream(w, c).conn[c].used = w.conn[c].used
           /\ DropUpstream(w, c).conn[c].sent = w.conn[c].sent
           /\ DropUpstream(w, c).conn[c].closeAfter = w.conn[c].closeAfter
           /\ Fit(DropUpstream(w, c).conn[c], DropUpstream(w, c).budget.held[c])
<1> DEFINE x == w.conn[c]
           y == [x EXCEPT !.up = NoUpstream, !.upReg = {}, !.reuse = NoUpstream]
           n == DropUpstream(w, c)
<1>1. x \in Conns
  BY DEF Fit
<1>2. /\ y \in Conns /\ y.io = x.io /\ y.out = x.out
      /\ y.batch = x.batch /\ y.up = NoUpstream /\ y.upReg = {}
      /\ y.clReg = x.clReg /\ y.lease = x.lease
      /\ y.attempted = x.attempted /\ y.used = x.used
      /\ y.sent = x.sent /\ y.closeAfter = x.closeAfter
  <2> HIDE DEF x
  <2> QED
    BY <1>1 DEF Conns, Peers
<1>3. n = Put(w, c, y)
  BY DEF DropUpstream
<1> HIDE DEF y, n
<1>4. At(v, n, c) /\ n.conn[c] = y /\ n.budget = w.budget /\ n.halted = w.halted
  BY <1>2, <1>3, PutAt
<1>5. y.clReg = {} \/ x.io.state # "Failed"
  BY <1>2 DEF Fit, Owned
<1>6. Fit(y, w.budget.held[c])
  BY <1>2, <1>5, FitLike
<1> QED
  BY <1>2, <1>4, <1>6 DEF n

(* registry.reregister of the client's socket                              *)
LEMMA ReregisterDone ==
    ASSUME NEW v, NEW w, NEW c, At(v, w, c), Good(w.conn[c], w.budget.held[c]),
           NEW i \in SUBSET {"r", "w"}, NEW kept, Kept(w.conn[c]) => kept
    PROVE  Done(v, Reregister(w, c, i), c, kept) /\ At(v, Reregister(w, c, i), c)
<1> DEFINE x == w.conn[c]
           y == [x EXCEPT !.clReg = i]
           n == Reregister(w, c, i)
<1>1. CASE x.clReg = {}
  <2>1. n = Halt(w)
    BY <1>1 DEF Reregister
  <2> QED
    BY <2>1, HaltDone, HaltAt
<1>2. CASE x.clReg # {}
  <2>0. x \in Conns /\ Fit(x, w.budget.held[c]) /\ x.io.state # "Failed"
    BY <1>2 DEF Good, Fit, Owned
  <2>1. n = Put(w, c, y)
    BY <1>2 DEF Reregister, Put
  <2>2. /\ y \in Conns /\ y.io = x.io /\ y.out = x.out
        /\ y.batch = x.batch /\ y.up = x.up /\ y.upReg = x.upReg /\ y.reuse = x.reuse
        /\ y.lease = x.lease /\ y.attempted = x.attempted /\ y.used = x.used
        /\ y.sent = x.sent /\ y.closeAfter = x.closeAfter /\ y.deadline = x.deadline
    <3> HIDE DEF x
    <3> QED
      BY <2>0 DEF Conns
  <2> HIDE DEF y, n
  <2>3. y.upReg = {} \/ (y.up # NoUpstream /\ InUpstream(x))
    BY <2>0, <2>2 DEF Fit, Led
  <2>4. Fit(y, w.budget.held[c])
    BY <2>0, <2>2, <2>3, FitLike
  <2>5. Armed(y) /\ (Kept(y) => kept)
    BY <2>2 DEF Good, Armed, Kept, InUpstream
  <2>6. Good(y, w.budget.held[c])
    BY <2>4, <2>5 DEF Good
  <2>7. Done(v, n, c, kept) /\ At(v, n, c)
    BY <2>1, <2>2, <2>5, <2>6, PutDone, PutAt
  <2> QED
    BY <2>7 DEF n
<1> QED
  BY <1>1, <1>2

(* queue_client_response of the connection's io *)
LEMMA QueueResponseFacts ==
    ASSUME NEW z, Sound(z)
    PROVE  /\ QueueResponse(z, 1).ok \in BOOLEAN
           /\ Sound(QueueResponse(z, 1).io)
           /\ QueueResponse(z, 1).ok => /\ QueueResponse(z, 1).io.state = "WritingClientResponse"
                                        /\ QueueResponse(z, 1).io.clientWrite = 1
                                        /\ QueueResponse(z, 1).io.attempt = z.attempt
<1>1. Sound(QueueResponse(z, 1).io)
  BY RespondSound
<1>2. z \in IoRecords /\ "WritingClientResponse" \in ConnectionStates
  BY DEF Sound, ConnectionStates
<1> DEFINE a == [z EXCEPT !.clientWrite = 1]
           b == [a EXCEPT !.state = "WritingClientResponse"]
<1>3. a \in IoRecords /\ a.clientWrite = 1 /\ a.attempt = z.attempt /\ a.state = z.state
  BY <1>2 DEF IoRecords
<1>4. QueueResponse(z, 1) = IF CanTransitionTo(z.state, "WritingClientResponse")
                            THEN Okay(b) ELSE Refuse(z)
  BY <1>3 DEF QueueResponse, TransitionTo
<1> HIDE DEF a
<1>5. b.state = "WritingClientResponse" /\ b.clientWrite = 1 /\ b.attempt = z.attempt
  BY <1>2, <1>3 DEF IoRecords
<1> DEFINE r == QueueResponse(z, 1)
<1> HIDE DEF b, r
<1>6. r = IF CanTransitionTo(z.state, "WritingClientResponse")
          THEN [ok |-> TRUE, io |-> b] ELSE [ok |-> FALSE, io |-> z]
  BY <1>4 DEF r, Okay, Refuse
<1>7. r.ok \in BOOLEAN /\ (r.ok => r.io = b)
  BY <1>6
<1> QED
  BY <1>1, <1>5, <1>7 DEF r

(* A response made here: the connection ends up writing it, or is given    *)
(* up.  What was taken of another response, if anything, is cut off.       *)
LEMMA QueueDone ==
    ASSUME NEW v, NEW w, NEW c, At(v, w, c), Fit(w.conn[c], w.budget.held[c]),
           w.conn[c].upReg = {}, Quiet(w.conn[c], w.budget.held[c]) \/ Cut(w.conn[c]),
           NEW kept, w.conn[c].up # NoUpstream => kept
    PROVE  Done(v, QueueClientResponse(w, c), c, kept) /\ At(v, QueueClientResponse(w, c), c)
<1> DEFINE x == w.conn[c]
           h == w.budget.held[c]
           z == [x EXCEPT !.closeClient = TRUE]
           P == BudgetSetResponse(w.budget, c, 1, TRUE)
           F == BudgetSetResponse(w.budget, c, 1, FALSE)
           Q == QueueResponse(x.io, 1)
           n == QueueClientResponse(w, c)
<1>1. c \in DOMAIN w.conn /\ c \in Owners /\ x \in Conns /\ Accounted(w.budget) /\ Sound(x.io)
  BY AtFacts DEF At, Fit
<1>2. /\ z \in Conns /\ z.io = x.io /\ z.out = x.out
      /\ z.batch = x.batch /\ z.up = x.up /\ z.upReg = x.upReg /\ z.clReg = x.clReg
      /\ z.reuse = x.reuse /\ z.lease = x.lease /\ z.attempted = x.attempted /\ z.used = x.used
      /\ z.sent = x.sent /\ z.closeAfter = x.closeAfter /\ z.deadline = x.deadline
  <2> HIDE DEF x
  <2> QED
    BY <1>1 DEF Conns
<1>3. OneSlot(w.budget, P, c, "response", 1)
  BY <1>1, SetResponseCharged
<1>4. OneSlot(w.budget, F, c, "response", 1) /\ ~F.ok
  BY <1>1, SetResponseCharged
<1>5. n = Enqueue(w, c, z, P, Q)
  BY <1>1 DEF QueueClientResponse, Live
<1>6. /\ Q.ok \in BOOLEAN /\ Sound(Q.io)
      /\ Q.ok => Q.io.state = "WritingClientResponse" /\ Q.io.clientWrite = 1
                 /\ Q.io.attempt = x.io.attempt
  BY <1>1, QueueResponseFacts
<1>7. Fit(z, h)
  <2>1. z.clReg = {} \/ x.io.state # "Failed"
    BY <1>2 DEF Fit, Owned
  <2> HIDE DEF x, z
  <2> QED
    BY <1>2, <2>1, FitLike DEF x
<1> HIDE DEF z, P, F, Q, n
<1>8. CASE ~P.ok
  <2> DEFINE m == SetBudget(w, P.budget)
             y == [GiveUp(z) EXCEPT !.clReg = {}]
  <2>1. At(v, m, c) /\ m.budget = P.budget /\ m.conn[c] = x /\ m.budget.held[c]["response"] = h["response"]
    BY <1>1, <1>3, <1>8, BudgetAt DEF OneSlot, Charged
  <2>2. n = Put(m, c, y)
    BY <1>5, <1>8 DEF Enqueue
  <2> HIDE DEF m
  <2>3. /\ GiveUp(z) \in Conns /\ GiveUp(z).io = z.io /\ GiveUp(z).out = z.out
        /\ GiveUp(z).batch = z.batch /\ GiveUp(z).up = z.up /\ GiveUp(z).upReg = z.upReg
        /\ GiveUp(z).reuse = z.reuse /\ GiveUp(z).lease = z.lease
        /\ GiveUp(z).attempted = z.attempted /\ GiveUp(z).used = z.used
        /\ GiveUp(z).sent = z.sent /\ GiveUp(z).closeAfter
    BY <1>2, GiveUpFacts
  <2>4. /\ y \in Conns /\ y.io = z.io /\ y.out = z.out
        /\ y.batch = z.batch /\ y.up = z.up /\ y.upReg = z.upReg /\ y.clReg = {}
        /\ y.reuse = z.reuse /\ y.lease = z.lease /\ y.attempted = z.attempted /\ y.used = z.used
        /\ y.sent = z.sent /\ y.closeAfter
    BY <2>3 DEF Conns
  <2> HIDE DEF y
  <2>5. Fit(y, m.budget.held[c])
    BY <1>2, <1>7, <2>1, <2>4, FitLike
  <2>6. Good(y, m.budget.held[c]) /\ (Kept(y) => kept) /\ y.lease = m.conn[c].lease
    BY <1>2, <2>1, <2>4, <2>5 DEF Good, Armed, Kept
  <2>7. Done(v, n, c, kept) /\ At(v, n, c)
    BY <2>1, <2>2, <2>4, <2>6, PutDone, PutAt
  <2> QED
    BY <2>7 DEF n
<1>9. CASE P.ok /\ ~Q.ok
  <2> DEFINE m == SetBudget(w, F.budget)
             y == GiveUp(z)
  <2>1. At(v, m, c) /\ m.budget = F.budget /\ m.conn[c] = x /\ m.budget.held[c]["response"] = h["response"]
    BY <1>1, <1>4, BudgetAt DEF OneSlot, Charged
  <2>2. n = Put(m, c, y)
    BY <1>5, <1>9 DEF Enqueue, F
  <2> HIDE DEF m
  <2>3. Good(y, m.budget.held[c]) /\ y \in Conns /\ y.lease = z.lease /\ y.up = z.up
    BY <1>7, <2>1, GiveUpGood
  <2> HIDE DEF y
  <2>4. (Kept(y) => kept) /\ y.lease = m.conn[c].lease
    BY <1>2, <2>1, <2>3 DEF Kept
  <2>5. Done(v, n, c, kept) /\ At(v, n, c)
    BY <2>1, <2>2, <2>3, <2>4, PutDone, PutAt
  <2> QED
    BY <2>5 DEF n
<1>10. CASE P.ok /\ Q.ok
  <2> DEFINE m == SetBudget(w, P.budget)
             q == [z EXCEPT !.io = Q.io]
             y == Refresh(q)
             p == Put(m, c, y)
  <2>1. At(v, m, c) /\ m.budget = P.budget /\ m.conn[c] = x /\ m.budget.held[c]["response"] = 1
    BY <1>1, <1>3, <1>10, BudgetAt DEF OneSlot, Charged
  <2>2. n = Reregister(p, c, {"w"})
    BY <1>5, <1>10 DEF Enqueue
  <2> HIDE DEF m
  <2>3. /\ q \in Conns /\ q.io = Q.io /\ q.out = z.out
        /\ q.batch = z.batch /\ q.up = z.up /\ q.upReg = z.upReg /\ q.clReg = z.clReg
        /\ q.reuse = z.reuse /\ q.lease = z.lease /\ q.attempted = z.attempted /\ q.used = z.used
        /\ q.sent = z.sent /\ q.closeAfter = z.closeAfter
    <3>1. Q.io \in IoRecords
      BY <1>6 DEF Sound
    <3> QED
      BY <1>2, <3>1 DEF Conns
  <2> HIDE DEF q
  <2>4. Fit(q, m.budget.held[c])
    <3>1. ~InUpstream(q) /\ ~Readable(q) /\ ~Unanswered(q) /\ (Cut(q) = Cut(x))
      BY <1>6, <1>10, <2>3 DEF InUpstream, Readable, Unanswered, Cut
    <3>2. Led(q) /\ Handed(q)
      BY <1>2, <1>6, <1>10, <2>3, <3>1 DEF Led, Handed, Fit
    <3>3. Owned(q, m.budget.held[c])
      BY <1>1, <1>2, <1>6, <1>10, <2>1, <2>3, <3>1 DEF Owned, Fit, Quiet
    <3> QED
      BY <1>6, <2>3, <3>2, <3>3 DEF Fit
  <2>5. Good(y, m.budget.held[c]) /\ y \in Conns /\ y.lease = q.lease /\ y.up = q.up /\ y.io = q.io
    <3>1. TimeoutKind(q.io.state) # "None"
      BY <1>6, <1>10, <2>3 DEF TimeoutKind
    <3> QED
      BY <2>4, <3>1, RefreshGood
  <2> HIDE DEF y
  <2>6. At(v, p, c) /\ p.conn[c] = y /\ p.budget = m.budget
    BY <1>2, <2>1, <2>3, <2>5, PutAt
  <2> HIDE DEF p
  <2>7. Kept(p.conn[c]) => kept
    BY <1>2, <2>3, <2>5, <2>6 DEF Kept
  <2>8. Done(v, n, c, kept) /\ At(v, n, c)
    BY <2>2, <2>5, <2>6, <2>7, ReregisterDone
  <2> QED
    BY <2>8 DEF n
<1> QED
  BY <1>6, <1>8, <1>9, <1>10

-----------------------------------------------------------------------------
(* What the operations on the io of a connection do where the loop calls   *)
(* them.                                                                   *)

(* An event that is valid is accepted.                                     *)
LEMMA EventAccepted ==
    ASSUME NEW z \in IoRecords, NEW e, NEW t \in ConnectionStates,
           EventTarget(z.state, e) = t, CanTransitionTo(z.state, t)
    PROVE  /\ HandleEvent(z, e).ok /\ HandleEvent(z, e).io.state = t
           /\ SameButState(z, HandleEvent(z, e).io)
<1>1. t # ""
  BY DEF ConnectionStates
<1> DEFINE y == [z EXCEPT !.state = t]
<1>2. HandleEvent(z, e) = [ok |-> TRUE, io |-> y]
  BY <1>1 DEF HandleEvent, TransitionTo, Okay
<1>3. y.state = t /\ SameButState(z, y)
  BY DEF IoRecords, SameButState
<1> HIDE DEF y
<1> QED
  BY <1>2, <1>3

(* A failed attempt keeps its progress and has an end.                      *)
LEMMA FailFacts ==
    ASSUME NEW z, Sound(z), z.state \in UpstreamStates, NEW f \in Failures
    PROVE  /\ Sound(FailUpstreamAttempt(z, f).io)
           /\ FailUpstreamAttempt(z, f).io.state = z.state
           /\ FailUpstreamAttempt(z, f).io.clientWrite = z.clientWrite
           /\ FailUpstreamAttempt(z, f).io.attempt.started = z.attempt.started
           /\ FailUpstreamAttempt(z, f).io.attempt.written = z.attempt.written
           /\ FailUpstreamAttempt(z, f).io.attempt.terminal # "None"
           /\ z.attempt.terminal # "Succeeded" =>
                  FailUpstreamAttempt(z, f).io.attempt.terminal # "Succeeded"
<1> DEFINE a == Settle(z.attempt, f)
           y == [z EXCEPT !.attempt = a]
           r == FailUpstreamAttempt(z, f)
<1>0. z \in IoRecords /\ z.attempt \in Attempts
  BY DEF Sound, IoRecords
<1>1. /\ a \in Attempts /\ a.written = z.attempt.written /\ a.started = z.attempt.started
      /\ a.terminal = f
  BY <1>0, SettleFacts
<1>2. Sound(r.io)
  BY FailSound
<1>3. r.io = IF z.attempt.phase = "Terminal" THEN z ELSE y
  BY DEF FailUpstreamAttempt, WithAttempt, Okay, Refuse
<1>4. f # "None" /\ f # "Succeeded"
  BY DEF Failures
<1> HIDE DEF a, r
<1>5. y.attempt = a /\ y.state = z.state /\ y.clientWrite = z.clientWrite
  BY <1>0, <1>1, AttemptChanged
<1> HIDE DEF y
<1>6. z.attempt.phase = "Terminal" => z.attempt.terminal # "None"
  BY DEF Sound
<1> QED
  BY <1>1, <1>2, <1>3, <1>4, <1>5, <1>6 DEF r

(* A new attempt has handed nothing to anyone.                              *)
LEMMA BeginFacts ==
    ASSUME NEW z, Sound(z), z.state = "SelectingRoute"
    PROVE  /\ Sound(BeginUpstreamConnect(z).io) /\ BeginUpstreamConnect(z).ok
           /\ BeginUpstreamConnect(z).io.state = "ConnectingUpstream"
           /\ BeginUpstreamConnect(z).io.clientWrite = z.clientWrite
           /\ ~BeginUpstreamConnect(z).io.attempt.started
           /\ BeginUpstreamConnect(z).io.attempt.written = 0
           /\ BeginUpstreamConnect(z).io.attempt.terminal = "None"
<1> DEFINE g == HandleEvent(z, "RouteProxy")
           a == AtPhase(g.io.attempt, "Writing")
           y == [g.io EXCEPT !.attempt = a]
           r == BeginUpstreamConnect(z)
<1>0. z \in IoRecords /\ z.attempt = FreshAttempt
  BY DEF Sound, Coherent
<1>1. Sound(r.io)
  BY ConnectSound
<1>2. /\ g.ok /\ g.io.state = "ConnectingUpstream" /\ SameButState(z, g.io)
  <2>1. EventTarget(z.state, "RouteProxy") = "ConnectingUpstream"
    BY EventTable
  <2>2. CanTransitionTo(z.state, "ConnectingUpstream") /\ "ConnectingUpstream" \in ConnectionStates
    BY DEF CanTransitionTo, ConnectionStates
  <2> QED
    BY <1>0, <2>1, <2>2, EventAccepted
<1>3. r = IF g.io.attempt.phase # "NotStarted" THEN [ok |-> FALSE, io |-> g.io]
          ELSE [ok |-> TRUE, io |-> y]
  BY <1>2 DEF BeginUpstreamConnect, AttemptBegin, WithAttempt, Okay, Refuse
<1> HIDE DEF g
<1>4. g.io \in IoRecords /\ g.io.attempt = FreshAttempt /\ g.io.clientWrite = z.clientWrite
  BY <1>0, <1>2 DEF SameButState
<1>5. /\ a \in Attempts /\ a.written = 0 /\ a.started = FALSE /\ a.terminal = "None"
  BY <1>4, FreshFacts, AtPhaseFacts DEF Phases
<1> HIDE DEF a, r
<1>6. y.attempt = a /\ y.state = g.io.state /\ y.clientWrite = g.io.clientWrite
  BY <1>4, <1>5, AttemptChanged
<1> HIDE DEF y
<1>7. r = [ok |-> TRUE, io |-> y]
  BY <1>3, <1>4, FreshFacts
<1>8. r.ok /\ r.io = y
  BY <1>7
<1> QED
  BY <1>1, <1>2, <1>4, <1>5, <1>6, <1>8 DEF r

(* The TLS handshake leaves the attempt as it is.                           *)
LEMMA StartTlsFacts ==
    ASSUME NEW z, Sound(z), z.state = "ConnectingUpstream"
    PROVE  /\ Sound(HandleEvent(z, "UpstreamTlsHandshakeStarted").io)
           /\ HandleEvent(z, "UpstreamTlsHandshakeStarted").io.state = "HandshakingUpstreamTls"
           /\ HandleEvent(z, "UpstreamTlsHandshakeStarted").io.clientWrite = z.clientWrite
           /\ HandleEvent(z, "UpstreamTlsHandshakeStarted").io.attempt = z.attempt
<1>1. z \in IoRecords
  BY DEF Sound
<1>2. EventTarget(z.state, "UpstreamTlsHandshakeStarted") = "HandshakingUpstreamTls"
  BY EventTable
<1>3. /\ CanTransitionTo(z.state, "HandshakingUpstreamTls")
      /\ "HandshakingUpstreamTls" \in ConnectionStates
  BY DEF CanTransitionTo, ConnectionStates
<1> QED
  BY <1>1, <1>2, <1>3, EventAccepted, StartTlsSound DEF SameButState

(* A connected socket leaves the attempt as it is.                          *)
LEMMA ConnectedFacts ==
    ASSUME NEW z, Sound(z), z.state \in {"ConnectingUpstream", "HandshakingUpstreamTls"},
           NEW n \in Nat \ {0}
    PROVE  /\ Sound(UpstreamConnected(z, n).io) /\ UpstreamConnected(z, n).ok
           /\ UpstreamConnected(z, n).io.state = "WritingUpstreamRequest"
           /\ UpstreamConnected(z, n).io.clientWrite = z.clientWrite
           /\ UpstreamConnected(z, n).io.attempt = z.attempt
<1> DEFINE q == [z EXCEPT !.upstreamWrite = n]
           e == IF z.state = "ConnectingUpstream" THEN "UpstreamConnectReady"
                ELSE "UpstreamTlsEstablished"
<1>1. z \in IoRecords /\ n \in Nat
  BY DEF Sound
<1>2. q \in IoRecords /\ q.state = z.state /\ q.attempt = z.attempt /\ q.clientWrite = z.clientWrite
  BY <1>1, UpstreamBufferChanged
<1>3. UpstreamConnected(z, n) = HandleEvent(q, e)
  BY DEF UpstreamConnected
<1> HIDE DEF q
<1>4. EventTarget(q.state, e) = "WritingUpstreamRequest"
  <2>1. CASE z.state = "ConnectingUpstream"
    <3>1. q.state = "ConnectingUpstream" /\ e = "UpstreamConnectReady"
      BY <1>2, <2>1
    <3> QED
      BY <3>1, EventTable
  <2>2. CASE z.state = "HandshakingUpstreamTls"
    <3>1. q.state = "HandshakingUpstreamTls" /\ e = "UpstreamTlsEstablished"
      BY <1>2, <2>2
    <3> QED
      BY <3>1, EventTable
  <2> QED
    BY <2>1, <2>2
<1>5. CanTransitionTo(q.state, "WritingUpstreamRequest") /\ "WritingUpstreamRequest" \in ConnectionStates
  BY <1>2 DEF CanTransitionTo, ConnectionStates
<1> HIDE DEF e
<1>6. /\ HandleEvent(q, e).ok /\ HandleEvent(q, e).io.state = "WritingUpstreamRequest"
      /\ SameButState(q, HandleEvent(q, e).io)
  BY <1>2, <1>4, <1>5, EventAccepted
<1>7. Sound(UpstreamConnected(z, n).io)
  BY ConnectedSound
<1> QED
  BY <1>2, <1>3, <1>6, <1>7 DEF SameButState

(* A retry that is granted starts from a fresh attempt.                     *)
LEMMA RetryFacts ==
    ASSUME NEW z, Sound(z)
    PROVE  /\ Sound(PrepareUpstreamRetry(z).io) /\ PrepareUpstreamRetry(z).ok \in BOOLEAN
           /\ PrepareUpstreamRetry(z).ok =>
                 /\ z.state \in {"ConnectingUpstream", "WritingUpstreamRequest"}
                 /\ PrepareUpstreamRetry(z).io.state = "SelectingRoute"
                 /\ PrepareUpstreamRetry(z).io.attempt = FreshAttempt
                 /\ PrepareUpstreamRetry(z).io.clientWrite = z.clientWrite
<1> DEFINE P == z.state \notin {"ConnectingUpstream", "WritingUpstreamRequest"}
                \/ z.attempt.terminal = "None"
           y == [z EXCEPT !.state = "SelectingRoute", !.attempt = FreshAttempt, !.upstreamWrite = 0]
           r == PrepareUpstreamRetry(z)
<1>1. Sound(r.io)
  BY RetrySound
<1>2. r = IF P THEN [ok |-> FALSE, io |-> z] ELSE [ok |-> TRUE, io |-> y]
  BY DEF PrepareUpstreamRetry, Okay, Refuse
<1>3. y.state = "SelectingRoute" /\ y.attempt = FreshAttempt /\ y.clientWrite = z.clientWrite
  <2>1. z \in IoRecords
    BY DEF Sound
  <2> QED
    BY <2>1 DEF IoRecords
<1> HIDE DEF y, r
<1>4. r.ok \in BOOLEAN /\ (r.ok => ~P /\ r.io = y)
  BY <1>2
<1> QED
  BY <1>1, <1>3, <1>4 DEF r

(* receive_client_bytes while the request is being read *)
LEMMA ReceiveFacts ==
    ASSUME NEW z, Sound(z), z.state \in {"Accepted", "ReadingClientRequest"},
           NEW o \in {"incomplete", "complete", "malformed"}
    PROVE  /\ Sound(ReceiveClientBytes(z, o).io) /\ ReceiveClientBytes(z, o).ok \in BOOLEAN
           /\ ReceiveClientBytes(z, o).io.clientWrite = z.clientWrite
           /\ ReceiveClientBytes(z, o).io.state \in {"ReadingClientRequest", "SelectingRoute"}
           /\ o = "incomplete" => ReceiveClientBytes(z, o).io.state = "ReadingClientRequest"
           /\ ReceiveClientBytes(z, o).ok /\ o # "incomplete" =>
                 ReceiveClientBytes(z, o).io.state = "SelectingRoute"
           /\ ~ReceiveClientBytes(z, o).ok =>
                 ReceiveClientBytes(z, o).io.state = "ReadingClientRequest"
<1> DEFINE a == HandleEvent(z, "ClientReadable").io
           b == IF z.state = "Accepted" THEN a ELSE z
           p == HandleEvent(b, "RequestParsed")
           r == ReceiveClientBytes(z, o)
<1>0. z \in IoRecords /\ "ReadingClientRequest" \in ConnectionStates /\ "SelectingRoute" \in ConnectionStates
  BY DEF Sound, ConnectionStates
<1>1. Sound(r.io)
  BY ReceiveSound
<1>2. b \in IoRecords /\ b.state = "ReadingClientRequest" /\ b.clientWrite = z.clientWrite
  <2>1. CASE z.state = "Accepted"
    <3>1. EventTarget(z.state, "ClientReadable") = "ReadingClientRequest"
      BY <2>1, EventTable
    <3>2. CanTransitionTo(z.state, "ReadingClientRequest")
      BY <2>1 DEF CanTransitionTo
    <3> QED
      BY <1>0, <2>1, <3>1, <3>2, EventAccepted DEF SameButState
  <2>2. CASE z.state = "ReadingClientRequest"
    BY <1>0, <2>2
  <2> QED
    BY <2>1, <2>2
<1>3. r = CASE o = "incomplete" -> [ok |-> TRUE, io |-> b]
            [] o = "complete" -> p
            [] o = "malformed" -> [ok |-> FALSE, io |-> b]
  BY <1>2 DEF ReceiveClientBytes, Okay, Refuse
<1> HIDE DEF a, b, r
<1>4. p.ok /\ p.io.state = "SelectingRoute" /\ SameButState(b, p.io) /\ p.ok \in BOOLEAN
  <2>1. EventTarget(b.state, "RequestParsed") = "SelectingRoute"
    BY <1>2, EventTable
  <2>2. CanTransitionTo(b.state, "SelectingRoute")
    BY <1>2 DEF CanTransitionTo
  <2> QED
    BY <1>0, <1>2, <2>1, <2>2, EventAccepted, EventMoves
<1> HIDE DEF p
<1>5. CASE o = "incomplete"
  <2>1. r = [ok |-> TRUE, io |-> b]
    BY <1>3, <1>5
  <2>2. r.ok = TRUE /\ r.io = b
    BY <2>1
  <2> QED
    BY <1>1, <1>2, <1>5, <2>2 DEF r
<1>6. CASE o = "complete"
  <2>1. r = p
    BY <1>3, <1>6
  <2> QED
    BY <1>1, <1>2, <1>4, <1>6, <2>1 DEF r, SameButState
<1>7. CASE o = "malformed"
  <2>1. r = [ok |-> FALSE, io |-> b]
    BY <1>3, <1>7
  <2>2. r.ok = FALSE /\ r.io = b
    BY <2>1
  <2> QED
    BY <1>1, <1>2, <1>7, <2>2 DEF r
<1> QED
  BY <1>5, <1>6, <1>7

(* advance_upstream_write, of all that is left of the request *)
LEMMA SendFacts ==
    ASSUME NEW z, Sound(z), z.state = "WritingUpstreamRequest", z.upstreamWrite # 0
    PROVE  /\ Sound(AdvanceUpstreamWrite(z, z.upstreamWrite).io)
           /\ AdvanceUpstreamWrite(z, z.upstreamWrite).ok \in BOOLEAN
           /\ AdvanceUpstreamWrite(z, z.upstreamWrite).io.clientWrite = z.clientWrite
           /\ AdvanceUpstreamWrite(z, z.upstreamWrite).io.attempt.started = z.attempt.started
           /\ AdvanceUpstreamWrite(z, z.upstreamWrite).io.attempt.terminal = z.attempt.terminal
           /\ AdvanceUpstreamWrite(z, z.upstreamWrite).ok =>
                 AdvanceUpstreamWrite(z, z.upstreamWrite).io.state = "ReadingUpstreamResponse"
           /\ ~AdvanceUpstreamWrite(z, z.upstreamWrite).ok =>
                 /\ AdvanceUpstreamWrite(z, z.upstreamWrite).io.state = "WritingUpstreamRequest"
                 /\ AdvanceUpstreamWrite(z, z.upstreamWrite).io.attempt = z.attempt
<1> DEFINE n == z.upstreamWrite
           m == [z EXCEPT !.upstreamWrite = @ - n]
           q == [m EXCEPT !.attempt = Wrote(m.attempt, n)]
           p == [q EXCEPT !.attempt = AtPhase(q.attempt, "AwaitingResponse")]
           g == HandleEvent(p, "UpstreamWritable")
           r == AdvanceUpstreamWrite(z, n)
<1>0. z \in IoRecords /\ n \in Nat \ {0} /\ z.attempt \in Attempts
  BY DEF Sound, IoRecords
<1>1. Sound(r.io)
  BY <1>0, WriteRequestSound
<1>2. /\ m \in IoRecords /\ m.attempt = z.attempt /\ m.state = z.state
      /\ m.clientWrite = z.clientWrite /\ m.upstreamWrite = 0
  <2>1. m = [z EXCEPT !.upstreamWrite = 0]
    BY <1>0
  <2> HIDE DEF m
  <2> QED
    BY <1>0, <2>1, UpstreamBufferChanged
<1>3. r = IF m.attempt.phase # "Writing" THEN [ok |-> FALSE, io |-> m]
          ELSE IF q.attempt.phase # "Writing" THEN [ok |-> FALSE, io |-> q] ELSE g
  <2>1. (IF n < z.upstreamWrite THEN n ELSE z.upstreamWrite) = n
    OBVIOUS
  <2>2. AttemptWrote(m, n) = IF m.attempt.phase # "Writing" THEN [ok |-> FALSE, io |-> m]
                             ELSE [ok |-> TRUE, io |-> q]
    BY DEF AttemptWrote, WithAttempt, Okay, Refuse
  <2>3. AttemptAwaits(q) = IF q.attempt.phase # "Writing" THEN [ok |-> FALSE, io |-> q]
                           ELSE [ok |-> TRUE, io |-> p]
    BY DEF AttemptAwaits, WithAttempt, Okay, Refuse
  <2>4. r = IF ~AttemptWrote(m, n).ok THEN AttemptWrote(m, n)
            ELSE IF ~AttemptAwaits(AttemptWrote(m, n).io).ok THEN AttemptAwaits(AttemptWrote(m, n).io)
            ELSE HandleEvent(AttemptAwaits(AttemptWrote(m, n).io).io, "UpstreamWritable")
    <3>1. r = IF ~AttemptWrote(m, n).ok \/ m.upstreamWrite # 0 THEN AttemptWrote(m, n)
              ELSE IF ~AttemptAwaits(AttemptWrote(m, n).io).ok THEN AttemptAwaits(AttemptWrote(m, n).io)
              ELSE HandleEvent(AttemptAwaits(AttemptWrote(m, n).io).io, "UpstreamWritable")
      BY <2>1, Zenon DEF AdvanceUpstreamWrite
    <3> QED
      BY <1>2, <3>1
  <2> HIDE DEF m, q, p, r
  <2>5. CASE m.attempt.phase # "Writing"
    <3>1. AttemptWrote(m, n) = [ok |-> FALSE, io |-> m]
      BY <2>2, <2>5
    <3>2. AttemptWrote(m, n).ok = FALSE
      BY <3>1
    <3> QED
      BY <2>4, <2>5, <3>1, <3>2
  <2>6. CASE m.attempt.phase = "Writing"
    <3>1. AttemptWrote(m, n) = [ok |-> TRUE, io |-> q]
      BY <2>2, <2>6
    <3>2. AttemptWrote(m, n).ok = TRUE /\ AttemptWrote(m, n).io = q
      BY <3>1
    <3>3. r = IF ~AttemptAwaits(q).ok THEN AttemptAwaits(q)
              ELSE HandleEvent(AttemptAwaits(q).io, "UpstreamWritable")
      BY <2>4, <3>2
    <3>4. CASE q.attempt.phase # "Writing"
      <4>1. AttemptAwaits(q) = [ok |-> FALSE, io |-> q]
        BY <2>3, <3>4
      <4>2. AttemptAwaits(q).ok = FALSE
        BY <4>1
      <4> QED
        BY <2>6, <3>3, <3>4, <4>1, <4>2
    <3>5. CASE q.attempt.phase = "Writing"
      <4>1. AttemptAwaits(q) = [ok |-> TRUE, io |-> p]
        BY <2>3, <3>5
      <4>2. AttemptAwaits(q).ok = TRUE /\ AttemptAwaits(q).io = p
        BY <4>1
      <4> QED
        BY <2>6, <3>3, <3>5, <4>2
    <3> QED
      BY <3>4, <3>5
  <2> QED
    BY <2>5, <2>6
<1> HIDE DEF m, n
<1>4. /\ q \in IoRecords /\ q.state = z.state /\ q.clientWrite = z.clientWrite
      /\ q.attempt.phase = z.attempt.phase /\ q.attempt.started = z.attempt.started
      /\ q.attempt.terminal = z.attempt.terminal /\ q.attempt \in Attempts
  BY <1>0, <1>2, WroteFacts, AttemptChanged
<1> HIDE DEF q
<1>5. /\ p \in IoRecords /\ p.state = z.state /\ p.clientWrite = z.clientWrite
      /\ p.attempt.started = z.attempt.started /\ p.attempt.terminal = z.attempt.terminal
  BY <1>4, AtPhaseFacts, AttemptChanged DEF Phases
<1> HIDE DEF p
<1>6. /\ g.ok /\ g.io.state = "ReadingUpstreamResponse" /\ SameButState(p, g.io)
      /\ g.ok \in BOOLEAN
  <2>0. p.state = "WritingUpstreamRequest"
    BY <1>5
  <2>1. EventTarget(p.state, "UpstreamWritable") = "ReadingUpstreamResponse"
    BY <2>0, EventTable
  <2>2. CanTransitionTo(p.state, "ReadingUpstreamResponse")
        /\ "ReadingUpstreamResponse" \in ConnectionStates
    BY <1>5 DEF CanTransitionTo, ConnectionStates
  <2> QED
    BY <1>5, <2>1, <2>2, EventAccepted, EventMoves
<1> HIDE DEF g, r
<1>7. CASE z.attempt.phase # "Writing"
  <2>1. r = [ok |-> FALSE, io |-> m]
    BY <1>2, <1>3, <1>7
  <2>2. r.ok = FALSE /\ r.io = m
    BY <2>1
  <2> QED
    BY <1>1, <1>2, <2>2 DEF r, n
<1>8. CASE z.attempt.phase = "Writing"
  <2>1. r = g
    BY <1>2, <1>3, <1>4, <1>8
  <2> QED
    BY <1>1, <1>5, <1>6, <2>1 DEF r, n, SameButState
<1> QED
  BY <1>7, <1>8

-----------------------------------------------------------------------------
(* Connecting, and retrying elsewhere.                                     *)

(* Another io for a connection.                                            *)
WithIo(x, z) == [x EXCEPT !.io = z]
(* The connection with another state machine.                               *)
LEMMA WithIoFacts ==
    ASSUME NEW x \in Conns, NEW z \in IoRecords
    PROVE  /\ WithIo(x, z) \in Conns /\ WithIo(x, z).io = z /\ WithIo(x, z).out = x.out
           /\ WithIo(x, z).batch = x.batch /\ WithIo(x, z).up = x.up /\ WithIo(x, z).upReg = x.upReg
           /\ WithIo(x, z).clReg = x.clReg /\ WithIo(x, z).reuse = x.reuse
           /\ WithIo(x, z).lease = x.lease /\ WithIo(x, z).attempted = x.attempted
           /\ WithIo(x, z).used = x.used /\ WithIo(x, z).sent = x.sent
           /\ WithIo(x, z).closeAfter = x.closeAfter /\ WithIo(x, z).deadline = x.deadline
           /\ WithIo(x, z).upOut = x.upOut
BY DEF WithIo, Conns

(* The state machine of the connection at hand may change.                  *)
LEMMA SetIoAt ==
    ASSUME NEW v, NEW w, NEW c, At(v, w, c), NEW z \in IoRecords
    PROVE  /\ At(v, SetIo(w, c, z), c) /\ SetIo(w, c, z).conn[c] = WithIo(w.conn[c], z)
           /\ SetIo(w, c, z).budget = w.budget /\ SetIo(w, c, z).halted = w.halted
<1>1. w.conn[c] \in Conns
  BY AtFacts
<1>2. WithIo(w.conn[c], z) \in Conns /\ WithIo(w.conn[c], z).lease = w.conn[c].lease
  BY <1>1, WithIoFacts
<1>3. SetIo(w, c, z) = Put(w, c, WithIo(w.conn[c], z))
  BY DEF SetIo, Put, WithIo
<1> QED
  BY <1>2, <1>3, PutAt

(* fail_upstream_attempt, of a connection that is in an upstream state     *)
LEMMA FailFit ==
    ASSUME NEW x, NEW h, Fit(x, h), InUpstream(x), NEW f \in Failures, NEW g,
           g["response"] = h["response"]
    PROVE  /\ Fit(WithIo(x, FailUpstreamAttempt(x.io, f).io), g)
           /\ InUpstream(WithIo(x, FailUpstreamAttempt(x.io, f).io))
           /\ FailUpstreamAttempt(x.io, f).io \in IoRecords
           /\ FailUpstreamAttempt(x.io, f).io.state = x.io.state
           /\ FailUpstreamAttempt(x.io, f).io.attempt.terminal # "None"
           /\ FailUpstreamAttempt(x.io, f).io.attempt.started = x.io.attempt.started
<1> DEFINE z == FailUpstreamAttempt(x.io, f).io
           y == WithIo(x, z)
<1>1. x \in Conns /\ Sound(x.io) /\ x.io.state \in UpstreamStates
  BY DEF Fit, InUpstream, UpstreamStates
<1>2. /\ Sound(z) /\ z.state = x.io.state /\ z.clientWrite = x.io.clientWrite
      /\ z.attempt.started = x.io.attempt.started /\ z.attempt.written = x.io.attempt.written
      /\ z.attempt.terminal # "None"
      /\ x.io.attempt.terminal # "Succeeded" => z.attempt.terminal # "Succeeded"
  BY <1>1, FailFacts
<1> HIDE DEF z
<1>3. z \in IoRecords
  BY <1>2 DEF Sound
<1>4. /\ y \in Conns /\ y.io = z /\ y.out = x.out /\ y.batch = x.batch /\ y.up = x.up
      /\ y.upReg = x.upReg /\ y.clReg = x.clReg /\ y.reuse = x.reuse /\ y.lease = x.lease
      /\ y.attempted = x.attempted /\ y.used = x.used /\ y.sent = x.sent
      /\ y.closeAfter = x.closeAfter
  BY <1>1, <1>3, WithIoFacts
<1> HIDE DEF y
<1>5. InUpstream(y) /\ ~Readable(y) /\ Unanswered(y) = Unanswered(x)
  BY <1>2, <1>4 DEF InUpstream, Readable, Unanswered
<1>6. Led(y) /\ Handed(y)
  BY <1>2, <1>4, <1>5 DEF Fit, Led, Handed
<1>7. Cut(x) => Cut(y)
  BY <1>2, <1>4, <1>5 DEF Cut, Fit, Led
<1>8. Owned(y, g)
  BY <1>2, <1>4, <1>5, <1>7 DEF Fit, Owned, Quiet
<1> QED
  BY <1>2, <1>3, <1>4, <1>5, <1>6, <1>8 DEF Fit, y, z

(* A request that is ready to be sent to the upstream u selected for it.   *)
Ready(x, h, u) ==
    /\ Fit(x, h) /\ x.io.state = "SelectingRoute" /\ x.upReg = {} /\ x.sent = {}
    /\ u \in Upstreams /\ x.lease = u /\ u \in x.attempted
    /\ IsFiniteSet(x.attempted) /\ Cardinality(x.attempted) = x.used + 1

(* An attempt that is prepared is led by the upstream that was selected.    *)
LEMMA PreparedFit ==
    ASSUME NEW x, NEW h, NEW u, Ready(x, h, u), x.up = NoUpstream, NEW key \in {NoUpstream, u}
    PROVE  /\ Fit(Prepared(x, u, key), h) /\ InUpstream(Prepared(x, u, key))
           /\ Prepared(x, u, key) \in Conns /\ Prepared(x, u, key).lease = x.lease
           /\ Prepared(x, u, key).up = NoUpstream /\ Prepared(x, u, key).upReg = {}
           /\ Prepared(x, u, key).reuse = key
           /\ Prepared(x, u, key).io.state = "ConnectingUpstream"
<1> DEFINE z == BeginUpstreamConnect(x.io).io
           y == Prepared(x, u, key)
<1>1. x \in Conns /\ Sound(x.io) /\ x.io.state = "SelectingRoute"
  BY DEF Ready, Fit
<1>2. /\ Sound(z) /\ z.state = "ConnectingUpstream" /\ z.clientWrite = x.io.clientWrite
      /\ ~z.attempt.started /\ z.attempt.written = 0 /\ z.attempt.terminal = "None"
  BY <1>1, BeginFacts
<1>3. y = [x EXCEPT !.io = z, !.wire = TRUE, !.tls = FALSE,
                    !.upOut = 0, !.pendTls = u \in TlsUpstreams, !.reuse = key]
  BY DEF Prepared
<1> HIDE DEF z, y
<1>4. z \in IoRecords /\ key \in Peers /\ (u \in TlsUpstreams) \in BOOLEAN
  BY <1>2 DEF Sound, Ready, Peers
<1>5. /\ y \in Conns /\ y.io = z /\ y.out = x.out /\ y.batch = x.batch /\ y.up = x.up
      /\ y.upReg = x.upReg /\ y.clReg = x.clReg /\ y.reuse = key /\ y.lease = x.lease
      /\ y.attempted = x.attempted /\ y.used = x.used /\ y.sent = x.sent
      /\ y.closeAfter = x.closeAfter
  BY <1>1, <1>3, <1>4 DEF Conns
<1>6. InUpstream(y) /\ ~Readable(y) /\ Unanswered(y) /\ Unanswered(x)
  BY <1>1, <1>2, <1>5 DEF InUpstream, Readable, Unanswered
<1>7. Led(y) /\ Handed(y)
  BY <1>2, <1>5, <1>6 DEF Ready, Led, Handed
<1>8. Owned(y, h)
  BY <1>1, <1>2, <1>5, <1>6 DEF Ready, Fit, Owned, Quiet, Cut
<1> QED
  BY <1>2, <1>5, <1>6, <1>7, <1>8 DEF Fit, y, Ready

(* A socket that is dialled leads to the upstream that was selected.        *)
LEMMA DialledDone ==
    ASSUME NEW v, NEW w, NEW c, At(v, w, c), NEW u \in Upstreams,
           Fit(w.conn[c], w.budget.held[c]), InUpstream(w.conn[c]),
           w.conn[c].lease = u, w.conn[c].reuse \in {NoUpstream, u}, NEW kept
    PROVE  Done(v, Dialled(w, c, u), c, kept) /\ At(v, Dialled(w, c, u), c)
<1> DEFINE x == w.conn[c]
           h == w.budget.held[c]
           y == [x EXCEPT !.up = u, !.upReg = {"w"}]
           z == Refresh(y)
<1>1. x \in Conns /\ u \in Peers /\ u # NoUpstream
  BY RuntimeAssumption DEF Fit, Peers
<1>2. /\ y \in Conns /\ y.io = x.io /\ y.out = x.out /\ y.batch = x.batch /\ y.up = u
      /\ y.upReg = {"w"} /\ y.clReg = x.clReg /\ y.reuse = x.reuse /\ y.lease = x.lease
      /\ y.attempted = x.attempted /\ y.used = x.used /\ y.sent = x.sent
      /\ y.closeAfter = x.closeAfter
  <2> HIDE DEF x
  <2> QED
    BY <1>1 DEF Conns
<1>3. Dialled(w, c, u) = Put(w, c, z)
  BY DEF Dialled
<1> HIDE DEF y
<1>4. InUpstream(y) /\ Readable(y) = Readable(x) /\ Unanswered(y) = Unanswered(x) /\ Cut(y) = Cut(x)
  BY <1>2 DEF InUpstream, Readable, Unanswered, Cut
<1>5. Led(y) /\ Handed(y)
  BY <1>1, <1>2, <1>4 DEF Fit, Led, Handed
<1>6. Owned(y, h)
  BY <1>1, <1>2, <1>4 DEF Fit, Owned, Quiet
<1>7. Fit(y, h)
  BY <1>2, <1>5, <1>6 DEF Fit
<1>8. TimeoutKind(y.io.state) # "None"
  BY <1>4 DEF InUpstream, TimeoutKind
<1>9. Good(z, h) /\ z \in Conns /\ z.lease = y.lease /\ z.io = y.io
  BY <1>7, <1>8, RefreshGood
<1> HIDE DEF z
<1>10. ~Kept(z) /\ z.lease = x.lease
  BY <1>2, <1>4, <1>9 DEF Kept, InUpstream
<1> QED
  BY <1>3, <1>9, <1>10, PutDone, PutAt

(* A connection whose attempt was settled and whose socket is gone is      *)
(* answered.                                                               *)
LEMMA ReplyDone ==
    ASSUME NEW v, NEW w, NEW c, At(v, w, c), Fit(w.conn[c], w.budget.held[c]),
           InUpstream(w.conn[c]), w.conn[c].up = NoUpstream, w.conn[c].upReg = {},
           w.conn[c].io.attempt.terminal # "None", NEW kept
    PROVE  Done(v, QueueClientResponse(w, c), c, kept) /\ At(v, QueueClientResponse(w, c), c)
<1>1. Quiet(w.conn[c], w.budget.held[c]) \/ Cut(w.conn[c])
  BY DEF Fit, Led, Owned, Unanswered, Cut
<1> QED
  BY <1>1, QueueDone

(* connect_upstream, from the request that is ready to what connect() says *)
Dialling(w, c, u, key) == Put(w, c, Prepared(w.conn[c], u, key))
Undialled(w, c, u, key) == FailAttempt(Dialling(w, c, u, key), c, "Connect")
(* The attempt before its socket is dialled.                                *)
LEMMA DiallingAt ==
    ASSUME NEW v, NEW w, NEW c, At(v, w, c), NEW u,
           Ready(w.conn[c], w.budget.held[c], u), w.conn[c].up = NoUpstream,
           NEW key, key = NoUpstream \/ key = u
    PROVE  /\ BeginUpstreamConnect(w.conn[c].io).ok
           /\ At(v, Dialling(w, c, u, key), c)
           /\ Dialling(w, c, u, key).conn[c] = Prepared(w.conn[c], u, key)
           /\ Dialling(w, c, u, key).budget = w.budget
           /\ u \in Upstreams /\ Prepared(w.conn[c], u, key).lease = u
           /\ Prepared(w.conn[c], u, key).reuse = key
           /\ Fit(Prepared(w.conn[c], u, key), w.budget.held[c])
           /\ InUpstream(Prepared(w.conn[c], u, key))
           /\ Prepared(w.conn[c], u, key) \in Conns
           /\ Prepared(w.conn[c], u, key).up = NoUpstream /\ Prepared(w.conn[c], u, key).upReg = {}
<1> DEFINE x == w.conn[c]
           h == w.budget.held[c]
           y == Prepared(x, u, key)
<1>0. key \in {NoUpstream, u}
  OBVIOUS
<1>1. BeginUpstreamConnect(x.io).ok
  BY BeginFacts DEF Ready, Fit
<1>2. /\ Fit(y, h) /\ InUpstream(y) /\ y \in Conns /\ y.lease = x.lease
      /\ y.up = NoUpstream /\ y.upReg = {} /\ y.reuse = key
  BY <1>0, PreparedFit
<1> HIDE DEF y
<1>3. At(v, Put(w, c, y), c) /\ Put(w, c, y).conn[c] = y /\ Put(w, c, y).budget = w.budget
  BY <1>2, PutAt
<1>4. u \in Upstreams /\ y.lease = u
  BY <1>2 DEF Ready
<1> QED
  BY <1>1, <1>2, <1>3, <1>4 DEF Dialling, y

(* A new attempt whose socket could be dialled leaves the connection in     *)
(* order.                                                                   *)
LEMMA DiallingDone ==
    ASSUME NEW v, NEW w, NEW c, At(v, w, c), NEW u,
           Ready(w.conn[c], w.budget.held[c], u), w.conn[c].up = NoUpstream,
           NEW key, key = NoUpstream \/ key = u, NEW kept
    PROVE  /\ Done(v, Dialled(Dialling(w, c, u, key), c, u), c, kept)
           /\ At(v, Dialled(Dialling(w, c, u, key), c, u), c)
<1> DEFINE m == Dialling(w, c, u, key)
           y == Prepared(w.conn[c], u, key)
<1>1. /\ At(v, m, c) /\ m.conn[c] = y /\ m.budget = w.budget /\ u \in Upstreams /\ y.lease = u
      /\ y.reuse = key /\ Fit(y, w.budget.held[c]) /\ InUpstream(y)
  BY DiallingAt
<1> HIDE DEF m, y
<1>2. Done(v, Dialled(m, c, u), c, kept) /\ At(v, Dialled(m, c, u), c)
  BY <1>1, DialledDone
<1> QED
  BY <1>2 DEF m

(* A new attempt whose socket could not be dialled has failed.              *)
LEMMA UndialledAt ==
    ASSUME NEW v, NEW w, NEW c, At(v, w, c), NEW u,
           Ready(w.conn[c], w.budget.held[c], u), w.conn[c].up = NoUpstream,
           NEW key, key = NoUpstream \/ key = u
    PROVE  LET n == Undialled(w, c, u, key) IN
           /\ At(v, n, c) /\ Fit(n.conn[c], n.budget.held[c]) /\ InUpstream(n.conn[c])
           /\ n.conn[c].up = NoUpstream /\ n.conn[c].upReg = {}
           /\ n.conn[c].io.attempt.terminal # "None"
<1> DEFINE h == w.budget.held[c]
           y == Prepared(w.conn[c], u, key)
           m == Dialling(w, c, u, key)
           z == FailUpstreamAttempt(y.io, "Connect").io
           n == Undialled(w, c, u, key)
<1>1. /\ At(v, m, c) /\ m.conn[c] = y /\ m.budget = w.budget /\ y \in Conns
      /\ Fit(y, h) /\ InUpstream(y) /\ y.up = NoUpstream /\ y.upReg = {}
  BY DiallingAt
<1> HIDE DEF m, y
<1>2. "Connect" \in Failures
  BY DEF Failures
<1>3. n = SetIo(m, c, z)
  BY <1>1 DEF FailAttempt, Undialled, m
<1>4. Fit(WithIo(y, z), h) /\ InUpstream(WithIo(y, z)) /\ z \in IoRecords /\ z.attempt.terminal # "None"
  BY <1>1, <1>2, FailFit
<1> HIDE DEF z, n
<1>5. At(v, n, c) /\ n.conn[c] = WithIo(y, z) /\ n.budget = w.budget
  BY <1>1, <1>3, <1>4, SetIoAt
<1>6. WithIo(y, z).up = y.up /\ WithIo(y, z).upReg = y.upReg /\ WithIo(y, z).io = z
  BY <1>1, <1>4, WithIoFacts
<1>7. /\ At(v, n, c) /\ Fit(n.conn[c], n.budget.held[c]) /\ InUpstream(n.conn[c])
      /\ n.conn[c].up = NoUpstream /\ n.conn[c].upReg = {}
      /\ n.conn[c].io.attempt.terminal # "None"
  BY <1>1, <1>4, <1>5, <1>6
<1> QED
  BY <1>7 DEF n

(* The attempt of a retry leaves the connection in order, dialled or not.   *)
LEMMA ConnectAgainDone ==
    ASSUME NEW v, NEW w, NEW c, At(v, w, c), NEW u,
           Ready(w.conn[c], w.budget.held[c], u), w.conn[c].up = NoUpstream,
           NEW dialled \in BOOLEAN, NEW kept
    PROVE  /\ Done(v, ConnectAgain(w, c, u, dialled), c, kept)
           /\ At(v, ConnectAgain(w, c, u, dialled), c)
<1> DEFINE m == Dialling(w, c, u, NoUpstream)
           n == Undialled(w, c, u, NoUpstream)
<1>1. BeginUpstreamConnect(w.conn[c].io).ok
  BY DiallingAt
<1>2. Done(v, Dialled(m, c, u), c, kept) /\ At(v, Dialled(m, c, u), c)
  BY DiallingDone
<1>3. /\ At(v, n, c) /\ Fit(n.conn[c], n.budget.held[c]) /\ InUpstream(n.conn[c])
      /\ n.conn[c].up = NoUpstream /\ n.conn[c].upReg = {}
      /\ n.conn[c].io.attempt.terminal # "None"
  BY UndialledAt
<1>4. ConnectAgain(w, c, u, dialled) = IF dialled THEN Dialled(m, c, u) ELSE QueueClientResponse(n, c)
  BY <1>1 DEF ConnectAgain, Undialled, Dialling
<1> HIDE DEF m, n
<1>5. Done(v, QueueClientResponse(n, c), c, kept) /\ At(v, QueueClientResponse(n, c), c)
  BY <1>3, ReplyDone
<1> QED
  BY <1>2, <1>4, <1>5

(* The drain reference follows the retry.                                  *)
LEMMA MoveLeaseAt ==
    ASSUME NEW v, NEW w, NEW c, At(v, w, c), NEW u \in Upstreams
    PROVE  /\ At(v, MoveLease(w, c, u), c) /\ MoveLease(w, c, u).budget = w.budget
           /\ MoveLease(w, c, u).conn[c] = [w.conn[c] EXCEPT !.lease = u]
<1> DEFINE x == w.conn[c]
           o == x.lease
           y == [x EXCEPT !.lease = u]
           r == ReleaseLease(w, o)
           L == r.leases
           M == [L EXCEPT ![u] = @ + 1]
           g == [w.conn EXCEPT ![c] = y]
           n == MoveLease(w, c, u)
<1>0. Whole(w) /\ c \in DOMAIN w.conn /\ x \in Conns
  BY AtFacts DEF At, Rest
<1>1. /\ w.conn \in [DOMAIN w.conn -> Conns] /\ w.budget \in Budgets /\ w.halted \in BOOLEAN
      /\ w.leases \in [Upstreams -> Nat]
  BY <1>0, WholeFacts
<1>2. o \in Peers /\ y \in Conns /\ y.lease = u
  <2> HIDE DEF x
  <2> QED
    BY <1>0 DEF Conns, Peers
<1>3. /\ r = [conn |-> w.conn, budget |-> w.budget, leases |-> L, halted |-> w.halted]
      /\ L \in [Upstreams -> Int]
      /\ \A q \in Upstreams : L[q] = w.leases[q] - (IF q = o THEN 1 ELSE 0)
  BY <1>0, <1>2, ReleaseFacts
<1>4. n = [r EXCEPT !.leases = M, !.conn = g]
  <2>1. r.conn = w.conn
    BY <1>3
  <2> HIDE DEF r
  <2> QED
    BY <2>1 DEF MoveLease, r
<1> HIDE DEF L, r, g, n
<1>5. n = [conn |-> g, budget |-> w.budget, leases |-> M, halted |-> w.halted]
  BY <1>3, <1>4
<1>6. M \in [Upstreams -> Int] /\ \A q \in Upstreams : M[q] = L[q] + (IF q = u THEN 1 ELSE 0)
  <2>1. \A q \in Upstreams : L[q] \in Int
    BY <1>3
  <2> QED
    BY <1>3, <2>1
<1> HIDE DEF M
<1>7. /\ n \in [conn : [DOMAIN w.conn -> Conns], budget : Budgets,
                leases : [Upstreams -> Int], halted : BOOLEAN]
      /\ n.conn = g /\ n.budget = w.budget /\ n.leases = M
  <2>1. g \in [DOMAIN w.conn -> Conns]
    BY <1>1, <1>2 DEF g
  <2> QED
    BY <1>1, <1>5, <1>6, <2>1
<1>8. n.conn[c] = y /\ \A d \in DOMAIN w.conn \ {c} : n.conn[d] = w.conn[d]
  BY <1>0, <1>1, <1>7 DEF g
<1>9. \A q \in Upstreams : n.leases[q] = (w.leases[q] - (IF q = w.conn[c].lease THEN 1 ELSE 0))
                                           + (IF q = y.lease THEN 1 ELSE 0)
  BY <1>2, <1>3, <1>6, <1>7
<1> HIDE DEF y, x, o
<1>10. At(v, n, c)
  BY <1>2, <1>7, <1>8, <1>9, LeaseAt
<1> QED
  BY <1>7, <1>8, <1>10 DEF n, y, x

(* Only the response slot matters to Fit.                                   *)
LEMMA FitSlots ==
    ASSUME NEW x, NEW h, NEW g, Fit(x, h), g["response"] = h["response"]
    PROVE  Fit(x, g)
BY DEF Fit, Owned, Quiet

(* What the outside answers a retry.                                        *)
LEMMA ScriptTyped ==
    ASSUME NEW s \in RetryScripts
    PROVE  s.pick \in Peers /\ s.built \in BOOLEAN /\ s.dialled \in BOOLEAN
<1>1. CASE s = NoRetry
  BY <1>1 DEF NoRetry, Peers
<1>2. CASE s \in [pick : Upstreams, built : {TRUE}, dialled : BOOLEAN]
  BY <1>2 DEF Peers
<1>3. CASE s \in [pick : Upstreams, built : {FALSE}, dialled : {TRUE}]
  BY <1>3 DEF Peers
<1> QED
  BY <1>1, <1>2, <1>3 DEF RetryScripts

(* The retried connection, with the drain reference on its new upstream.   *)
LEMMA RetriedReady ==
    ASSUME NEW x, NEW h, Fit(x, h), InUpstream(x), x.up = NoUpstream, x.upReg = {},
           PrepareUpstreamRetry(x.io).ok, NEW u \in Upstreams, u \notin x.attempted,
           NEW g, g["response"] = h["response"]
    PROVE  /\ Retried(x, u) \in Conns /\ Retried(x, u).lease = x.lease
           /\ Ready([Retried(x, u) EXCEPT !.lease = u], g, u)
           /\ [Retried(x, u) EXCEPT !.lease = u].up = NoUpstream
<1> DEFINE z == PrepareUpstreamRetry(x.io).io
           y == Retried(x, u)
           q == [y EXCEPT !.lease = u]
           A == x.attempted \cup {u}
<1>1. x \in Conns /\ Sound(x.io) /\ x.attempted \in SUBSET Upstreams /\ x.used \in Nat
  BY DEF Fit, Conns
<1>2. /\ Sound(z) /\ z.state = "SelectingRoute" /\ z.attempt = FreshAttempt
      /\ z.clientWrite = x.io.clientWrite
      /\ x.io.state \in {"ConnectingUpstream", "WritingUpstreamRequest"}
  BY <1>1, RetryFacts
<1>3. y = [x EXCEPT !.io = z, !.wire = FALSE, !.used = x.used + 1, !.attempted = A]
  BY DEF Retried
<1>4. z \in IoRecords /\ A \in SUBSET Upstreams /\ x.used + 1 \in Nat /\ u \in Peers
  BY <1>1, <1>2 DEF Sound, Peers
<1>5. /\ IsFiniteSet(A) /\ Cardinality(A) = x.used + 1 + 1
  <2>1. IsFiniteSet(x.attempted) /\ Cardinality(x.attempted) = x.used + 1
    BY DEF Fit, Led
  <2> QED
    BY <1>1, <2>1, FS_AddElement
<1> HIDE DEF z, y, A
<1>6. /\ y \in Conns /\ y.io = z /\ y.out = x.out /\ y.batch = x.batch /\ y.up = x.up
      /\ y.upReg = x.upReg /\ y.clReg = x.clReg /\ y.reuse = x.reuse /\ y.lease = x.lease
      /\ y.attempted = A /\ y.used = x.used + 1 /\ y.sent = x.sent
      /\ y.closeAfter = x.closeAfter
  BY <1>1, <1>3, <1>4 DEF Conns
<1>7. /\ q \in Conns /\ q.io = z /\ q.out = x.out /\ q.batch = x.batch /\ q.up = x.up
      /\ q.upReg = x.upReg /\ q.clReg = x.clReg /\ q.reuse = x.reuse /\ q.lease = u
      /\ q.attempted = A /\ q.used = x.used + 1 /\ q.sent = x.sent
      /\ q.closeAfter = x.closeAfter
  BY <1>4, <1>6 DEF Conns
<1> HIDE DEF q
<1>8. ~InUpstream(q) /\ ~Readable(q) /\ Unanswered(q) /\ Unanswered(x) /\ ~Cut(q)
  <2>1. ~x.io.attempt.started
    BY <1>1, <1>2 DEF Sound, Coherent
  <2> QED
    BY <1>2, <1>7, <2>1, FreshFacts DEF InUpstream, Readable, Unanswered, Cut
<1>9. Led(q) /\ Handed(q) /\ q.sent = {}
  BY <1>2, <1>7, <1>8 DEF Led, Handed, Fit
<1>10. Owned(q, g)
  BY <1>1, <1>2, <1>7, <1>8 DEF Fit, Owned, Quiet
<1>11. u \in A
  BY DEF A
<1>12. Ready(q, g, u)
  BY <1>2, <1>5, <1>7, <1>9, <1>10, <1>11 DEF Ready, Fit
<1> QED
  BY <1>6, <1>7, <1>12 DEF q, y

(* retry_or_reply leaves the connection in order, whatever it decides.      *)
LEMMA RetryDone ==
    ASSUME NEW v, NEW w, NEW c, At(v, w, c), Fit(w.conn[c], w.budget.held[c]),
           InUpstream(w.conn[c]), w.conn[c].up = NoUpstream, w.conn[c].upReg = {},
           w.conn[c].io.attempt.terminal # "None", NEW failure, NEW s \in RetryScripts, NEW kept
    PROVE  /\ Done(v, RetryOrReply(w, c, failure, s), c, kept)
           /\ At(v, RetryOrReply(w, c, failure, s), c)
<1> DEFINE x == w.conn[c]
           h == w.budget.held[c]
           u == s.pick
           ok == s.built /\ PrepareUpstreamRetry(x.io).ok
           T == BudgetReplaceUpstream(w.budget, c, WireUnits, ok)
           n == RetryOrReply(w, c, failure, s)
           m == SetBudget(w, T.budget)
           p == Put(m, c, Retried(x, u))
           q == MoveLease(p, c, u)
<1>1. c \in DOMAIN w.conn /\ c \in Owners /\ x \in Conns /\ Accounted(w.budget) /\ Sound(x.io)
  BY AtFacts DEF At, Fit
<1>2. u \in Peers /\ s.built \in BOOLEAN /\ s.dialled \in BOOLEAN
  BY ScriptTyped
<1>3. ok \in BOOLEAN /\ WireUnits \in Nat
  BY <1>1, <1>2, RetryFacts, RuntimeAssumption
<1>4. KeepsResponse(w.budget, T, c) /\ (T.ok => ok)
  BY <1>1, <1>3, ReplaceUpstreamCharged
<1>5. At(v, m, c) /\ m.conn = w.conn /\ m.budget = T.budget
      /\ m.budget.held[c]["response"] = h["response"]
  <2> HIDE DEF T
  <2>1. /\ Accounted(T.budget) /\ \A d \in Owners \ {c} : T.budget.held[d] = w.budget.held[d]
        /\ T.budget.held[c]["response"] = h["response"]
    BY <1>4, SMTT(30) DEF KeepsResponse, Charged
  <2> QED
    BY <2>1, BudgetAt
<1>6. Fit(x, m.budget.held[c])
  BY <1>5, FitSlots
<1>7. CASE ~MayRetry(x, failure, u)
  <2>1. n = QueueClientResponse(w, c)
    BY <1>7 DEF RetryOrReply
  <2> QED
    BY <2>1, ReplyDone
<1>8. CASE MayRetry(x, failure, u) /\ ~T.ok
  <2>1. n = QueueClientResponse(m, c)
    BY <1>1, <1>8, Zenon DEF RetryOrReply, RetryTaken, Live
  <2> HIDE DEF m, n
  <2>2. Done(v, n, c, kept) /\ At(v, n, c)
    BY <1>5, <1>6, <2>1, ReplyDone
  <2> QED
    BY <2>2 DEF n
<1>9. CASE MayRetry(x, failure, u) /\ T.ok
  <2>1. u \in Upstreams /\ u \notin x.attempted /\ PrepareUpstreamRetry(x.io).ok
    BY <1>2, <1>4, <1>9 DEF MayRetry, Peers
  <2>2. n = ConnectAgain(q, c, u, s.dialled)
    BY <1>1, <1>9 DEF RetryOrReply, RetryTaken, Live
  <2> DEFINE y == Retried(x, u)
             z == [y EXCEPT !.lease = u]
  <2>3. y \in Conns /\ y.lease = x.lease /\ Ready(z, m.budget.held[c], u) /\ z.up = NoUpstream
    BY <1>5, <2>1, RetriedReady, SMTT(30)
  <2>a. p = Put(m, c, y)
    BY Zenon
  <2> HIDE DEF m, n, y, p
  <2>b. y \in Conns /\ y.lease = m.conn[c].lease
    BY <1>5, <2>3
  <2>4. At(v, p, c) /\ p.conn[c] = y /\ p.budget = m.budget
    BY <1>5, <2>a, <2>b, PutAt
  <2>5. At(v, q, c) /\ q.conn[c] = z /\ q.budget = m.budget
    BY <2>1, <2>4, MoveLeaseAt
  <2> HIDE DEF q, z
  <2>6. Done(v, n, c, kept) /\ At(v, n, c)
    BY <1>2, <2>2, <2>3, <2>5, ConnectAgainDone
  <2> QED
    BY <2>6 DEF n
<1> QED
  BY <1>7, <1>8, <1>9

(* connect_upstream of a routed request *)
LEMMA ConnectUpstreamDone ==
    ASSUME NEW v, NEW w, NEW c, At(v, w, c), NEW u,
           Ready(w.conn[c], w.budget.held[c], u), w.conn[c].up = NoUpstream,
           NEW key \in {NoUpstream, u}, NEW dialled \in BOOLEAN, NEW s \in RetryScripts, NEW kept
    PROVE  /\ Done(v, ConnectUpstream(w, c, u, key, dialled, s), c, kept)
           /\ At(v, ConnectUpstream(w, c, u, key, dialled, s), c)
<1> DEFINE m == Dialling(w, c, u, key)
           n == Undialled(w, c, u, key)
<1>0. key = NoUpstream \/ key = u
  OBVIOUS
<1>1. BeginUpstreamConnect(w.conn[c].io).ok
  BY <1>0, DiallingAt
<1>2. Done(v, Dialled(m, c, u), c, kept) /\ At(v, Dialled(m, c, u), c)
  BY <1>0, DiallingDone
<1>3. /\ At(v, n, c) /\ Fit(n.conn[c], n.budget.held[c]) /\ InUpstream(n.conn[c])
      /\ n.conn[c].up = NoUpstream /\ n.conn[c].upReg = {}
      /\ n.conn[c].io.attempt.terminal # "None"
  BY <1>0, UndialledAt
<1>4. ConnectUpstream(w, c, u, key, dialled, s) =
        IF dialled THEN Dialled(m, c, u) ELSE RetryOrReply(n, c, "Connect", s)
  BY <1>1 DEF ConnectUpstream, Undialled, Dialling
<1> HIDE DEF m, n
<1>5. Done(v, RetryOrReply(n, c, "Connect", s), c, kept) /\ At(v, RetryOrReply(n, c, "Connect", s), c)
  BY <1>3, RetryDone
<1> QED
  BY <1>2, <1>4, <1>5

(* reuse_upstream: the kept socket leads to the selected upstream          *)
LEMMA ReuseDone ==
    ASSUME NEW v, NEW w, NEW c, At(v, w, c), NEW u,
           Ready(w.conn[c], w.budget.held[c], u), w.conn[c].up = u, NEW kept
    PROVE  Done(v, ReuseUpstream(w, c), c, kept) /\ At(v, ReuseUpstream(w, c), c)
<1> DEFINE x == w.conn[c]
           h == w.budget.held[c]
           b == BeginUpstreamConnect(x.io)
           z == UpstreamConnected(b.io, WireUnits)
           y == [x EXCEPT !.io = z.io, !.wire = FALSE, !.pendTls = FALSE, !.upOut = 0, !.upReg = {"w"}]
           q == Refresh(y)
<1>1. x \in Conns /\ Sound(x.io) /\ x.io.state = "SelectingRoute" /\ u \in Upstreams /\ u # NoUpstream
  BY RuntimeAssumption DEF Ready, Fit
<1>2. /\ Sound(b.io) /\ b.ok /\ b.io.state = "ConnectingUpstream"
      /\ b.io.clientWrite = x.io.clientWrite
      /\ ~b.io.attempt.started /\ b.io.attempt.written = 0 /\ b.io.attempt.terminal = "None"
  BY <1>1, BeginFacts
<1>3. /\ Sound(z.io) /\ z.ok /\ z.io.state = "WritingUpstreamRequest"
      /\ z.io.clientWrite = b.io.clientWrite /\ z.io.attempt = b.io.attempt
  BY <1>2, ConnectedFacts, RuntimeAssumption
<1>4. ReuseUpstream(w, c) = Put(w, c, q)
  BY <1>2, <1>3 DEF ReuseUpstream
<1> HIDE DEF b, z
<1>5. /\ y \in Conns /\ y.io = z.io /\ y.out = x.out /\ y.batch = x.batch /\ y.up = x.up
      /\ y.upReg = {"w"} /\ y.clReg = x.clReg /\ y.reuse = x.reuse /\ y.lease = x.lease
      /\ y.attempted = x.attempted /\ y.used = x.used /\ y.sent = x.sent
      /\ y.closeAfter = x.closeAfter
  <2>1. z.io \in IoRecords
    BY <1>3 DEF Sound
  <2> HIDE DEF x
  <2> QED
    BY <1>1, <2>1 DEF Conns
<1> HIDE DEF y
<1>6. InUpstream(y) /\ ~Readable(y) /\ Unanswered(y) /\ Unanswered(x)
  BY <1>1, <1>2, <1>3, <1>5 DEF InUpstream, Readable, Unanswered
<1>7. Led(y) /\ Handed(y)
  BY <1>1, <1>2, <1>3, <1>5, <1>6 DEF Ready, Fit, Led, Handed
<1>8. Owned(y, h)
  BY <1>1, <1>2, <1>3, <1>5, <1>6 DEF Ready, Fit, Owned, Quiet, Cut
<1>9. Fit(y, h) /\ TimeoutKind(y.io.state) # "None"
  BY <1>3, <1>5, <1>7, <1>8 DEF Fit, TimeoutKind
<1>10. Good(q, h) /\ q \in Conns /\ q.lease = y.lease /\ q.io = y.io
  BY <1>9, RefreshGood
<1> HIDE DEF q
<1>11. ~Kept(q) /\ q.lease = x.lease
  BY <1>5, <1>6, <1>10 DEF Kept, InUpstream
<1> QED
  BY <1>4, <1>10, <1>11, PutDone, PutAt

(* The drain reference of the selected upstream, and what the client asked *)
(* for its connection.                                                     *)
Leased(w, c, u, keep) ==
    [w EXCEPT !.leases[u] = @ + 1, !.conn[c].lease = u, !.conn[c].closeClient = ~keep]
Selected(x, u, keep) == [x EXCEPT !.lease = u, !.closeClient = ~keep]

(* A selected upstream leads nothing before its attempt.                    *)
LEMMA SelectedFit ==
    ASSUME NEW x, NEW h, Fit(x, h), x.io.state = "SelectingRoute", NEW u \in Upstreams,
           NEW keep \in BOOLEAN
    PROVE  /\ Selected(x, u, keep) \in Conns /\ Fit(Selected(x, u, keep), h)
           /\ Selected(x, u, keep).lease = u /\ Selected(x, u, keep).io = x.io
           /\ Selected(x, u, keep).up = x.up /\ Selected(x, u, keep).upReg = {}
<1> DEFINE y == Selected(x, u, keep)
<1>1. x \in Conns /\ Sound(x.io)
  BY DEF Fit
<1>2. /\ y \in Conns /\ y.io = x.io /\ y.out = x.out
      /\ y.batch = x.batch /\ y.up = x.up /\ y.upReg = x.upReg /\ y.clReg = x.clReg
      /\ y.reuse = x.reuse /\ y.lease = u /\ y.attempted = x.attempted /\ y.used = x.used
      /\ y.sent = x.sent /\ y.closeAfter = x.closeAfter
  <2>1. u \in Peers /\ (~keep) \in BOOLEAN
    BY DEF Peers
  <2> QED
    BY <1>1, <2>1 DEF Conns, Selected
<1> HIDE DEF y
<1>3. ~InUpstream(y) /\ ~InUpstream(x) /\ ~Readable(y) /\ Cut(y) = Cut(x)
      /\ Unanswered(y) = Unanswered(x)
  BY <1>2 DEF InUpstream, Readable, Cut, Unanswered
<1>4. x.upReg = {} /\ Led(y) /\ Handed(y)
  BY <1>2, <1>3 DEF Fit, Led, Handed
<1>5. Owned(y, h)
  BY <1>2, <1>3 DEF Fit, Owned, Quiet
<1> QED
  BY <1>1, <1>2, <1>4, <1>5 DEF Fit, y

(* The drain reference is taken with the selection.                         *)
LEMMA LeasedAt ==
    ASSUME NEW v, NEW w, NEW c, At(v, w, c), w.conn[c].lease = NoUpstream, NEW u \in Upstreams,
           NEW keep \in BOOLEAN, Selected(w.conn[c], u, keep) \in Conns,
           Selected(w.conn[c], u, keep).lease = u
    PROVE  /\ At(v, Leased(w, c, u, keep), c) /\ Leased(w, c, u, keep).budget = w.budget
           /\ Leased(w, c, u, keep).conn[c] = Selected(w.conn[c], u, keep)
<1> DEFINE x == w.conn[c]
           y == Selected(x, u, keep)
           L == w.leases
           M == [L EXCEPT ![u] = @ + 1]
           g == [w.conn EXCEPT ![c] = y]
           n == Leased(w, c, u, keep)
<1>0. Whole(w) /\ c \in DOMAIN w.conn /\ x \in Conns
  BY AtFacts DEF At, Rest
<1>1. /\ w.conn \in [DOMAIN w.conn -> Conns] /\ w.budget \in Budgets /\ w.halted \in BOOLEAN
      /\ w.leases \in [Upstreams -> Nat]
      /\ w = [conn |-> w.conn, budget |-> w.budget, leases |-> w.leases, halted |-> w.halted]
  BY <1>0, WholeFacts
<1>4. n = [w EXCEPT !.leases = M, !.conn = g]
  BY <1>0, <1>1 DEF Leased, Selected
<1> HIDE DEF L, g, n, y
<1>5. n = [conn |-> g, budget |-> w.budget, leases |-> M, halted |-> w.halted]
  BY <1>1, <1>4
<1>6. M \in [Upstreams -> Int] /\ \A q \in Upstreams : M[q] = L[q] + (IF q = u THEN 1 ELSE 0)
  <2>1. L \in [Upstreams -> Int] /\ \A q \in Upstreams : L[q] \in Int
    <3>1. ASSUME NEW f \in [Upstreams -> Nat] PROVE f \in [Upstreams -> Int]
      OBVIOUS
    <3> QED
      BY <1>1, <3>1 DEF L
  <2> QED
    BY <2>1
<1> HIDE DEF M
<1>7. /\ n \in [conn : [DOMAIN w.conn -> Conns], budget : Budgets,
                leases : [Upstreams -> Int], halted : BOOLEAN]
      /\ n.conn = g /\ n.budget = w.budget /\ n.leases = M
  <2>1. g \in [DOMAIN w.conn -> Conns]
    BY <1>1 DEF g, y
  <2> QED
    BY <1>1, <1>5, <1>6, <2>1
<1>8. n.conn[c] = y /\ \A d \in DOMAIN w.conn \ {c} : n.conn[d] = w.conn[d]
  BY <1>0, <1>1, <1>7 DEF g
<1>9. \A q \in Upstreams : n.leases[q] = (w.leases[q] - (IF q = w.conn[c].lease THEN 1 ELSE 0))
                                           + (IF q = y.lease THEN 1 ELSE 0)
  <2>1. \A q \in Upstreams : q # NoUpstream /\ w.leases[q] \in Int
    BY <1>1, RuntimeAssumption
  <2> QED
    BY <1>6, <1>7, <2>1 DEF L, y
<1>10. At(v, n, c)
  <2>1. y \in Conns
    BY DEF y
  <2> HIDE DEF x
  <2> QED
    BY <1>7, <1>8, <1>9, <2>1, LeaseAt
<1> QED
  BY <1>7, <1>8, <1>10 DEF n, y, x

(* What is remembered of a request that goes to an upstream.               *)
Started(x, u) == [x EXCEPT !.attempted = {u}, !.used = 0, !.sent = {}]
(* The first attempt of a request is ready to be prepared.                  *)
LEMMA StartedReady ==
    ASSUME NEW x, NEW h, Fit(x, h), x.io.state = "SelectingRoute", NEW u \in Upstreams, x.lease = u
    PROVE  /\ Started(x, u) \in Conns /\ Started(x, u).lease = x.lease
           /\ Ready(Started(x, u), h, u) /\ Started(x, u).up = x.up
<1> DEFINE y == Started(x, u)
<1>1. x \in Conns /\ Sound(x.io)
  BY DEF Fit
<1>2. /\ y \in Conns /\ y.io = x.io /\ y.out = x.out
      /\ y.batch = x.batch /\ y.up = x.up /\ y.upReg = x.upReg /\ y.clReg = x.clReg
      /\ y.reuse = x.reuse /\ y.lease = x.lease /\ y.attempted = {u} /\ y.used = 0
      /\ y.sent = {} /\ y.closeAfter = x.closeAfter
  BY <1>1 DEF Conns, Started
<1> HIDE DEF y
<1>3. ~InUpstream(y) /\ ~InUpstream(x) /\ ~Readable(y) /\ Cut(y) = Cut(x)
      /\ Unanswered(y) = Unanswered(x)
  BY <1>2 DEF InUpstream, Readable, Cut, Unanswered
<1>4. y.upReg = {} /\ Led(y) /\ Handed(y)
  BY <1>2, <1>3 DEF Fit, Led, Handed
<1>5. Owned(y, h)
  BY <1>2, <1>3 DEF Fit, Owned, Quiet
<1>6. IsFiniteSet({u}) /\ Cardinality({u}) = 1
  BY FS_Singleton
<1>7. Fit(y, h)
  BY <1>1, <1>2, <1>4, <1>5 DEF Fit
<1> QED
  BY <1>2, <1>4, <1>6, <1>7 DEF Ready, y

(* What a route decision says.                                              *)
LEMMA RouteTyped ==
    ASSUME NEW route \in Routes
    PROVE  /\ route.kind \in {"reply", "unresolved", "proxy"}
           /\ route.kind # "reply" => route.u \in Upstreams /\ route.keep \in BOOLEAN
           /\ route.kind = "proxy" => route.built \in BOOLEAN /\ route.dialled \in BOOLEAN
<1>1. CASE route \in [kind : {"reply"}]
  BY <1>1
<1>2. CASE route \in [kind : {"unresolved"}, u : Upstreams, keep : BOOLEAN]
  BY <1>2
<1>3. CASE route \in [kind : {"proxy"}, u : Upstreams, keep : BOOLEAN, built : BOOLEAN,
                      dialled : BOOLEAN]
  BY <1>3
<1> QED
  BY <1>1, <1>2, <1>3 DEF Routes

(* An answer made here before any upstream was involved.                   *)
LEMMA UnroutedDone ==
    ASSUME NEW v, NEW w, NEW c, At(v, w, c), Fit(w.conn[c], w.budget.held[c]),
           w.conn[c].io.state \in {"Accepted", "ReadingClientRequest", "SelectingRoute"},
           NEW kept, w.conn[c].up # NoUpstream => kept
    PROVE  Done(v, QueueClientResponse(w, c), c, kept) /\ At(v, QueueClientResponse(w, c), c)
<1>1. ~InUpstream(w.conn[c]) /\ Unanswered(w.conn[c])
  BY DEF InUpstream, Unanswered
<1>2. Quiet(w.conn[c], w.budget.held[c]) /\ w.conn[c].upReg = {}
  BY <1>1 DEF Fit, Led, Owned
<1> QED
  BY <1>2, QueueDone

(* proxy_request leaves the connection in order: reused socket, new socket  *)
(* or failure.                                                              *)
LEMMA ProxyDone ==
    ASSUME NEW v, NEW w, NEW c, At(v, w, c), Fit(w.conn[c], w.budget.held[c]),
           w.conn[c].io.state = "SelectingRoute", NEW route \in Routes, route.kind = "proxy",
           w.conn[c].lease = route.u, NEW s \in RetryScripts,
           NEW kept, w.conn[c].up # NoUpstream => kept
    PROVE  Done(v, ProxyRequest(w, c, route, s), c, kept) /\ At(v, ProxyRequest(w, c, route, s), c)
<1> DEFINE x == w.conn[c]
           u == route.u
           key == ReuseKey(route)
           reuse == key # NoUpstream /\ CanReuse(x, key)
           d == IF reuse THEN w ELSE DropUpstream(w, c)
           T == BudgetTakePair(w.budget, c, WireUnits, 1, route.built)
           e == SetBudget(d, T.budget)
           y == Started(d.conn[c], u)
           f == Put(e, c, y)
           n == ProxyRequest(w, c, route, s)
<1>1. u \in Upstreams /\ route.built \in BOOLEAN /\ route.dialled \in BOOLEAN
  BY RouteTyped
<1>2. key \in {NoUpstream, u} /\ (key = NoUpstream \/ key = u)
  BY DEF ReuseKey
<1>3. c \in Owners /\ x \in Conns /\ Accounted(w.budget) /\ ~InUpstream(x) /\ x.upReg = {}
  BY AtFacts DEF Fit, Led, InUpstream
<1>4. reuse => x.up = u
  BY <1>2 DEF CanReuse, Fit, Led
<1>5. /\ At(v, d, c) /\ d.budget = w.budget /\ Fit(d.conn[c], d.budget.held[c])
      /\ d.conn[c].io = x.io /\ d.conn[c].lease = u
      /\ d.conn[c].up = IF reuse THEN u ELSE NoUpstream
  <2>1. CASE reuse
    BY <1>4, <2>1
  <2>2. CASE ~reuse
    BY <2>2, DropAt
  <2> QED
    BY <2>1, <2>2
<1>6. KeepsResponse(w.budget, T, c)
  BY <1>1, <1>3, RuntimeAssumption, TakePairCharged
<1>7. n = IF ~T.ok THEN QueueClientResponse(e, c)
          ELSE IF reuse THEN ReuseUpstream(f, c)
          ELSE ConnectUpstream(f, c, u, key, route.dialled, s)
  BY DEF ProxyRequest, RequestTaken, Started
<1> HIDE DEF T, d, n, reuse
<1>8. /\ Accounted(T.budget) /\ \A o \in Owners \ {c} : T.budget.held[o] = d.budget.held[o]
      /\ T.budget.held[c]["response"] = d.budget.held[c]["response"]
  BY <1>5, <1>6 DEF KeepsResponse, Charged
<1>9. At(v, e, c) /\ e.conn = d.conn /\ e.budget = T.budget
  BY <1>5, <1>8, BudgetAt
<1> HIDE DEF e
<1>10. Fit(e.conn[c], e.budget.held[c])
  BY <1>5, <1>8, <1>9, FitSlots
<1>11. e.conn[c].up # NoUpstream => kept
  BY <1>4, <1>5, <1>9
<1>12. Done(v, QueueClientResponse(e, c), c, kept) /\ At(v, QueueClientResponse(e, c), c)
  BY <1>5, <1>9, <1>10, <1>11, UnroutedDone
<1>13. y \in Conns /\ y.lease = e.conn[c].lease /\ Ready(y, e.budget.held[c], u)
       /\ y.up = e.conn[c].up
  BY <1>1, <1>5, <1>9, <1>10, StartedReady
<1> HIDE DEF y
<1>14. At(v, f, c) /\ f.conn[c] = y /\ f.budget = e.budget
  BY <1>9, <1>13, PutAt
<1> HIDE DEF f
<1>15. reuse => Done(v, ReuseUpstream(f, c), c, kept) /\ At(v, ReuseUpstream(f, c), c)
  BY <1>5, <1>9, <1>13, <1>14, ReuseDone
<1>16. ~reuse => /\ Done(v, ConnectUpstream(f, c, u, key, route.dialled, s), c, kept)
                 /\ At(v, ConnectUpstream(f, c, u, key, route.dialled, s), c)
  <2> HIDE DEF key, u
  <2> QED
    BY <1>1, <1>2, <1>5, <1>9, <1>13, <1>14, ConnectUpstreamDone
<1>17. Done(v, n, c, kept) /\ At(v, n, c)
  BY <1>7, <1>12, <1>15, <1>16
<1> QED
  BY <1>17 DEF n

(* route_completed_request *)
LEMMA RouteDone ==
    ASSUME NEW v, NEW w, NEW c, At(v, w, c), Fit(w.conn[c], w.budget.held[c]),
           w.conn[c].io.state = "SelectingRoute", w.conn[c].lease = NoUpstream,
           NEW route \in Routes, NEW s \in RetryScripts,
           NEW kept, w.conn[c].up # NoUpstream => kept
    PROVE  /\ Done(v, RouteCompletedRequest(w, c, route, s), c, kept)
           /\ At(v, RouteCompletedRequest(w, c, route, s), c)
<1> DEFINE x == w.conn[c]
           m == Leased(w, c, route.u, route.keep)
           n == RouteCompletedRequest(w, c, route, s)
<1>1. CASE route.kind = "reply"
  <2>1. n = QueueClientResponse(w, c)
    BY <1>1 DEF RouteCompletedRequest
  <2> QED
    BY <2>1, UnroutedDone
<1>2. CASE route.kind # "reply"
  <2> DEFINE y == Selected(x, route.u, route.keep)
  <2>1. route.u \in Upstreams /\ route.keep \in BOOLEAN
    BY <1>2, RouteTyped
  <2>2. /\ y \in Conns /\ Fit(y, w.budget.held[c]) /\ y.lease = route.u /\ y.io = x.io
        /\ y.up = x.up /\ y.upReg = {}
    BY <2>1, SelectedFit
  <2>3. At(v, m, c) /\ m.budget = w.budget /\ m.conn[c] = y
    BY <2>1, <2>2, LeasedAt
  <2>4. n = IF route.kind = "proxy" THEN ProxyRequest(m, c, route, s)
            ELSE QueueClientResponse(m, c)
    BY <1>2, RouteTyped DEF RouteCompletedRequest, Leased
  <2> HIDE DEF m, y, n
  <2>5. route.kind = "proxy" => /\ Done(v, ProxyRequest(m, c, route, s), c, kept)
                                /\ At(v, ProxyRequest(m, c, route, s), c)
    BY <2>2, <2>3, ProxyDone
  <2>6. Done(v, QueueClientResponse(m, c), c, kept) /\ At(v, QueueClientResponse(m, c), c)
    BY <2>2, <2>3, UnroutedDone
  <2>7. Done(v, n, c, kept) /\ At(v, n, c)
    BY <2>4, <2>5, <2>6
  <2> QED
    BY <2>7 DEF n
<1> QED
  BY <1>1, <1>2

(* receive_client_bytes, of a connection that reads its client             *)
LEMMA ReceiveFit ==
    ASSUME NEW x, NEW h, Fit(x, h), Readable(x), NEW o \in {"incomplete", "complete", "malformed"},
           NEW z, z = ReceiveClientBytes(x.io, o).io, NEW g, g["response"] = h["response"]
    PROVE  /\ Fit(WithIo(x, z), g) /\ z \in IoRecords
           /\ WithIo(x, z).up = x.up /\ WithIo(x, z).lease = NoUpstream /\ WithIo(x, z).io = z
           /\ z.state \in {"ReadingClientRequest", "SelectingRoute"}
<1> DEFINE y == WithIo(x, z)
<1>1. x \in Conns /\ Sound(x.io) /\ x.lease = NoUpstream
      /\ x.io.state \in {"Accepted", "ReadingClientRequest"}
  BY DEF Fit, Led, Readable
<1>2. /\ Sound(z) /\ z.clientWrite = x.io.clientWrite
      /\ z.state \in {"ReadingClientRequest", "SelectingRoute"}
  BY <1>1, ReceiveFacts
<1>3. z \in IoRecords
  BY <1>2 DEF Sound
<1>4. /\ y \in Conns /\ y.io = z /\ y.out = x.out
      /\ y.batch = x.batch /\ y.up = x.up /\ y.upReg = x.upReg /\ y.clReg = x.clReg
      /\ y.reuse = x.reuse /\ y.lease = x.lease /\ y.attempted = x.attempted /\ y.used = x.used
      /\ y.sent = x.sent /\ y.closeAfter = x.closeAfter
  BY <1>1, <1>3, WithIoFacts
<1> HIDE DEF y
<1>5. ~InUpstream(y) /\ ~InUpstream(x) /\ Unanswered(y) /\ Unanswered(x)
  BY <1>1, <1>2, <1>4 DEF InUpstream, Unanswered
<1>6. Led(y) /\ Handed(y)
  BY <1>1, <1>2, <1>4, <1>5 DEF Fit, Led, Handed
<1>7. Quiet(x, h) /\ Quiet(y, g)
  BY <1>2, <1>4, <1>5 DEF Fit, Owned, Quiet
<1>8. Owned(y, g)
  BY <1>2, <1>4, <1>7 DEF Owned, Quiet
<1> QED
  BY <1>1, <1>2, <1>3, <1>4, <1>6, <1>8 DEF Fit, y

(* A piece of the request is charged and moves the state machine at most    *)
(* to the choice of a route.                                                *)
LEMMA UnitAt ==
    ASSUME NEW v, NEW w, NEW c, At(v, w, c), Fit(w.conn[c], w.budget.held[c]), Readable(w.conn[c]),
           NEW o \in {"incomplete", "complete", "malformed"},
           NEW r, r = TakeRequestUnit(w, c, o)
    PROVE  /\ r.ok \in BOOLEAN /\ At(v, r.w, c) /\ Fit(r.w.conn[c], r.w.budget.held[c])
           /\ r.w.conn[c].up = w.conn[c].up /\ r.w.conn[c].lease = NoUpstream
           /\ r.w.conn[c].io.state \in {"Accepted", "ReadingClientRequest", "SelectingRoute"}
           /\ r.ok /\ o = "incomplete" => r.w.conn[c].io.state = "ReadingClientRequest"
           /\ r.ok /\ o # "incomplete" => r.w.conn[c].io.state = "SelectingRoute"
<1> DEFINE x == w.conn[c]
           G == BudgetGrowRequest(w.budget, c, 1)
           R == ReceiveClientBytes(x.io, o)
           z == R.io
           m == SetBudget(w, G.budget)
           q == SetIo(m, c, z)
<1>1. /\ c \in Owners /\ x \in Conns /\ Accounted(w.budget) /\ Sound(x.io) /\ x.lease = NoUpstream
      /\ x.io.state \in {"Accepted", "ReadingClientRequest"}
  BY AtFacts DEF Fit, Led, Readable
<1>2. OneSlot(w.budget, G, c, "request", w.budget.held[c]["request"] + 1)
  BY <1>1, GrowRequestCharged
<1>3. /\ R.ok \in BOOLEAN
      /\ R.ok /\ o = "incomplete" => z.state = "ReadingClientRequest"
      /\ R.ok /\ o # "incomplete" => z.state = "SelectingRoute"
  BY <1>1, ReceiveFacts
<1>4. r = IF ~G.ok THEN [ok |-> FALSE, w |-> m] ELSE [ok |-> R.ok, w |-> q]
  BY DEF TakeRequestUnit, Received
<1> HIDE DEF G
<1>5. /\ Accounted(G.budget) /\ \A d \in Owners \ {c} : G.budget.held[d] = w.budget.held[d]
      /\ G.budget.held[c]["response"] = w.budget.held[c]["response"] /\ G.ok \in BOOLEAN
  BY <1>2 DEF OneSlot, Charged, Slots
<1>6. At(v, m, c) /\ m.conn = w.conn /\ m.budget = G.budget
  BY <1>5, BudgetAt
<1> HIDE DEF m
<1>7. Fit(m.conn[c], m.budget.held[c])
  BY <1>5, <1>6, FitSlots
<1>8. /\ Fit(WithIo(x, z), m.budget.held[c]) /\ z \in IoRecords
      /\ WithIo(x, z).up = x.up /\ WithIo(x, z).lease = NoUpstream /\ WithIo(x, z).io = z
      /\ z.state \in {"ReadingClientRequest", "SelectingRoute"}
  BY <1>5, <1>6, ReceiveFit
<1> HIDE DEF z, R
<1>9. At(v, q, c) /\ q.conn[c] = WithIo(x, z) /\ q.budget = m.budget
  BY <1>6, <1>8, SetIoAt
<1> HIDE DEF q
<1>10. CASE ~G.ok
  <2>1. r = [ok |-> FALSE, w |-> m]
    BY <1>4, <1>10
  <2>2. r.w = m /\ r.ok = FALSE
    BY <2>1
  <2> QED
    BY <1>1, <1>6, <1>7, <2>2
<1>11. CASE G.ok
  <2>1. r = [ok |-> R.ok, w |-> q]
    BY <1>4, <1>11
  <2>2. r.w = q /\ r.ok = R.ok
    BY <2>1
  <2> QED
    BY <1>1, <1>3, <1>8, <1>9, <2>2 DEF z
<1> QED
  BY <1>5, <1>10, <1>11

(* The request charge is dropped with nothing else.                         *)
LEMMA DropRequestDone ==
    ASSUME NEW v, NEW w, NEW c, At(v, w, c), NEW kept, Done(v, w, c, kept)
    PROVE  Done(v, DropRequest(w, c), c, kept)
<1> DEFINE T == DropSlot(w.budget, c, "request")
           n == SetBudget(w, T.budget)
<1>1. c \in Owners /\ Accounted(w.budget) /\ "request" \in Slots
  BY AtFacts DEF Slots
<1>2. OneSlot(w.budget, T, c, "request", 0)
  BY <1>1, DropCharged
<1>3. DropRequest(w, c) = n
  BY DEF DropRequest
<1> HIDE DEF T
<1>4. /\ Accounted(T.budget) /\ \A d \in Owners \ {c} : T.budget.held[d] = w.budget.held[d]
      /\ T.budget.held[c]["response"] = w.budget.held[c]["response"]
  BY <1>2 DEF OneSlot, Charged, Slots
<1>5. At(v, n, c) /\ n.conn = w.conn /\ n.budget = T.budget /\ n.halted = w.halted
  BY <1>4, BudgetAt
<1> HIDE DEF n
<1>6. w.halted \/ (Good(w.conn[c], w.budget.held[c]) /\ (Kept(w.conn[c]) => kept))
  BY DEF Done, At
<1>7. Good(w.conn[c], w.budget.held[c]) => Good(n.conn[c], n.budget.held[c])
  BY <1>4, <1>5, FitSlots DEF Good
<1> QED
  BY <1>3, <1>5, <1>6, <1>7 DEF Done, At

(* read_client                                                             *)
LEMMA ReadClientDone ==
    ASSUME NEW w, NEW c, At(w, w, c), Good(w.conn[c], w.budget.held[c]), Readable(w.conn[c]),
           NEW part \in BOOLEAN, NEW end \in ReadEnds, NEW route \in Routes, NEW s \in RetryScripts,
           NEW kept, w.conn[c].up # NoUpstream => kept
    PROVE  Done(w, ReadClient(w, c, part, end, route, s), c, kept)
<1> DEFINE U == TakeRequestUnit(w, c, "incomplete")
           f == IF part THEN U ELSE [ok |-> TRUE, w |-> w]
           n == ReadClient(w, c, part, end, route, s)
<1>1. /\ Fit(w.conn[c], w.budget.held[c]) /\ w.conn[c].lease = NoUpstream /\ c \in DOMAIN w.conn
      /\ w.conn[c].io.state \in {"Accepted", "ReadingClientRequest"}
  BY DEF Good, Fit, Led, Readable, At
<1>2. /\ f.ok \in BOOLEAN /\ At(w, f.w, c) /\ Fit(f.w.conn[c], f.w.budget.held[c])
      /\ f.w.conn[c].up = w.conn[c].up /\ f.w.conn[c].lease = NoUpstream
      /\ f.w.conn[c].io.state \in {"Accepted", "ReadingClientRequest", "SelectingRoute"}
      /\ f.ok => Readable(f.w.conn[c])
      /\ ~part => f.w = w
      /\ part /\ f.ok => f.w.conn[c].io.state = "ReadingClientRequest"
  <2>1. CASE part
    <3>1. f = U
      BY <2>1
    <3>2. "incomplete" \in {"incomplete", "complete", "malformed"}
      OBVIOUS
    <3> HIDE DEF f
    <3> QED
      BY <1>1, <2>1, <3>1, <3>2, UnitAt DEF Readable
  <2>2. CASE ~part
    <3>1. f = [ok |-> TRUE, w |-> w]
      BY <2>2
    <3> HIDE DEF f
    <3>2. f.ok = TRUE /\ f.w = w
      BY <3>1
    <3> QED
      BY <1>1, <2>2, <3>2
  <2> QED
    BY <2>1, <2>2
<1>3. n = ReadRequestEnd(c, f, part, end, route, s)
  BY <1>1 DEF ReadClient, Live
<1> HIDE DEF f
<1>4. Done(w, QueueClientResponse(f.w, c), c, kept)
  BY <1>2, UnroutedDone
<1>5. CASE ~f.ok \/ end = "error"
  <2>1. n = QueueClientResponse(f.w, c)
    BY <1>2, <1>3, <1>5 DEF ReadRequestEnd
  <2> QED
    BY <1>4, <2>1
<1>6. CASE f.ok /\ end = "block"
  <2>1. n = IF part THEN RefreshDeadline(f.w, c) ELSE f.w
    BY <1>2, <1>3, <1>6 DEF ReadRequestEnd
  <2>2. CASE ~part
    <3>1. n = w
      BY <1>2, <2>1, <2>2
    <3>2. Kept(w.conn[c]) => kept
      BY DEF Kept
    <3> QED
      BY <3>1, <3>2 DEF Done, At
  <2>3. CASE part
    <3> DEFINE y == Refresh(f.w.conn[c])
    <3>1. n = Put(f.w, c, y)
      BY <1>2, <2>1, <2>3 DEF RefreshDeadline, Live, At
    <3>2. TimeoutKind(f.w.conn[c].io.state) # "None"
      BY <1>2, <1>6, <2>3 DEF TimeoutKind
    <3>3. Good(y, f.w.budget.held[c]) /\ y.lease = f.w.conn[c].lease /\ y.up = f.w.conn[c].up
      BY <1>2, <3>2, RefreshGood
    <3> HIDE DEF y
    <3>4. Kept(y) => kept
      BY <1>2, <3>3 DEF Kept
    <3> QED
      BY <1>2, <3>1, <3>3, <3>4, PutDone
  <2> QED
    BY <2>2, <2>3
<1>7. CASE f.ok /\ end = "eof"
  <2>1. n = RemoveConnection(DropUpstream(f.w, c), c)
    BY <1>2, <1>3, <1>7 DEF ReadRequestEnd
  <2>2. At(w, DropUpstream(f.w, c), c)
    BY <1>2, DropAt
  <2> QED
    BY <2>1, <2>2, RemoveDone
<1>8. CASE f.ok /\ end \in {"complete", "malformed"}
  <2> DEFINE l == TakeRequestUnit(f.w, c, end)
             m == RouteCompletedRequest(l.w, c, route, s)
  <2>1. n = IF l.ok THEN DropRequest(m, c) ELSE QueueClientResponse(l.w, c)
    BY <1>2, <1>3, <1>8 DEF ReadRequestEnd, RequestEnded
  <2>2. end \in {"incomplete", "complete", "malformed"} /\ end # "incomplete"
    BY <1>8
  <2>3. /\ l.ok \in BOOLEAN /\ At(w, l.w, c) /\ Fit(l.w.conn[c], l.w.budget.held[c])
        /\ l.w.conn[c].up = f.w.conn[c].up /\ l.w.conn[c].lease = NoUpstream
        /\ l.w.conn[c].io.state \in {"Accepted", "ReadingClientRequest", "SelectingRoute"}
        /\ l.ok => l.w.conn[c].io.state = "SelectingRoute"
    BY <1>2, <1>8, <2>2, UnitAt
  <2> HIDE DEF l
  <2>4. l.w.conn[c].up # NoUpstream => kept
    BY <1>2, <2>3
  <2>5. Done(w, QueueClientResponse(l.w, c), c, kept)
    BY <2>3, <2>4, UnroutedDone
  <2>6. l.ok => Done(w, m, c, kept) /\ At(w, m, c)
    BY <2>3, <2>4, RouteDone
  <2> HIDE DEF m
  <2>7. l.ok => Done(w, DropRequest(m, c), c, kept)
    BY <2>6, DropRequestDone
  <2> QED
    BY <2>1, <2>3, <2>5, <2>7
<1> QED
  BY <1>2, <1>5, <1>6, <1>7, <1>8 DEF ReadEnds

-----------------------------------------------------------------------------
(* Writing the upstream.                                                   *)

(* What a step of the write loop leaves of x: the attempt goes on, or its  *)
(* failure is recorded.                                                    *)
Works(x, h, r) ==
    /\ Fit(r.x, h) /\ InUpstream(r.x) /\ r.x.up = x.up /\ r.x.lease = x.lease
    /\ r.why # "" => r.x.io.attempt.terminal # "None"

BeforeResponse == {"ConnectingUpstream", "HandshakingUpstreamTls", "WritingUpstreamRequest"}

(* Progress before the response changes nothing that Fit speaks of.         *)
LEMMA ProgressFit ==
    ASSUME NEW x, NEW h, Fit(x, h), x.io.state \in BeforeResponse, NEW y \in Conns,
           Sound(y.io), y.io.state \in BeforeResponse, y.io.clientWrite = x.io.clientWrite,
           y.io.attempt = x.io.attempt, y.out = x.out, y.batch = x.batch,
           y.closeAfter = x.closeAfter, y.lease = x.lease, y.attempted = x.attempted,
           y.used = x.used, y.sent = x.sent, y.up = x.up, y.reuse = x.reuse,
           y.upReg = x.upReg, y.clReg = x.clReg
    PROVE  Fit(y, h) /\ InUpstream(y)
<1>1. InUpstream(y) /\ InUpstream(x) /\ ~Readable(y) /\ Cut(y) = Cut(x)
      /\ Unanswered(y) = Unanswered(x)
  BY DEF InUpstream, Readable, Cut, Unanswered, BeforeResponse
<1>2. Led(y) /\ Handed(y)
  BY <1>1 DEF Fit, Led, Handed, BeforeResponse
<1>3. Owned(y, h)
  BY <1>1 DEF Fit, Owned, Quiet, BeforeResponse
<1> QED
  BY <1>1, <1>2, <1>3 DEF Fit

(* A step of the write that fails.                                          *)
LEMMA FailedWorks ==
    ASSUME NEW x, NEW h, Fit(x, h), InUpstream(x), NEW f \in Failures
    PROVE  Works(x, h, Failed(x, f))
<1> DEFINE z == FailUpstreamAttempt(x.io, f).io
           y == WithIo(x, z)
           r == Failed(x, f)
<1>1. x \in Conns
  BY DEF Fit
<1>2. Fit(y, h) /\ InUpstream(y) /\ z \in IoRecords /\ z.attempt.terminal # "None"
  BY FailFit
<1>3. y.io = z /\ y.up = x.up /\ y.lease = x.lease
  BY <1>1, <1>2, WithIoFacts
<1>4. r = [x |-> y, why |-> f]
  BY DEF Failed, WithIo
<1> HIDE DEF y, r, z
<1>5. r.x = y /\ r.why = f
  BY <1>4
<1>6. Works(x, h, r)
  BY <1>2, <1>3, <1>5 DEF Works
<1> QED
  BY <1>6 DEF r

(* A step of the write that goes on.                                        *)
LEMMA WentWorks ==
    ASSUME NEW x, NEW h, NEW y, Fit(y, h), InUpstream(y), y.up = x.up, y.lease = x.lease
    PROVE  Works(x, h, Went(y))
BY DEF Works, Went

(* Two steps of the write, one after the other.                             *)
LEMMA WorksOn ==
    ASSUME NEW x, NEW h, NEW y, y.up = x.up, y.lease = x.lease, NEW r, Works(y, h, r)
    PROVE  Works(x, h, r)
BY DEF Works

(* The socket turned writable while connecting.                            *)
LEMMA ConnectWorks ==
    ASSUME NEW x, NEW h, Fit(x, h), InUpstream(x), NEW a \in BOOLEAN, NEW b \in BOOLEAN
    PROVE  Works(x, h, ConnectDone(x, a, b))
<1>0. x \in Conns /\ Sound(x.io) /\ Works(x, h, Went(x))
  BY WentWorks DEF Fit
<1>1. CASE x.io.state # "ConnectingUpstream"
  BY <1>0, <1>1 DEF ConnectDone
<1>2. CASE x.io.state = "ConnectingUpstream"
  <2> DEFINE z == HandleEvent(x.io, "UpstreamTlsHandshakeStarted").io
             k == UpstreamConnected(x.io, WireUnits).io
             y == [x EXCEPT !.pendTls = FALSE, !.tls = TRUE, !.upOut = 1, !.io = z]
             p == [x EXCEPT !.pendTls = FALSE]
             q == [x EXCEPT !.wire = FALSE, !.tls = FALSE, !.io = k]
             r == ConnectDone(x, a, b)
  <2>1. /\ Sound(z) /\ z.state = "HandshakingUpstreamTls" /\ z.clientWrite = x.io.clientWrite
        /\ z.attempt = x.io.attempt
    BY <1>0, <1>2, StartTlsFacts
  <2>2. /\ Sound(k) /\ k.state = "WritingUpstreamRequest" /\ k.clientWrite = x.io.clientWrite
        /\ k.attempt = x.io.attempt
    BY <1>0, <1>2, ConnectedFacts, RuntimeAssumption
  <2>3. r = IF ~a THEN Failed(x, "Connect")
            ELSE IF x.pendTls THEN IF b THEN Went(y) ELSE Failed(p, "TlsHandshake")
            ELSE IF x.wire THEN Went(q) ELSE Failed(x, "Connect")
    BY <1>2 DEF ConnectDone
  <2>4. z \in IoRecords /\ k \in IoRecords
    BY <2>1, <2>2 DEF Sound
  <2> HIDE DEF z, k, r
  <2>5. /\ y \in Conns /\ y.io = z /\ y.out = x.out
        /\ y.batch = x.batch /\ y.up = x.up /\ y.upReg = x.upReg /\ y.clReg = x.clReg
        /\ y.reuse = x.reuse /\ y.lease = x.lease /\ y.attempted = x.attempted /\ y.used = x.used
        /\ y.sent = x.sent /\ y.closeAfter = x.closeAfter
    BY <1>0, <2>4 DEF Conns
  <2>6. /\ p \in Conns /\ p.io = x.io /\ p.out = x.out
        /\ p.batch = x.batch /\ p.up = x.up /\ p.upReg = x.upReg /\ p.clReg = x.clReg
        /\ p.reuse = x.reuse /\ p.lease = x.lease /\ p.attempted = x.attempted /\ p.used = x.used
        /\ p.sent = x.sent /\ p.closeAfter = x.closeAfter
    BY <1>0 DEF Conns
  <2>7. /\ q \in Conns /\ q.io = k /\ q.out = x.out
        /\ q.batch = x.batch /\ q.up = x.up /\ q.upReg = x.upReg /\ q.clReg = x.clReg
        /\ q.reuse = x.reuse /\ q.lease = x.lease /\ q.attempted = x.attempted /\ q.used = x.used
        /\ q.sent = x.sent /\ q.closeAfter = x.closeAfter
    BY <1>0, <2>4 DEF Conns
  <2> HIDE DEF y, p, q
  <2>8. x.io.state \in BeforeResponse /\ z.state \in BeforeResponse /\ k.state \in BeforeResponse
    BY <1>2, <2>1, <2>2 DEF BeforeResponse
  <2>9. Fit(y, h) /\ InUpstream(y)
    BY <2>1, <2>5, <2>8, ProgressFit
  <2>10. Fit(p, h) /\ InUpstream(p)
    BY <1>0, <2>6, <2>8, ProgressFit
  <2>11. Fit(q, h) /\ InUpstream(q)
    BY <2>2, <2>7, <2>8, ProgressFit
  <2>12. "Connect" \in Failures /\ "TlsHandshake" \in Failures
    BY DEF Failures
  <2>13. Works(x, h, Went(y)) /\ Works(x, h, Went(q))
    BY <2>5, <2>7, <2>9, <2>11, WentWorks
  <2>14. Works(x, h, Failed(x, "Connect")) /\ Works(p, h, Failed(p, "TlsHandshake"))
    BY <2>10, <2>12, FailedWorks
  <2>15. Works(x, h, Failed(p, "TlsHandshake"))
    BY <2>6, <2>14, WorksOn
  <2>16. Works(x, h, r)
    BY <2>3, <2>13, <2>14, <2>15
  <2> QED
    BY <2>16 DEF r
<1> QED
  BY <1>1, <1>2

(* The bytes that wait for the socket do not matter to the invariant.      *)
LEMMA OutFit ==
    ASSUME NEW x, NEW h, Fit(x, h), InUpstream(x), NEW n \in Nat, NEW y, y = [x EXCEPT !.upOut = n]
    PROVE  Fit(y, h) /\ InUpstream(y) /\ y.up = x.up /\ y.lease = x.lease
<1>1. x \in Conns
  BY DEF Fit
<1>2. /\ y \in Conns /\ y.io = x.io /\ y.out = x.out
      /\ y.batch = x.batch /\ y.up = x.up /\ y.upReg = x.upReg /\ y.clReg = x.clReg
      /\ y.reuse = x.reuse /\ y.lease = x.lease /\ y.attempted = x.attempted /\ y.used = x.used
      /\ y.sent = x.sent /\ y.closeAfter = x.closeAfter
  BY <1>1 DEF Conns
<1>3. y.upReg = {} \/ (y.up # NoUpstream /\ InUpstream(x))
  BY <1>2 DEF Fit, Led
<1>4. y.clReg = {} \/ x.io.state # "Failed"
  BY <1>2 DEF Fit, Owned
<1>5. Fit(y, h)
  BY <1>2, <1>3, <1>4, FitLike
<1> QED
  BY <1>2, <1>5 DEF InUpstream

(* Flushing what the upstream socket still has to send.                     *)
LEMMA FlushWorks ==
    ASSUME NEW x, NEW h, Fit(x, h), InUpstream(x), NEW flush \in {"all", "block", "error"}
    PROVE  Works(x, h, FlushUpstream(x, flush))
<1> DEFINE y == [x EXCEPT !.upOut = 0]
           r == FlushUpstream(x, flush)
<1>0. x.upOut \in Nat /\ "Write" \in Failures
  BY DEF Fit, Conns, Failures
<1>1. Works(x, h, Went(x)) /\ Works(x, h, Failed(x, "Write"))
  BY <1>0, WentWorks, FailedWorks
<1>2. Fit(y, h) /\ InUpstream(y) /\ y.up = x.up /\ y.lease = x.lease
  BY OutFit
<1> HIDE DEF y
<1>3. Works(x, h, Went(y))
  BY <1>2, WentWorks
<1>4. r = Went(x) \/ r = Went(y) \/ r = Failed(x, "Write")
  <2>1. CASE x.upOut = 0 \/ flush = "block"
    BY <2>1, <1>0 DEF FlushUpstream
  <2>2. CASE x.upOut > 0 /\ flush = "all"
    BY <2>2, <1>0 DEF FlushUpstream, y
  <2>3. CASE x.upOut > 0 /\ flush = "error"
    BY <2>3, <1>0 DEF FlushUpstream
  <2> QED
    BY <1>0, <2>1, <2>2, <2>3
<1> HIDE DEF r
<1>5. Works(x, h, r)
  BY <1>1, <1>3, <1>4
<1> QED
  BY <1>5 DEF r

(* The transport takes the request: from here on there is no retry.        *)
LEMMA HandOverFit ==
    ASSUME NEW x, NEW h, Fit(x, h), x.io.state = "WritingUpstreamRequest", x.io.upstreamWrite # 0,
           x.up # NoUpstream, NEW r, r = AdvanceUpstreamWrite(x.io, x.io.upstreamWrite), r.ok,
           NEW y, y = [x EXCEPT !.io = r.io, !.upOut = x.io.upstreamWrite, !.sent = x.sent \cup {x.up}]
    PROVE  Fit(y, h) /\ InUpstream(y) /\ y.up = x.up /\ y.lease = x.lease
<1> DEFINE z == r.io
           n == x.io.upstreamWrite
           S == x.sent \cup {x.up}
<1>1. x \in Conns /\ Sound(x.io) /\ x.sent = {} /\ x.up \in Upstreams /\ n \in Nat
      /\ x.io.attempt.started = FALSE
  <2>1. x \in Conns /\ Sound(x.io) /\ x.sent = {}
    BY DEF Fit, Handed
  <2>2. x.up \in Upstreams
    BY <2>1 DEF Conns, Peers
  <2>3. n \in Nat
    BY <2>1 DEF Sound, IoRecords
  <2>4. x.io.attempt.started = FALSE
    BY <2>1 DEF Sound, Coherent, IoRecords, Attempts
  <2> QED
    BY <2>1, <2>2, <2>3, <2>4
<1>2. /\ Sound(z) /\ z.clientWrite = x.io.clientWrite /\ z.attempt.started = x.io.attempt.started
      /\ z.attempt.terminal = x.io.attempt.terminal /\ z.state = "ReadingUpstreamResponse"
  BY <1>1, SendFacts
<1>3. z \in IoRecords /\ S \in SUBSET Upstreams /\ S = {x.up}
  BY <1>1, <1>2 DEF Sound
<1> HIDE DEF z, n, S
<1>4. y = [x EXCEPT !.io = z, !.upOut = n, !.sent = S]
  BY DEF z, n, S
<1>5. /\ y \in Conns /\ y.io = z /\ y.out = x.out
      /\ y.batch = x.batch /\ y.up = x.up /\ y.upReg = x.upReg /\ y.clReg = x.clReg
      /\ y.reuse = x.reuse /\ y.lease = x.lease /\ y.attempted = x.attempted /\ y.used = x.used
      /\ y.sent = S /\ y.closeAfter = x.closeAfter
  BY <1>1, <1>3, <1>4, ZenonT(60) DEF Conns
<1>6. InUpstream(y) /\ InUpstream(x) /\ ~Readable(y) /\ Unanswered(y) /\ Unanswered(x)
  BY <1>1, <1>2, <1>5 DEF InUpstream, Readable, Unanswered
<1>7. Led(y) /\ Handed(y)
  BY <1>1, <1>2, <1>3, <1>5, <1>6 DEF Fit, Led, Handed
<1>8. Quiet(x, h) /\ Quiet(y, h)
  BY <1>2, <1>5, <1>6 DEF Fit, Owned, Quiet
<1>9. Owned(y, h)
  BY <1>2, <1>5, <1>8 DEF Owned, Quiet
<1> QED
  BY <1>2, <1>5, <1>6, <1>7, <1>9 DEF Fit

(* Writing the request.                                                     *)
LEMMA SendWorks ==
    ASSUME NEW x, NEW h, Fit(x, h), InUpstream(x), x.up # NoUpstream,
           NEW write \in {"refused", "all", "some", "block", "error"}
    PROVE  Works(x, h, SendRequest(x, write))
<1> DEFINE n == x.io.upstreamWrite
           R == AdvanceUpstreamWrite(x.io, n)
           y == [x EXCEPT !.io = R.io, !.upOut = n, !.sent = x.sent \cup {x.up}]
           r == SendRequest(x, write)
<1>0. x \in Conns /\ Sound(x.io) /\ "Write" \in Failures /\ n \in Nat
  BY DEF Fit, Failures, Sound, IoRecords
<1>1. Works(x, h, Went(x)) /\ Works(x, h, Failed(x, "Write"))
  BY <1>0, WentWorks, FailedWorks
<1>2. CASE x.upOut > 0 \/ x.io.state # "WritingUpstreamRequest" \/ n = 0
  BY <1>1, <1>2 DEF SendRequest
<1>3. CASE ~(x.upOut > 0 \/ x.io.state # "WritingUpstreamRequest" \/ n = 0)
  <2>0. x.io.state = "WritingUpstreamRequest" /\ n # 0 /\ x.io.state \in BeforeResponse
    BY <1>3 DEF BeforeResponse
  <2>1. CASE write = "refused"
    <3>1. r = Failed(x, "Write")
      BY <1>3, <2>1 DEF SendRequest
    <3> QED
      BY <1>1, <3>1
  <2>2. CASE write # "refused" /\ ~R.ok
    <3> DEFINE z == R.io
               p == WithIo(x, z)
    <3>1. r = Failed(p, "Write")
      BY <1>3, <2>2 DEF SendRequest, WithIo
    <3>2. /\ Sound(z) /\ z.state = "WritingUpstreamRequest" /\ z.clientWrite = x.io.clientWrite
          /\ z.attempt = x.io.attempt
      BY <1>0, <2>0, <2>2, SendFacts
    <3>3. z \in IoRecords /\ z.state \in BeforeResponse
      BY <3>2 DEF Sound, BeforeResponse
    <3> HIDE DEF z
    <3>4. /\ p \in Conns /\ p.io = z /\ p.out = x.out
          /\ p.batch = x.batch /\ p.up = x.up /\ p.upReg = x.upReg /\ p.clReg = x.clReg
          /\ p.reuse = x.reuse /\ p.lease = x.lease /\ p.attempted = x.attempted /\ p.used = x.used
          /\ p.sent = x.sent /\ p.closeAfter = x.closeAfter
      BY <1>0, <3>3, WithIoFacts
    <3> HIDE DEF p
    <3>5. Fit(p, h) /\ InUpstream(p)
      BY <2>0, <3>2, <3>3, <3>4, ProgressFit
    <3>6. Works(p, h, Failed(p, "Write"))
      BY <1>0, <3>5, FailedWorks
    <3>7. Works(x, h, Failed(p, "Write"))
      BY <3>4, <3>6, WorksOn
    <3> QED
      BY <3>1, <3>7
  <2>3. CASE write # "refused" /\ R.ok
    <3> DEFINE p == [y EXCEPT !.upOut = 0]
               q == [y EXCEPT !.upOut = n - 1]
    <3>1. r = CASE write = "all"   -> Went(p)
                [] write = "some"  -> Went(q)
                [] write = "block" -> Went(y)
                [] write = "error" -> Failed(y, "Write")
      BY <1>3, <2>3 DEF SendRequest
    <3>2. Fit(y, h) /\ InUpstream(y) /\ y.up = x.up /\ y.lease = x.lease
      BY <2>0, <2>3, HandOverFit
    <3> HIDE DEF y
    <3>3. n - 1 \in Nat
      BY <1>0, <2>0
    <3>4. Fit(p, h) /\ InUpstream(p) /\ p.up = x.up /\ p.lease = x.lease
      BY <3>2, OutFit
    <3>5. Fit(q, h) /\ InUpstream(q) /\ q.up = x.up /\ q.lease = x.lease
      BY <3>2, <3>3, OutFit
    <3> HIDE DEF p, q
    <3>6. Works(y, h, Failed(y, "Write"))
      BY <1>0, <3>2, FailedWorks
    <3>7. Works(x, h, Failed(y, "Write"))
      BY <3>2, <3>6, WorksOn
    <3>8. Works(x, h, Went(p)) /\ Works(x, h, Went(q)) /\ Works(x, h, Went(y))
      BY <3>2, <3>4, <3>5, WentWorks
    <3>9. r = Went(p) \/ r = Went(q) \/ r = Went(y) \/ r = Failed(y, "Write")
      BY <2>3, <3>1
    <3> HIDE DEF r
    <3>10. Works(x, h, r)
      BY <3>7, <3>8, <3>9
    <3> QED
      BY <3>10 DEF r
  <2> QED
    BY <2>1, <2>2, <2>3
<1> QED
  BY <1>2, <1>3

(* The loop of write_upstream, whatever the socket answers.                 *)
LEMMA WriteLoopWorks ==
    ASSUME NEW x, NEW h, Fit(x, h), InUpstream(x), x.up # NoUpstream, NEW o \in WriteScripts
    PROVE  Works(x, h, WriteLoop(x, o))
<1> DEFINE r1 == ConnectDone(x, o.connected, o.session)
           r2 == ThenFlush(r1, o.flush)
           r3 == ThenSend(r2, o.write)
<1>0. /\ o.connected \in BOOLEAN /\ o.session \in BOOLEAN /\ o.flush \in {"all", "block", "error"}
      /\ o.write \in {"refused", "all", "some", "block", "error"}
  BY DEF WriteScripts
<1>1. Works(x, h, r1)
  BY <1>0, ConnectWorks
<1> HIDE DEF r1
<1>2. Works(x, h, r2)
  <2>1. Works(r1.x, h, FlushUpstream(r1.x, o.flush))
    BY <1>0, <1>1, FlushWorks DEF Works
  <2>2. Works(x, h, FlushUpstream(r1.x, o.flush))
    BY <1>1, <2>1, WorksOn DEF Works
  <2> QED
    BY <1>1, <2>2 DEF ThenFlush
<1> HIDE DEF r2
<1>3. Works(x, h, r3)
  <2>1. Works(r2.x, h, SendRequest(r2.x, o.write))
    BY <1>0, <1>2, SendWorks DEF Works
  <2>2. Works(x, h, SendRequest(r2.x, o.write))
    BY <1>2, <2>1, WorksOn DEF Works
  <2> QED
    BY <1>2, <2>2 DEF ThenSend
<1> QED
  BY <1>3 DEF WriteLoop, r1, r2

(* An upstream socket is always registered for something.                   *)
LEMMA InterestTyped ==
    ASSUME NEW x
    PROVE  UpstreamInterest(x) \in SUBSET {"r", "w"} /\ UpstreamInterest(x) # {}
<1>1. ASSUME NEW s PROVE IoInterest(s) \in SUBSET {"r", "w"}
  BY DEF IoInterest
<1>2. MergedInterest(x) \in SUBSET {"r", "w"}
  BY <1>1 DEF MergedInterest
<1> QED
  BY <1>2 DEF UpstreamInterest

(* A connection in an upstream state, its socket and its deadline renewed. *)
LEMMA RearmDone ==
    ASSUME NEW v, NEW w, NEW c, At(v, w, c), Fit(w.conn[c], w.budget.held[c]),
           InUpstream(w.conn[c]), NEW i \in SUBSET {"r", "w"}, NEW kept,
           NEW n, n = RefreshDeadline(ReregisterUpstream(w, c, i), c)
    PROVE  Done(v, n, c, kept)
<1> DEFINE x == w.conn[c]
           h == w.budget.held[c]
<1>0. x \in Conns /\ c \in DOMAIN w.conn /\ TimeoutKind(x.io.state) # "None"
  BY DEF Fit, At, InUpstream, TimeoutKind
<1>1. CASE x.upReg = {}
  <2> DEFINE m == Halt(w)
             y == Refresh(x)
  <2>1. At(v, m, c) /\ m.halted /\ m.conn = w.conn
    BY HaltAt
  <2>2. n = Put(m, c, y)
    BY <1>0, <1>1, <2>1 DEF ReregisterUpstream, RefreshDeadline, Live
  <2> HIDE DEF m
  <2>3. y \in Conns /\ y.lease = m.conn[c].lease
    BY <1>0, <2>1, RefreshFacts
  <2>4. At(v, n, c) /\ n.halted
    BY <2>1, <2>2, <2>3, PutAt
  <2> QED
    BY <2>4 DEF Done, At
<1>2. CASE x.upReg # {}
  <2> DEFINE y == [x EXCEPT !.upReg = i]
             m == Put(w, c, y)
             z == Refresh(y)
  <2>1. x.up # NoUpstream
    BY <1>2 DEF Fit, Led
  <2>2. ReregisterUpstream(w, c, i) = m
    BY <1>2 DEF ReregisterUpstream, Put
  <2>3. /\ y \in Conns /\ y.io = x.io /\ y.out = x.out
        /\ y.batch = x.batch /\ y.up = x.up /\ y.upReg = i /\ y.clReg = x.clReg
        /\ y.reuse = x.reuse /\ y.lease = x.lease /\ y.attempted = x.attempted /\ y.used = x.used
        /\ y.sent = x.sent /\ y.closeAfter = x.closeAfter
    <3> HIDE DEF x
    <3> QED
      BY <1>0 DEF Conns
  <2> HIDE DEF y
  <2>4. At(v, m, c) /\ m.conn[c] = y /\ m.budget = w.budget
    BY <2>3, PutAt
  <2> HIDE DEF m
  <2>5. n = Put(m, c, z)
    BY <2>2, <2>4 DEF RefreshDeadline, Live, At
  <2>6. y.clReg = {} \/ x.io.state # "Failed"
    BY <2>3 DEF Fit, Owned
  <2>7. Fit(y, h)
    BY <2>1, <2>3, <2>6, FitLike
  <2>8. Good(z, h) /\ z.lease = y.lease /\ z.io = y.io
    BY <1>0, <2>3, <2>7, RefreshGood
  <2> HIDE DEF z
  <2>9. ~Kept(z)
    BY <2>3, <2>8 DEF Kept, InUpstream
  <2> QED
    BY <2>4, <2>5, <2>8, <2>9, PutDone
<1> QED
  BY <1>1, <1>2

(* An attempt that failed: its socket is dropped, then retry or reply.     *)
LEMMA FailedDone ==
    ASSUME NEW v, NEW w, NEW c, At(v, w, c), Fit(w.conn[c], w.budget.held[c]),
           InUpstream(w.conn[c]), w.conn[c].io.attempt.terminal # "None",
           NEW failure, NEW s \in RetryScripts, NEW kept
    PROVE  Done(v, RetryOrReply(DropUpstream(w, c), c, failure, s), c, kept)
<1> DEFINE m == DropUpstream(w, c)
<1>1. /\ At(v, m, c) /\ m.conn[c].up = NoUpstream /\ m.conn[c].upReg = {}
      /\ m.conn[c].io = w.conn[c].io /\ Fit(m.conn[c], m.budget.held[c])
  <2>1. m = DropUpstream(w, c)
    OBVIOUS
  <2> HIDE DEF m
  <2> QED
    BY <2>1, DropAt
<1> HIDE DEF m
<1>2. InUpstream(m.conn[c]) /\ m.conn[c].io.attempt.terminal # "None"
  BY <1>1 DEF InUpstream
<1>3. Done(v, RetryOrReply(m, c, failure, s), c, kept)
  BY <1>1, <1>2, RetryDone
<1> QED
  BY <1>3 DEF m

(* write_upstream                                                          *)
LEMMA WriteUpstreamDone ==
    ASSUME NEW w, NEW c, At(w, w, c), Good(w.conn[c], w.budget.held[c]),
           w.conn[c].up = NoUpstream \/ InUpstream(w.conn[c]),
           NEW o \in WriteScripts, NEW s \in RetryScripts, NEW kept, Kept(w.conn[c]) => kept
    PROVE  Done(w, WriteUpstream(w, c, o, s), c, kept)
<1> DEFINE x == w.conn[c]
           h == w.budget.held[c]
           l == WriteLoop(x, o)
           m == Put(w, c, l.x)
           n == WriteUpstream(w, c, o, s)
<1>1. CASE x.up = NoUpstream
  <2>1. n = w
    BY <1>1 DEF WriteUpstream
  <2> QED
    BY <2>1 DEF Done, At
<1>2. CASE x.up # NoUpstream
  <2>1. c \in DOMAIN w.conn /\ Fit(x, h) /\ InUpstream(x)
    BY <1>2 DEF At, Good
  <2>2. Works(x, h, l)
    BY <1>2, <2>1, WriteLoopWorks
  <2>3. n = UpstreamWritten(w, c, l, s)
    BY <1>2, <2>1 DEF WriteUpstream, Live
  <2> HIDE DEF l, n
  <2>4. l.x \in Conns /\ l.x.lease = x.lease /\ Fit(l.x, h) /\ InUpstream(l.x)
        /\ (l.why # "" => l.x.io.attempt.terminal # "None")
    BY <2>2 DEF Works, Fit
  <2>5. At(w, m, c) /\ m.conn[c] = l.x /\ m.budget = w.budget
    <3> DEFINE y == l.x
    <3>1. y \in Conns /\ y.lease = w.conn[c].lease
      BY <2>4
    <3> HIDE DEF y
    <3>2. At(w, Put(w, c, y), c) /\ Put(w, c, y).conn[c] = y /\ Put(w, c, y).budget = w.budget
      BY <3>1, PutAt
    <3> QED
      BY <3>2 DEF y
  <2>6. CASE l.why = ""
    <3>1. n = RefreshDeadline(ReregisterUpstream(m, c, UpstreamInterest(l.x)), c)
      BY <2>3, <2>6 DEF UpstreamWritten
    <3> HIDE DEF m
    <3> QED
      BY <2>4, <2>5, <3>1, InterestTyped, RearmDone DEF n
  <2>7. CASE l.why # ""
    <3>1. n = RetryOrReply(DropUpstream(m, c), c, l.why, s)
      BY <2>3, <2>7 DEF UpstreamWritten
    <3> HIDE DEF m
    <3>2. Done(w, RetryOrReply(DropUpstream(m, c), c, l.why, s), c, kept)
      BY <2>4, <2>5, <2>7, FailedDone
    <3> QED
      BY <3>1, <3>2 DEF n
  <2> QED
    BY <2>6, <2>7
<1> QED
  BY <1>1, <1>2

-----------------------------------------------------------------------------
(* Reading the upstream.                                                   *)

(* receive_upstream_bytes *)
LEMMA TakenFacts ==
    ASSUME NEW z, Sound(z), NEW n \in Nat, NEW r, r = ReceiveUpstreamBytes(z, n)
    PROVE  /\ Sound(r.io) /\ r.ok \in BOOLEAN
           /\ r.ok => /\ z.state = "ReadingUpstreamResponse" /\ r.io.state = z.state
                      /\ r.io.clientWrite = z.clientWrite + n
                      /\ z.attempt.terminal = "None" /\ r.io.attempt.terminal = "None"
                      /\ n = 0 => r.io.attempt = z.attempt
                      /\ n # 0 => r.io.attempt.started
<1>0. Sound(r.io) /\ z \in IoRecords /\ z.attempt \in Attempts /\ z.clientWrite \in Nat
  BY ReadResponseSound DEF Sound, IoRecords
<1>1. CASE z.state # "ReadingUpstreamResponse"
  <2>1. r = [ok |-> FALSE, io |-> z]
    BY <1>1 DEF ReceiveUpstreamBytes, Refuse
  <2>2. r.ok = FALSE
    BY <2>1
  <2> QED
    BY <1>0, <2>2
<1>2. CASE z.state = "ReadingUpstreamResponse"
  <2> DEFINE m == z.clientWrite + n
             y == [z EXCEPT !.clientWrite = m]
             b == Began(y.attempt)
             q == [y EXCEPT !.attempt = b]
  <2>1. m \in Nat
    BY <1>0
  <2> HIDE DEF m
  <2>2. /\ y \in IoRecords /\ y.state = z.state /\ y.attempt = z.attempt /\ y.clientWrite = m
    BY <1>0, <2>1, ClientBufferChanged
  <2>3. r = IF y.attempt.phase \notin {"AwaitingResponse", "ResponseStarted"}
            THEN [ok |-> FALSE, io |-> y]
            ELSE IF n = 0 THEN [ok |-> TRUE, io |-> y] ELSE [ok |-> TRUE, io |-> q]
    BY <1>2 DEF ReceiveUpstreamBytes, AttemptReceived, WithAttempt, Okay, Refuse, m
  <2> HIDE DEF y
  <2>4. b \in Attempts /\ b.started = TRUE /\ b.terminal = z.attempt.terminal
    BY <1>0, <2>2, BeganFacts
  <2> HIDE DEF b
  <2>5. q.state = y.state /\ q.attempt = b /\ q.clientWrite = y.clientWrite
    BY <2>2, <2>4, AttemptChanged
  <2> HIDE DEF q
  <2>6. y.attempt.phase \in {"AwaitingResponse", "ResponseStarted"} => z.attempt.terminal = "None"
    BY <2>2 DEF Sound
  <2>7. CASE y.attempt.phase \notin {"AwaitingResponse", "ResponseStarted"}
    <3>1. r = [ok |-> FALSE, io |-> y]
      BY <2>3, <2>7
    <3>2. r.ok = FALSE
      BY <3>1
    <3> QED
      BY <1>0, <3>2
  <2>8. CASE y.attempt.phase \in {"AwaitingResponse", "ResponseStarted"} /\ n = 0
    <3>1. r = [ok |-> TRUE, io |-> y]
      BY <2>3, <2>8
    <3>2. r.ok = TRUE /\ r.io = y
      BY <3>1
    <3> QED
      BY <1>0, <1>2, <2>2, <2>6, <2>8, <3>2 DEF m
  <2>9. CASE y.attempt.phase \in {"AwaitingResponse", "ResponseStarted"} /\ n # 0
    <3>1. r = [ok |-> TRUE, io |-> q]
      BY <2>3, <2>9
    <3>2. r.ok = TRUE /\ r.io = q
      BY <3>1
    <3> QED
      BY <1>0, <1>2, <2>2, <2>4, <2>5, <2>6, <2>9, <3>2 DEF m
  <2> QED
    BY <2>7, <2>8, <2>9
<1> QED
  BY <1>1, <1>2

(* finish_upstream_response, while the response is being read *)
LEMMA FinishFacts ==
    ASSUME NEW z, Sound(z), z.state = "ReadingUpstreamResponse",
           NEW r, r = FinishUpstreamResponse(z)
    PROVE  /\ Sound(r.io) /\ r.ok \in BOOLEAN /\ r.io.state = "WritingClientResponse"
           /\ r.io.clientWrite = z.clientWrite
           /\ r.ok => z.attempt.terminal = "None" /\ r.io.attempt.terminal = "Succeeded"
           /\ ~r.ok => r.io.attempt = z.attempt
<1> DEFINE h == HandleEvent(z, "UpstreamReadable")
           y == h.io
           b == Settle(y.attempt, "Succeeded")
           q == [y EXCEPT !.attempt = b]
<1>0. Sound(r.io) /\ z \in IoRecords /\ z.attempt \in Attempts
  BY FinishResponseSound DEF Sound, IoRecords
<1>1. h.ok /\ y.state = "WritingClientResponse" /\ SameButState(z, y)
  <2>1. EventTarget(z.state, "UpstreamReadable") = "WritingClientResponse"
    BY EventTable
  <2>2. /\ CanTransitionTo(z.state, "WritingClientResponse")
        /\ "WritingClientResponse" \in ConnectionStates
    BY DEF CanTransitionTo, ConnectionStates
  <2> QED
    BY <1>0, <2>1, <2>2, EventAccepted
<1>2. r = IF y.attempt.phase \notin {"AwaitingResponse", "ResponseStarted"}
          THEN [ok |-> FALSE, io |-> y] ELSE [ok |-> TRUE, io |-> q]
  BY <1>1 DEF FinishUpstreamResponse, AttemptSucceed, WithAttempt, Okay, Refuse
<1> HIDE DEF h, y
<1>3. y \in IoRecords /\ y.attempt = z.attempt /\ y.clientWrite = z.clientWrite
  BY <1>0, <1>1 DEF SameButState
<1>4. b \in Attempts /\ b.terminal = "Succeeded"
  BY <1>0, <1>3, SettleFacts
<1> HIDE DEF b
<1>5. q.state = y.state /\ q.attempt = b /\ q.clientWrite = y.clientWrite
  BY <1>3, <1>4, AttemptChanged
<1> HIDE DEF q
<1>6. CASE y.attempt.phase \notin {"AwaitingResponse", "ResponseStarted"}
  <2>1. r = [ok |-> FALSE, io |-> y]
    BY <1>2, <1>6
  <2>2. r.ok = FALSE /\ r.io = y
    BY <2>1
  <2> QED
    BY <1>0, <1>1, <1>3, <2>2
<1>7. CASE y.attempt.phase \in {"AwaitingResponse", "ResponseStarted"}
  <2>1. r = [ok |-> TRUE, io |-> q]
    BY <1>2, <1>7
  <2>2. r.ok = TRUE /\ r.io = q
    BY <2>1
  <2>3. z.attempt.terminal = "None"
    BY <1>3, <1>7 DEF Sound
  <2> QED
    BY <1>0, <1>1, <1>3, <1>4, <1>5, <2>2, <2>3
<1> QED
  BY <1>6, <1>7

(* The read interest follows the pressure; nothing else changes.           *)
LEMMA ReadInterestFacts ==
    ASSUME NEW p, NEW x \in Conns, NEW y, y = ReadInterest(p, x)
    PROVE  /\ y \in Conns /\ y.io = x.io /\ y.out = x.out /\ y.batch = x.batch /\ y.up = x.up
           /\ y.clReg = x.clReg /\ y.reuse = x.reuse /\ y.lease = x.lease
           /\ y.attempted = x.attempted /\ y.used = x.used /\ y.sent = x.sent
           /\ y.closeAfter = x.closeAfter /\ y.deadline = x.deadline
           /\ y.upReg = x.upReg \/ y.upReg = {} \/ (y.up # NoUpstream /\ InUpstream(x))
           /\ Reading(x) /\ x.up # NoUpstream =>
                 ((y.upReg # {}) <=> ~ReadMustPause(p, Buffered(x), MaxResponseBuffer))
<1> DEFINE a == [x EXCEPT !.upReg = {}]
           b == [x EXCEPT !.upReg = {"r"}]
<1>1. /\ a \in Conns /\ a.io = x.io /\ a.out = x.out /\ a.batch = x.batch /\ a.up = x.up
      /\ a.clReg = x.clReg /\ a.reuse = x.reuse /\ a.lease = x.lease
      /\ a.attempted = x.attempted /\ a.used = x.used /\ a.sent = x.sent
      /\ a.closeAfter = x.closeAfter /\ a.deadline = x.deadline /\ a.upReg = {}
  BY DEF Conns
<1>2. /\ b \in Conns /\ b.io = x.io /\ b.out = x.out /\ b.batch = x.batch /\ b.up = x.up
      /\ b.clReg = x.clReg /\ b.reuse = x.reuse /\ b.lease = x.lease
      /\ b.attempted = x.attempted /\ b.used = x.used /\ b.sent = x.sent
      /\ b.closeAfter = x.closeAfter /\ b.deadline = x.deadline /\ b.upReg = {"r"}
  BY DEF Conns
<1> DEFINE P == ReadMustPause(p, Buffered(x), MaxResponseBuffer)
           A == ResponseReadAction(p, x.io.state, x.upReg # {}, Buffered(x), MaxResponseBuffer)
<1>3. y = CASE x.up = NoUpstream -> x
            [] x.up # NoUpstream /\ A = "Pause"  -> a
            [] x.up # NoUpstream /\ A = "Resume" -> b
            [] OTHER -> x
  BY DEF ReadInterest
<1>4. A = IF x.io.state # "ReadingUpstreamResponse" THEN "Keep"
          ELSE IF x.upReg # {} /\ P THEN "Pause"
          ELSE IF x.upReg = {} /\ ~P THEN "Resume" ELSE "Keep"
  <2>1. ASSUME NEW q \in BOOLEAN
        PROVE  ResponseReadAction(p, x.io.state, q, Buffered(x), MaxResponseBuffer) =
                  IF x.io.state # "ReadingUpstreamResponse" THEN "Keep"
                  ELSE IF q /\ P THEN "Pause" ELSE IF ~q /\ ~P THEN "Resume" ELSE "Keep"
    <3>1. P \in BOOLEAN
      BY DEF ReadMustPause
    <3>2. CASE x.io.state # "ReadingUpstreamResponse"
      BY <3>2 DEF ResponseReadAction
    <3>3. CASE x.io.state = "ReadingUpstreamResponse" /\ q /\ P
      BY <3>3 DEF ResponseReadAction
    <3>4. CASE x.io.state = "ReadingUpstreamResponse" /\ ~q /\ ~P
      BY <3>4 DEF ResponseReadAction
    <3>5. CASE x.io.state = "ReadingUpstreamResponse" /\ ~(q /\ P) /\ ~(~q /\ ~P)
      BY <3>5 DEF ResponseReadAction
    <3> QED
      BY <3>2, <3>3, <3>4, <3>5
  <2>2. CASE x.upReg = {}
    <3>1. A = ResponseReadAction(p, x.io.state, FALSE, Buffered(x), MaxResponseBuffer)
      BY <2>2
    <3> QED
      BY <2>1, <2>2, <3>1
  <2>3. CASE x.upReg # {}
    <3>1. A = ResponseReadAction(p, x.io.state, TRUE, Buffered(x), MaxResponseBuffer)
      BY <2>3
    <3> QED
      BY <2>1, <2>3, <3>1
  <2> QED
    BY <2>2, <2>3
<1> HIDE DEF a, b, A, P
<1>5. CASE x.up = NoUpstream
  <2>1. y = x
    BY <1>3, <1>5
  <2> QED
    BY <1>5, <2>1
<1>6. CASE x.up # NoUpstream /\ A = "Pause"
  <2>1. y = a /\ P /\ x.upReg # {}
    BY <1>3, <1>4, <1>6
  <2> QED
    BY <1>1, <1>6, <2>1 DEF P
<1>7. CASE x.up # NoUpstream /\ A = "Resume"
  <2>1. y = b /\ ~P /\ x.io.state = "ReadingUpstreamResponse"
    BY <1>3, <1>4, <1>7
  <2> QED
    BY <1>2, <1>7, <2>1 DEF P, InUpstream
<1>8. CASE x.up # NoUpstream /\ A = "Keep"
  <2>1. y = x
    BY <1>3, <1>8
  <2>2. Reading(x) => ((x.upReg # {}) <=> ~P)
    BY <1>4, <1>8 DEF Reading
  <2> QED
    BY <1>8, <2>1, <2>2 DEF P
<1> QED
  BY <1>4, <1>5, <1>6, <1>7, <1>8

(* The read interest of a response leaves the connection in order.          *)
LEMMA ReadInterestGood ==
    ASSUME NEW p, NEW x, NEW h, Good(x, h)
    PROVE  Good(ReadInterest(p, x), h)
<1> DEFINE y == ReadInterest(p, x)
<1>1. x \in Conns
  BY DEF Good, Fit
<1>2. /\ y \in Conns /\ y.io = x.io /\ y.out = x.out /\ y.batch = x.batch /\ y.up = x.up
      /\ y.clReg = x.clReg /\ y.reuse = x.reuse /\ y.lease = x.lease
      /\ y.attempted = x.attempted /\ y.used = x.used /\ y.sent = x.sent
      /\ y.closeAfter = x.closeAfter /\ y.deadline = x.deadline
      /\ y.upReg = x.upReg \/ y.upReg = {} \/ (y.up # NoUpstream /\ InUpstream(x))
  BY <1>1, ReadInterestFacts
<1> HIDE DEF y
<1>3. /\ y.upReg = {} \/ (y.up # NoUpstream /\ InUpstream(x))
      /\ y.clReg = {} \/ x.io.state # "Failed"
  BY <1>2 DEF Good, Fit, Led, Owned
<1>4. Fit(y, h)
  BY <1>2, <1>3, FitLike DEF Good
<1>5. Armed(y)
  BY <1>2 DEF Good, Armed
<1> QED
  BY <1>4, <1>5 DEF Good, y

(* The small steps at the end of a handler, on any connection.             *)
LEMMA RefreshAt ==
    ASSUME NEW v, NEW w, NEW c, At(v, w, c), NEW n, n = RefreshDeadline(w, c)
    PROVE  /\ At(v, n, c) /\ n.conn[c] = Refresh(w.conn[c]) /\ n.budget = w.budget
           /\ n.halted = w.halted
<1> DEFINE y == Refresh(w.conn[c])
<1>1. c \in DOMAIN w.conn /\ w.conn[c] \in Conns
  BY AtFacts DEF At
<1>2. y \in Conns /\ y.lease = w.conn[c].lease
  BY <1>1, RefreshFacts
<1>3. n = Put(w, c, y)
  BY <1>1 DEF RefreshDeadline, Live
<1> HIDE DEF y
<1>4. At(v, n, c) /\ n.conn[c] = y /\ n.budget = w.budget /\ n.halted = w.halted
  BY <1>2, <1>3, PutAt
<1> QED
  BY <1>4 DEF y

(* reconcile_read_interest changes the registration only.                   *)
LEMMA ReconcileReadAt ==
    ASSUME NEW v, NEW w, NEW c, At(v, w, c), NEW n, n = ReconcileRead(w, c)
    PROVE  /\ At(v, n, c) /\ n.conn[c] = ReadInterest(w.budget.pressure, w.conn[c])
           /\ n.budget = w.budget /\ n.halted = w.halted
<1> DEFINE y == ReadInterest(w.budget.pressure, w.conn[c])
<1>1. c \in DOMAIN w.conn /\ w.conn[c] \in Conns
  BY AtFacts DEF At
<1>2. y \in Conns /\ y.lease = w.conn[c].lease
  BY <1>1, ReadInterestFacts
<1>3. n = Put(w, c, y)
  BY <1>1 DEF ReconcileRead, Live
<1> HIDE DEF y
<1>4. At(v, n, c) /\ n.conn[c] = y /\ n.budget = w.budget /\ n.halted = w.halted
  BY <1>2, <1>3, PutAt
<1> QED
  BY <1>4 DEF y

(* Registering the client socket again, or ending the loop.                 *)
LEMMA ReregisterAt ==
    ASSUME NEW v, NEW w, NEW c, At(v, w, c), NEW i \in SUBSET {"r", "w"}, NEW n,
           n = Reregister(w, c, i)
    PROVE  /\ At(v, n, c) /\ n.budget = w.budget
           /\ n.halted \/ (w.conn[c].clReg # {} /\ n.conn[c] = [w.conn[c] EXCEPT !.clReg = i])
<1> DEFINE x == w.conn[c]
           y == [x EXCEPT !.clReg = i]
<1>0. x \in Conns
  BY AtFacts
<1>1. CASE x.clReg = {}
  <2>1. n = Halt(w)
    BY <1>1 DEF Reregister
  <2> QED
    BY <2>1, HaltAt
<1>2. CASE x.clReg # {}
  <2>1. n = Put(w, c, y)
    BY <1>2 DEF Reregister, Put
  <2>2. y \in Conns /\ y.lease = x.lease
    <3> HIDE DEF x
    <3> QED
      BY <1>0 DEF Conns
  <2> HIDE DEF y
  <2>3. At(v, n, c) /\ n.conn[c] = y /\ n.budget = w.budget
    BY <2>1, <2>2, PutAt
  <2> QED
    BY <1>2, <2>3 DEF y
<1> QED
  BY <1>1, <1>2

(* A world in which c is good and still in its upstream state, or that an  *)
(* error ends.                                                             *)
Busy(v, w, c) ==
    /\ At(v, w, c)
    /\ w.halted \/ (Good(w.conn[c], w.budget.held[c]) /\ InUpstream(w.conn[c]))

(* A connection whose attempt goes on is in order.                          *)
LEMMA BusyDone ==
    ASSUME NEW v, NEW w, NEW c, Busy(v, w, c), NEW kept
    PROVE  Done(v, w, c, kept)
BY DEF Busy, Done, At, Kept

(* Setting the deadline leaves the attempt going on.                        *)
LEMMA BusyRefresh ==
    ASSUME NEW v, NEW w, NEW c, Busy(v, w, c)
    PROVE  Busy(v, RefreshDeadline(w, c), c)
<1> DEFINE n == RefreshDeadline(w, c)
           x == w.conn[c]
<1>1. At(v, n, c) /\ n.conn[c] = Refresh(x) /\ n.budget = w.budget /\ n.halted = w.halted
  BY RefreshAt DEF Busy
<1> HIDE DEF n
<1>2. ASSUME Good(x, w.budget.held[c]), InUpstream(x)
      PROVE  Good(n.conn[c], n.budget.held[c]) /\ InUpstream(n.conn[c])
  <2>1. TimeoutKind(x.io.state) # "None" /\ Fit(x, w.budget.held[c])
    BY <1>2 DEF InUpstream, TimeoutKind, Good
  <2>2. Good(Refresh(x), w.budget.held[c]) /\ Refresh(x).io = x.io
    BY <2>1, RefreshGood
  <2> QED
    BY <1>1, <1>2, <2>2 DEF InUpstream
<1> QED
  BY <1>1, <1>2 DEF Busy, n

(* The read interest leaves the attempt going on.                           *)
LEMMA BusyReconcile ==
    ASSUME NEW v, NEW w, NEW c, Busy(v, w, c)
    PROVE  Busy(v, ReconcileRead(w, c), c)
<1> DEFINE n == ReconcileRead(w, c)
           x == w.conn[c]
           y == ReadInterest(w.budget.pressure, x)
<1>1. At(v, n, c) /\ n.conn[c] = y /\ n.budget = w.budget /\ n.halted = w.halted
  BY ReconcileReadAt DEF Busy
<1>2. x \in Conns
  BY AtFacts DEF Busy
<1>3. y.io = x.io
  BY <1>2, ReadInterestFacts
<1>4. Good(x, w.budget.held[c]) => Good(y, w.budget.held[c])
  BY ReadInterestGood
<1> HIDE DEF n, y
<1>5. Busy(v, n, c)
  BY <1>1, <1>3, <1>4 DEF Busy, InUpstream
<1> QED
  BY <1>5 DEF n

(* Registering the client socket leaves the attempt going on.               *)
LEMMA BusyReregister ==
    ASSUME NEW v, NEW w, NEW c, Busy(v, w, c), NEW i \in SUBSET {"r", "w"}
    PROVE  Busy(v, Reregister(w, c, i), c)
<1> DEFINE n == Reregister(w, c, i)
           x == w.conn[c]
           y == [x EXCEPT !.clReg = i]
<1>0. At(v, w, c) /\ x \in Conns
  BY AtFacts DEF Busy
<1>1. /\ At(v, n, c) /\ n.budget = w.budget
      /\ n.halted \/ n.conn[c] = y
  BY <1>0, ReregisterAt
<1>2. /\ y \in Conns /\ y.io = x.io /\ y.out = x.out
      /\ y.batch = x.batch /\ y.up = x.up /\ y.upReg = x.upReg /\ y.reuse = x.reuse
      /\ y.lease = x.lease /\ y.attempted = x.attempted /\ y.used = x.used
      /\ y.sent = x.sent /\ y.closeAfter = x.closeAfter /\ y.deadline = x.deadline
  <2> HIDE DEF x
  <2> QED
    BY <1>0 DEF Conns
<1>3. w.halted => n.halted
  BY DEF Reregister, Halt
<1> HIDE DEF n, y
<1>4. ASSUME Good(x, w.budget.held[c]), InUpstream(x)
      PROVE  Good(y, w.budget.held[c]) /\ InUpstream(y)
  <2>1. /\ y.upReg = {} \/ (y.up # NoUpstream /\ InUpstream(x))
        /\ y.clReg = {} \/ x.io.state # "Failed"
    BY <1>2, <1>4 DEF Good, Fit, Led, InUpstream
  <2>2. Fit(y, w.budget.held[c])
    BY <1>2, <1>4, <2>1, FitLike DEF Good
  <2> QED
    BY <1>2, <1>4, <2>2 DEF Good, Armed, InUpstream
<1>5. Busy(v, n, c)
  BY <1>1, <1>3, <1>4 DEF Busy
<1> QED
  BY <1>5 DEF n

(* Where the read loop stands: the connection is good and in its upstream  *)
(* state, a finished response was being read, a failure is recorded.       *)
Staged(v, r, c) ==
    /\ At(v, r.w, c) /\ Good(r.w.conn[c], r.w.budget.held[c]) /\ InUpstream(r.w.conn[c])
    /\ r.then \in {"more", "pause", "finish", "reply", "close"}
    /\ r.then = "finish" => r.w.conn[c].io.state = "ReadingUpstreamResponse"
    /\ r.then = "reply" => r.w.conn[c].io.attempt.terminal # "None"

(* A connection whose io changed within the upstream states stays armed.   *)
LEMMA StillGood ==
    ASSUME NEW x, NEW h, Good(x, h), InUpstream(x), NEW z \in IoRecords, NEW g,
           Fit(WithIo(x, z), g), InUpstream(WithIo(x, z))
    PROVE  Good(WithIo(x, z), g)
<1>1. x \in Conns
  BY DEF Good, Fit
<1>2. WithIo(x, z).closeAfter = x.closeAfter /\ WithIo(x, z).deadline = x.deadline
      /\ WithIo(x, z).io = z
  BY <1>1, WithIoFacts
<1>3. Armed(WithIo(x, z))
  BY <1>2 DEF Good, Armed, InUpstream, TimeoutKind
<1> QED
  BY <1>3 DEF Good

(* A response that is cut off.                                              *)
LEMMA LostStaged ==
    ASSUME NEW v, NEW w, NEW c, At(v, w, c), Good(w.conn[c], w.budget.held[c]),
           InUpstream(w.conn[c]), NEW early \in Failures, NEW late \in Failures
    PROVE  Staged(v, Lost(w, c, early, late), c)
<1> DEFINE x == w.conn[c]
           h == w.budget.held[c]
           f == IF x.io.attempt.started THEN late ELSE early
           z == FailUpstreamAttempt(x.io, f).io
           y == WithIo(x, z)
           n == SetIo(w, c, z)
           t == IF x.io.attempt.started THEN "close" ELSE "reply"
           r == Lost(w, c, early, late)
<1>1. f \in Failures /\ x \in Conns /\ Fit(x, h)
  BY DEF Good, Fit
<1>2. r = [w |-> n, then |-> t]
  BY DEF Lost
<1> HIDE DEF f
<1>3. Fit(y, h) /\ InUpstream(y) /\ z \in IoRecords /\ z.attempt.terminal # "None"
  BY <1>1, FailFit
<1> HIDE DEF z
<1>4. Good(y, h) /\ y.io = z
  BY <1>1, <1>3, StillGood, WithIoFacts
<1>5. At(v, n, c) /\ n.conn[c] = y /\ n.budget = w.budget
  BY <1>3, SetIoAt
<1> HIDE DEF n, y, r
<1>6. r.w = n /\ r.then = t
  BY <1>2
<1>7. Staged(v, r, c)
  BY <1>3, <1>4, <1>5, <1>6 DEF Staged
<1> QED
  BY <1>7 DEF r

(* Response bytes that were taken are charged.                              *)
LEMMA ChunkFit ==
    ASSUME NEW x, NEW h, Good(x, h), InUpstream(x), NEW n \in Nat, NEW g,
           NEW z, z = ReceiveUpstreamBytes(x.io, n).io, ReceiveUpstreamBytes(x.io, n).ok,
           g["response"] = h["response"] + n
    PROVE  /\ Fit(WithIo(x, z), g) /\ InUpstream(WithIo(x, z)) /\ z \in IoRecords
           /\ z.state = "ReadingUpstreamResponse"
<1> DEFINE y == WithIo(x, z)
<1>1. x \in Conns /\ Sound(x.io) /\ x.io.clientWrite \in Nat /\ x.batch \in Nat
  <2>1. x \in Conns /\ Sound(x.io)
    BY DEF Good, Fit
  <2> QED
    BY <2>1 DEF Conns, Sound, IoRecords
<1>2. /\ Sound(z) /\ x.io.state = "ReadingUpstreamResponse" /\ z.state = x.io.state
      /\ z.clientWrite = x.io.clientWrite + n
      /\ x.io.attempt.terminal = "None" /\ z.attempt.terminal = "None"
      /\ n = 0 => z.attempt = x.io.attempt
      /\ n # 0 => z.attempt.started
  BY <1>1, TakenFacts
<1>3. z \in IoRecords
  BY <1>2 DEF Sound
<1>4. /\ y \in Conns /\ y.io = z /\ y.out = x.out
      /\ y.batch = x.batch /\ y.up = x.up /\ y.upReg = x.upReg /\ y.clReg = x.clReg
      /\ y.reuse = x.reuse /\ y.lease = x.lease /\ y.attempted = x.attempted /\ y.used = x.used
      /\ y.sent = x.sent /\ y.closeAfter = x.closeAfter
  BY <1>1, <1>3, WithIoFacts
<1> HIDE DEF y
<1>5. InUpstream(y) /\ ~Readable(y) /\ ~Cut(y) /\ ~Cut(x)
  BY <1>2, <1>4 DEF InUpstream, Readable, Cut
<1>6. Fit(x, h)
  BY DEF Good
<1>7. Led(y) /\ Handed(y)
  BY <1>2, <1>4, <1>5, <1>6 DEF Fit, Led, Handed
<1>8. h["response"] = x.io.clientWrite + x.batch /\ x.out <= x.batch
      /\ ~(x.out = 0 /\ x.batch # 0)
  BY <1>5, <1>6 DEF Fit, Owned
<1>9. Unanswered(y) => Quiet(y, g)
  <2>1. SUFFICES ASSUME Unanswered(y) PROVE Quiet(y, g)
    OBVIOUS
  <2>2. n = 0 /\ ~z.attempt.started
    BY <1>2, <1>4, <2>1 DEF Unanswered
  <2>3. Unanswered(x)
    BY <1>2, <2>2 DEF Unanswered
  <2>4. Quiet(x, h)
    BY <1>6, <2>3 DEF Fit, Owned
  <2> QED
    BY <1>2, <1>4, <2>2, <2>4 DEF Quiet
<1>10. Owned(y, g)
  <2>1. g["response"] = y.io.clientWrite + y.batch
    BY <1>1, <1>2, <1>4, <1>8
  <2> QED
    BY <1>2, <1>4, <1>8, <1>9, <2>1 DEF Owned
<1> QED
  BY <1>2, <1>3, <1>4, <1>5, <1>7, <1>10 DEF Fit, y

(* A piece of the response, taken or refused.                               *)
LEMMA ChunkStaged ==
    ASSUME NEW v, NEW w, NEW c, At(v, w, c), Good(w.conn[c], w.budget.held[c]),
           InUpstream(w.conn[c]), NEW n \in Nat, NEW complete \in BOOLEAN
    PROVE  Staged(v, TakeResponseChunk(w, c, n, complete), c)
<1> DEFINE x == w.conn[c]
           h == w.budget.held[c]
           R == ReceiveUpstreamBytes(x.io, n)
           T == BudgetSetResponse(w.budget, c, h["response"] + n, R.ok)
           m == SetBudget(w, T.budget)
           z == R.io
           q == SetIo(m, c, z)
           r == TakeResponseChunk(w, c, n, complete)
<1>1. c \in Owners /\ x \in Conns /\ Accounted(w.budget) /\ h \in [Slots -> Nat] /\ Sound(x.io)
  BY AtFacts DEF Good, Fit
<1>2. h["response"] + n \in Nat
  BY <1>1 DEF Slots
<1>3. R.ok \in BOOLEAN
  BY <1>1, TakenFacts
<1>4. OneSlot(w.budget, T, c, "response", h["response"] + n) /\ (T.ok => R.ok)
  BY <1>1, <1>2, <1>3, SetResponseCharged
<1>5. r = IF T.ok THEN ChunkTaken(q, c, complete)
          ELSE Lost(m, c, "Read", "ResetAfterResponse")
  BY DEF TakeResponseChunk
<1> HIDE DEF T, r
<1>6. /\ Accounted(T.budget) /\ \A d \in Owners \ {c} : T.budget.held[d] = w.budget.held[d]
      /\ T.ok \in BOOLEAN
      /\ T.budget.held[c]["response"] = IF T.ok THEN h["response"] + n ELSE h["response"]
  BY <1>4 DEF OneSlot, Charged
<1>7. At(v, m, c) /\ m.conn = w.conn /\ m.budget = T.budget
  BY <1>6, BudgetAt
<1> HIDE DEF m
<1>8. CASE ~T.ok
  <2>1. Good(m.conn[c], m.budget.held[c])
    BY <1>6, <1>7, <1>8, FitSlots DEF Good
  <2>2. "Read" \in Failures /\ "ResetAfterResponse" \in Failures
    BY DEF Failures
  <2>3. Staged(v, Lost(m, c, "Read", "ResetAfterResponse"), c)
    BY <1>7, <2>1, <2>2, LostStaged
  <2> QED
    BY <1>5, <1>8, <2>3 DEF r
<1>9. CASE T.ok
  <2> DEFINE y == WithIo(x, z)
  <2>1. R.ok /\ m.budget.held[c]["response"] = h["response"] + n
    BY <1>4, <1>6, <1>7, <1>9
  <2>2. /\ Fit(y, m.budget.held[c]) /\ InUpstream(y) /\ z \in IoRecords
        /\ z.state = "ReadingUpstreamResponse"
    BY <2>1, ChunkFit
  <2> HIDE DEF z
  <2>3. Good(y, m.budget.held[c]) /\ y.io = z
    BY <1>1, <2>2, StillGood, WithIoFacts
  <2>4. At(v, q, c) /\ q.conn[c] = y /\ q.budget = m.budget
    BY <1>7, <2>2, SetIoAt
  <2> DEFINE t == CASE complete -> "finish"
                    [] ~complete /\ Buffered(q.conn[c]) >= MaxResponseBuffer -> "pause"
                    [] OTHER -> "more"
  <2>5. r = [w |-> q, then |-> t]
    BY <1>5, <1>9 DEF ChunkTaken
  <2>6. t \in {"more", "pause", "finish"}
    OBVIOUS
  <2> HIDE DEF q, y, t
  <2>7. r.w = q /\ r.then = t
    BY <2>5
  <2>8. Staged(v, r, c)
    BY <2>2, <2>3, <2>4, <2>6, <2>7 DEF Staged
  <2> QED
    BY <2>8 DEF r
<1> QED
  BY <1>6, <1>8, <1>9

(* What ends a round of reading.                                            *)
LEMMA EndStaged ==
    ASSUME NEW v, NEW w, NEW c, At(v, w, c), Good(w.conn[c], w.budget.held[c]),
           InUpstream(w.conn[c]), NEW end \in ResponseEnds
    PROVE  Staged(v, TakeResponseEnd(w, c, end), c)
<1> DEFINE x == w.conn[c]
           r == TakeResponseEnd(w, c, end)
<1>0. "Read" \in Failures /\ "ResetAfterResponse" \in Failures /\ "ResetBeforeResponse" \in Failures
  BY DEF Failures
<1>1. CASE end = "block"
  <2>1. r = [w |-> w, then |-> "more"]
    BY <1>1 DEF TakeResponseEnd
  <2> HIDE DEF r
  <2>2. r.w = w /\ r.then = "more"
    BY <2>1
  <2>3. Staged(v, r, c)
    BY <2>2 DEF Staged
  <2> QED
    BY <2>3 DEF r
<1>2. CASE end \in {"header", "done_keep", "done_close"}
  <2> DEFINE n == IF end = "header" THEN 0 ELSE 1
             b == end # "header"
  <2>1. r = TakeResponseChunk(w, c, n, b)
    BY <1>2 DEF TakeResponseEnd
  <2>2. n \in Nat /\ b \in BOOLEAN
    OBVIOUS
  <2> HIDE DEF n, b
  <2> QED
    BY <2>1, <2>2, ChunkStaged
<1>3. CASE end = "eof" /\ x.io.attempt.started
  <2>1. r = [w |-> w, then |-> "finish"]
    BY <1>3 DEF TakeResponseEnd
  <2>2. x.io.state = "ReadingUpstreamResponse"
    BY <1>3 DEF Good, Fit, Sound, Coherent, InUpstream
  <2> HIDE DEF r
  <2>3. r.w = w /\ r.then = "finish"
    BY <2>1
  <2>4. Staged(v, r, c)
    BY <2>2, <2>3 DEF Staged
  <2> QED
    BY <2>4 DEF r
<1>4. CASE end = "error"
  <2>1. r = Lost(w, c, "Read", "ResetAfterResponse")
    BY <1>4 DEF TakeResponseEnd
  <2> QED
    BY <1>0, <2>1, LostStaged
<1>5. CASE end = "eof_early" \/ (end = "eof" /\ ~x.io.attempt.started)
  <2>1. r = Lost(w, c, "ResetBeforeResponse", "ResetAfterResponse")
    BY <1>5 DEF TakeResponseEnd
  <2> QED
    BY <1>0, <2>1, LostStaged
<1> QED
  BY <1>1, <1>2, <1>3, <1>4, <1>5 DEF ResponseEnds

(* The connection whose response is finished: it owns what it owned, and   *)
(* its upstream socket is dropped or left unused.                          *)
LEMMA FinishFit ==
    ASSUME NEW x, NEW h, Fit(x, h), x.io.state = "ReadingUpstreamResponse", x.upReg = {},
           NEW r, r = FinishUpstreamResponse(x.io)
    PROVE  /\ Fit(WithIo(x, r.io), h) /\ r.io \in IoRecords /\ r.ok \in BOOLEAN
           /\ WithIo(x, r.io) \in Conns /\ WithIo(x, r.io).lease = x.lease
           /\ WithIo(x, r.io).io.state = "WritingClientResponse"
<1> DEFINE z == r.io
           y == WithIo(x, z)
<1>1. x \in Conns /\ Sound(x.io)
  BY DEF Fit
<1>2. /\ Sound(z) /\ r.ok \in BOOLEAN /\ z.state = "WritingClientResponse"
      /\ z.clientWrite = x.io.clientWrite
      /\ r.ok => x.io.attempt.terminal = "None" /\ z.attempt.terminal = "Succeeded"
      /\ ~r.ok => z.attempt = x.io.attempt
  BY <1>1, FinishFacts
<1>3. z \in IoRecords
  BY <1>2 DEF Sound
<1> HIDE DEF z
<1>4. /\ y \in Conns /\ y.io = z /\ y.out = x.out
      /\ y.batch = x.batch /\ y.up = x.up /\ y.upReg = x.upReg /\ y.clReg = x.clReg
      /\ y.reuse = x.reuse /\ y.lease = x.lease /\ y.attempted = x.attempted /\ y.used = x.used
      /\ y.sent = x.sent /\ y.closeAfter = x.closeAfter
  BY <1>1, <1>3, WithIoFacts
<1> HIDE DEF y
<1>5. ~InUpstream(y) /\ ~Readable(y) /\ ~Unanswered(y)
  BY <1>2, <1>4 DEF InUpstream, Readable, Unanswered
<1>6. Cut(x) <=> Cut(y)
  <2>1. CASE r.ok
    BY <1>2, <1>4, <2>1 DEF Cut
  <2>2. CASE ~r.ok
    BY <1>2, <1>4, <2>2 DEF Cut
  <2> QED
    BY <1>2, <2>1, <2>2
<1>7. Led(y) /\ Handed(y)
  BY <1>2, <1>4, <1>5 DEF Fit, Led, Handed
<1>8. Owned(y, h)
  BY <1>2, <1>4, <1>5, <1>6 DEF Fit, Owned
<1>9. Fit(y, h)
  BY <1>2, <1>4, <1>7, <1>8 DEF Fit
<1> QED
  BY <1>2, <1>3, <1>4, <1>9 DEF y, z

(* deactivate_upstream_for_reuse *)
LEMMA DeactivateAt ==
    ASSUME NEW v, NEW w, NEW c, At(v, w, c), Fit(w.conn[c], w.budget.held[c]),
           NEW n, n = DeactivateUpstream(w, c)
    PROVE  /\ At(v, n, c) /\ n.budget = w.budget /\ Fit(n.conn[c], n.budget.held[c])
           /\ n.conn[c].upReg = {} /\ n.conn[c].io = w.conn[c].io
<1> DEFINE x == w.conn[c]
           y == [x EXCEPT !.upReg = {}]
<1>1. x \in Conns
  BY DEF Fit
<1>2. /\ y \in Conns /\ y.io = x.io /\ y.out = x.out
      /\ y.batch = x.batch /\ y.up = x.up /\ y.upReg = {} /\ y.clReg = x.clReg
      /\ y.reuse = x.reuse /\ y.lease = x.lease /\ y.attempted = x.attempted /\ y.used = x.used
      /\ y.sent = x.sent /\ y.closeAfter = x.closeAfter
  <2> HIDE DEF x
  <2> QED
    BY <1>1 DEF Conns
<1>3. n = Put(w, c, y)
  BY DEF DeactivateUpstream, Put
<1> HIDE DEF y
<1>4. At(v, n, c) /\ n.conn[c] = y /\ n.budget = w.budget
  BY <1>2, <1>3, PutAt
<1>5. y.clReg = {} \/ x.io.state # "Failed"
  BY <1>2 DEF Fit, Owned
<1>6. Fit(y, w.budget.held[c])
  BY <1>2, <1>5, FitLike
<1> QED
  BY <1>2, <1>4, <1>6

(* The end of the response keeps the socket only if the response allows     *)
(* it.                                                                      *)
LEMMA FinishDone ==
    ASSUME NEW v, NEW w, NEW c, At(v, w, c), Fit(w.conn[c], w.budget.held[c]),
           w.conn[c].io.state = "ReadingUpstreamResponse", NEW reusable \in BOOLEAN
    PROVE  Done(v, FinishResponse(w, c, reusable), c, TRUE)
<1> DEFINE x == w.conn[c]
           retain == reusable /\ x.reuse # NoUpstream /\ ~x.closeAfter /\ ~x.closeClient
           m == IF retain THEN DeactivateUpstream(w, c) ELSE DropUpstream(w, c)
           r == FinishUpstreamResponse(x.io)
           y == WithIo(m.conn[c], r.io)
           n == FinishResponse(w, c, reusable)
<1>1. /\ At(v, m, c) /\ m.budget = w.budget /\ Fit(m.conn[c], m.budget.held[c])
      /\ m.conn[c].upReg = {} /\ m.conn[c].io = x.io
  <2>1. CASE retain
    <3>1. m = DeactivateUpstream(w, c)
      BY <2>1
    <3> HIDE DEF m
    <3> QED
      BY <3>1, DeactivateAt
  <2>2. CASE ~retain
    <3>1. m = DropUpstream(w, c)
      BY <2>2
    <3> HIDE DEF m
    <3> QED
      BY <3>1, DropAt
  <2> QED
    BY <2>1, <2>2
<1>2. n = IF ~r.ok THEN Put(m, c, GiveUp(y)) ELSE Reregister(Put(m, c, Refresh(y)), c, {"w"})
  BY DEF FinishResponse, WithIo
<1> HIDE DEF m, n
<1>3. /\ Fit(y, m.budget.held[c]) /\ r.ok \in BOOLEAN /\ y \in Conns /\ y.lease = m.conn[c].lease
      /\ y.io.state = "WritingClientResponse"
  BY <1>1, FinishFit
<1> HIDE DEF y
<1>4. CASE ~r.ok
  <2> DEFINE g == GiveUp(y)
  <2>1. Good(g, m.budget.held[c]) /\ g.lease = y.lease
    BY <1>3, GiveUpGood
  <2>2. n = Put(m, c, g)
    BY <1>2, <1>4
  <2> HIDE DEF g
  <2>3. Done(v, Put(m, c, g), c, TRUE)
    BY <1>1, <1>3, <2>1, PutDone
  <2> QED
    BY <2>2, <2>3 DEF n
<1>5. CASE r.ok
  <2> DEFINE g == Refresh(y)
             p == Put(m, c, g)
  <2>1. TimeoutKind(y.io.state) # "None"
    BY <1>3 DEF TimeoutKind
  <2>2. Good(g, m.budget.held[c]) /\ g.lease = y.lease /\ g \in Conns
    BY <1>3, <2>1, RefreshGood
  <2>3. n = Reregister(p, c, {"w"})
    BY <1>2, <1>5
  <2> HIDE DEF g
  <2>4. At(v, p, c) /\ p.conn[c] = g /\ p.budget = m.budget
    BY <1>1, <1>3, <2>2, PutAt
  <2> HIDE DEF p
  <2>5. Done(v, Reregister(p, c, {"w"}), c, TRUE)
    BY <2>2, <2>4, ReregisterDone
  <2> QED
    BY <2>3, <2>5 DEF n
<1> QED
  BY <1>3, <1>4, <1>5

(* read_upstream leaves the connection in order after a round.              *)
LEMMA ResponseReadDone ==
    ASSUME NEW v, NEW l, NEW c, Staged(v, l, c), NEW before, NEW reusable \in BOOLEAN
    PROVE  Done(v, ResponseRead(l, c, before, reusable), c, TRUE)
<1> DEFINE m == l.w
           x == m.conn[c]
           d == DropUpstream(m, c)
           n == ResponseRead(l, c, before, reusable)
<1>1. /\ At(v, m, c) /\ Good(x, m.budget.held[c]) /\ InUpstream(x) /\ Fit(x, m.budget.held[c])
      /\ l.then \in {"more", "pause", "finish", "reply", "close"}
      /\ l.then = "finish" => x.io.state = "ReadingUpstreamResponse"
      /\ l.then = "reply" => x.io.attempt.terminal # "None"
  BY DEF Staged, Good
<1>2. n = CASE l.then = "close"  -> RemoveConnection(d, c)
            [] l.then = "reply"  -> QueueClientResponse(d, c)
            [] l.then = "finish" -> FinishResponse(m, c, reusable)
            [] l.then = "pause"  -> RefreshDeadline(ReconcileRead(TellClient(m, c, before), c), c)
            [] l.then = "more"   -> RefreshDeadline(TellClient(m, c, before), c)
  BY DEF ResponseRead
<1>3. /\ At(v, d, c) /\ d.conn[c].up = NoUpstream /\ d.conn[c].upReg = {} /\ d.conn[c].io = x.io
      /\ Fit(d.conn[c], d.budget.held[c])
  <2>1. d = DropUpstream(m, c)
    OBVIOUS
  <2> HIDE DEF d, m
  <2> QED
    BY <1>1, <2>1, DropAt
<1>4. Busy(v, TellClient(m, c, before), c)
  <2>1. Busy(v, m, c)
    BY <1>1 DEF Busy
  <2>2. Busy(v, Reregister(m, c, {"w"}), c)
    BY <2>1, BusyReregister
  <2> QED
    BY <2>1, <2>2 DEF TellClient
<1> HIDE DEF m, d, n
<1>5. CASE l.then = "close"
  BY <1>2, <1>3, <1>5, RemoveDone DEF n
<1>6. CASE l.then = "reply"
  <2>1. InUpstream(d.conn[c]) /\ d.conn[c].io.attempt.terminal # "None"
    BY <1>1, <1>3, <1>6 DEF InUpstream
  <2>2. Done(v, QueueClientResponse(d, c), c, TRUE)
    BY <1>3, <2>1, ReplyDone
  <2> QED
    BY <1>2, <1>6, <2>2 DEF n
<1>7. CASE l.then = "finish"
  BY <1>1, <1>2, <1>7, FinishDone DEF n
<1>8. CASE l.then = "pause"
  <2>1. Done(v, RefreshDeadline(ReconcileRead(TellClient(m, c, before), c), c), c, TRUE)
    BY <1>4, BusyReconcile, BusyRefresh, BusyDone
  <2> QED
    BY <1>2, <1>8, <2>1 DEF n
<1>9. CASE l.then = "more"
  <2>1. Done(v, RefreshDeadline(TellClient(m, c, before), c), c, TRUE)
    BY <1>4, BusyRefresh, BusyDone
  <2> QED
    BY <1>2, <1>9, <2>1 DEF n
<1> QED
  BY <1>1, <1>5, <1>6, <1>7, <1>8, <1>9

(* read_upstream, of a response                                            *)
LEMMA ReadResponseDone ==
    ASSUME NEW w, NEW c, At(w, w, c), Good(w.conn[c], w.budget.held[c]),
           InUpstream(w.conn[c]), NEW part \in BOOLEAN, NEW end \in ResponseEnds
    PROVE  Done(w, ReadResponse(w, c, part, end), c, TRUE)
<1> DEFINE f == IF part THEN TakeResponseChunk(w, c, 1, FALSE) ELSE [w |-> w, then |-> "more"]
           l == ThenEnd(f, c, end)
           b == end = "done_keep"
<1>1. Staged(w, f, c)
  <2>1. CASE part
    <3>1. f = TakeResponseChunk(w, c, 1, FALSE)
      BY <2>1
    <3>2. Staged(w, TakeResponseChunk(w, c, 1, FALSE), c)
      BY ChunkStaged
    <3> QED
      BY <3>1, <3>2
  <2>2. CASE ~part
    <3>1. f = [w |-> w, then |-> "more"]
      BY <2>2
    <3> HIDE DEF f
    <3>2. f.w = w /\ f.then = "more"
      BY <3>1
    <3>3. Staged(w, f, c)
      BY <3>2 DEF Staged
    <3> QED
      BY <3>3 DEF f
  <2> QED
    BY <2>1, <2>2
<1> HIDE DEF f
<1>2. Staged(w, l, c)
  <2>1. Staged(w, TakeResponseEnd(f.w, c, end), c)
    BY <1>1, EndStaged DEF Staged
  <2> QED
    BY <1>1, <2>1 DEF ThenEnd
<1> HIDE DEF l
<1>3. b \in BOOLEAN
  OBVIOUS
<1>4. ReadResponse(w, c, part, end) = ResponseRead(l, c, w.conn[c].io.clientWrite, b)
  BY DEF ReadResponse, f, l
<1> HIDE DEF b
<1> QED
  BY <1>2, <1>3, <1>4, ResponseReadDone

(* Registering the upstream socket again, or ending the loop.               *)
LEMMA ReregisterUpstreamDone ==
    ASSUME NEW v, NEW w, NEW c, At(v, w, c), Good(w.conn[c], w.budget.held[c]),
           InUpstream(w.conn[c]), NEW i \in SUBSET {"r", "w"}, NEW kept
    PROVE  Done(v, ReregisterUpstream(w, c, i), c, kept)
<1> DEFINE x == w.conn[c]
           h == w.budget.held[c]
           y == [x EXCEPT !.upReg = i]
           n == ReregisterUpstream(w, c, i)
<1>0. x \in Conns /\ Fit(x, h)
  BY DEF Good, Fit
<1>1. CASE x.upReg = {}
  <2>1. n = Halt(w)
    BY <1>1 DEF ReregisterUpstream
  <2> QED
    BY <2>1, HaltDone
<1>2. CASE x.upReg # {}
  <2>1. x.up # NoUpstream
    BY <1>0, <1>2 DEF Fit, Led
  <2>2. n = Put(w, c, y)
    BY <1>2 DEF ReregisterUpstream, Put
  <2>3. /\ y \in Conns /\ y.io = x.io /\ y.out = x.out
        /\ y.batch = x.batch /\ y.up = x.up /\ y.upReg = i /\ y.clReg = x.clReg
        /\ y.reuse = x.reuse /\ y.lease = x.lease /\ y.attempted = x.attempted /\ y.used = x.used
        /\ y.sent = x.sent /\ y.closeAfter = x.closeAfter /\ y.deadline = x.deadline
    <3> HIDE DEF x
    <3> QED
      BY <1>0 DEF Conns
  <2> HIDE DEF y, n
  <2>4. y.clReg = {} \/ x.io.state # "Failed"
    BY <1>0, <2>3 DEF Fit, Owned
  <2>5. Fit(y, h)
    BY <1>0, <2>1, <2>3, <2>4, FitLike
  <2>6. Good(y, h) /\ ~Kept(y)
    BY <2>3, <2>5 DEF Good, Armed, Kept, InUpstream
  <2>7. Done(v, n, c, kept)
    BY <2>2, <2>3, <2>6, PutDone
  <2> QED
    BY <2>7 DEF n
<1> QED
  BY <1>1, <1>2

(* read_upstream_tls_handshake *)
LEMMA ReadTlsDone ==
    ASSUME NEW w, NEW c, At(w, w, c), Good(w.conn[c], w.budget.held[c]),
           w.conn[c].io.state = "HandshakingUpstreamTls",
           NEW end \in {"block", "flight", "established", "fail"}, NEW s \in RetryScripts, NEW kept
    PROVE  Done(w, ReadTlsHandshake(w, c, end, s), c, kept)
<1> DEFINE x == w.conn[c]
           h == w.budget.held[c]
           k == IF x.upOut = 0 THEN 1 ELSE x.upOut
           a == [x EXCEPT !.upOut = k]
           z == UpstreamConnected(x.io, WireUnits).io
           d == [a EXCEPT !.wire = FALSE, !.io = z]
           n == ReadTlsHandshake(w, c, end, s)
<1>1. x \in Conns /\ Sound(x.io) /\ Fit(x, h) /\ InUpstream(x) /\ x.upOut \in Nat
  <2>1. x \in Conns /\ Sound(x.io) /\ Fit(x, h) /\ InUpstream(x)
    BY DEF Good, Fit, InUpstream
  <2> QED
    BY <2>1 DEF Conns
<1>2. CASE end = "fail"
  <2> DEFINE r == Failed(x, "TlsHandshake")
             m == Put(w, c, r.x)
  <2>1. n = RetryOrReply(DropUpstream(m, c), c, "TlsHandshake", s)
    BY <1>2 DEF ReadTlsHandshake
  <2>2. "TlsHandshake" \in Failures
    BY DEF Failures
  <2>3. Works(x, h, r)
    BY <1>1, <2>2, FailedWorks
  <2>4. r.why = "TlsHandshake"
    BY DEF Failed
  <2> DEFINE y == r.x
  <2>5. y \in Conns /\ y.lease = x.lease /\ Fit(y, h) /\ InUpstream(y)
        /\ y.io.attempt.terminal # "None"
    BY <2>3, <2>4 DEF Works, Fit
  <2>6. m = Put(w, c, y)
    OBVIOUS
  <2> HIDE DEF y, m, r, n
  <2>7. At(w, m, c) /\ m.conn[c] = y /\ m.budget = w.budget
    BY <2>5, <2>6, PutAt
  <2>8. Done(w, RetryOrReply(DropUpstream(m, c), c, "TlsHandshake", s), c, kept)
    BY <2>5, <2>7, FailedDone
  <2> QED
    BY <2>1, <2>8 DEF n
<1>3. CASE end # "fail"
  <2> DEFINE y == IF end = "block" THEN x ELSE IF end = "flight" THEN a ELSE d
             q == Refresh(y)
             m == Put(w, c, q)
             i == UpstreamInterest(y)
  <2>1. n = ReregisterUpstream(m, c, i)
    <3>1. a.io = x.io
      BY <1>1 DEF Conns
    <3>2. d = [a EXCEPT !.wire = FALSE, !.io = UpstreamConnected(@, WireUnits).io]
      BY <3>1
    <3> HIDE DEF d
    <3> QED
      BY <1>3, <3>2 DEF ReadTlsHandshake
  <2>2. k \in Nat
    BY <1>1
  <2> HIDE DEF k
  <2>3. Fit(a, h) /\ InUpstream(a) /\ a.up = x.up /\ a.lease = x.lease /\ a.io = x.io
    BY <1>1, <2>2, OutFit DEF Conns
  <2> HIDE DEF a
  <2>4. Fit(d, h) /\ InUpstream(d) /\ d.up = a.up /\ d.lease = a.lease
    <3>1. /\ Sound(z) /\ z.state = "WritingUpstreamRequest" /\ z.clientWrite = x.io.clientWrite
          /\ z.attempt = x.io.attempt
      BY <1>1, ConnectedFacts, RuntimeAssumption
    <3>2. z \in IoRecords /\ a \in Conns
      BY <2>3, <3>1 DEF Sound, Fit
    <3> HIDE DEF z
    <3>3. /\ d \in Conns /\ d.io = z /\ d.out = a.out
          /\ d.batch = a.batch /\ d.up = a.up /\ d.upReg = a.upReg /\ d.clReg = a.clReg
          /\ d.reuse = a.reuse /\ d.lease = a.lease /\ d.attempted = a.attempted /\ d.used = a.used
          /\ d.sent = a.sent /\ d.closeAfter = a.closeAfter
      BY <3>2 DEF Conns
    <3>4. a.io.state \in BeforeResponse /\ z.state \in BeforeResponse
      BY <2>3, <3>1 DEF BeforeResponse
    <3> HIDE DEF d
    <3> QED
      BY <2>3, <3>1, <3>3, <3>4, ProgressFit
  <2> HIDE DEF d
  <2>5. Fit(y, h) /\ InUpstream(y) /\ y.lease = x.lease
    BY <1>1, <2>3, <2>4
  <2>6. i \in SUBSET {"r", "w"}
    BY InterestTyped
  <2> HIDE DEF y, i
  <2>7. TimeoutKind(y.io.state) # "None"
    BY <2>5 DEF InUpstream, TimeoutKind
  <2>8. Good(q, h) /\ q \in Conns /\ q.lease = y.lease /\ q.io = y.io
    BY <2>5, <2>7, RefreshGood
  <2> HIDE DEF q
  <2>9. At(w, m, c) /\ m.conn[c] = q /\ m.budget = w.budget
    BY <2>5, <2>8, PutAt
  <2> HIDE DEF m, n
  <2>10. InUpstream(q)
    BY <2>5, <2>8 DEF InUpstream
  <2>11. Done(w, ReregisterUpstream(m, c, i), c, kept)
    BY <2>6, <2>8, <2>9, <2>10, ReregisterUpstreamDone
  <2> QED
    BY <2>1, <2>11 DEF n
<1> QED
  BY <1>2, <1>3

-----------------------------------------------------------------------------
(* Writing the client.                                                     *)

(* advance_client_write of everything that is buffered                     *)
LEMMA AdvanceFacts ==
    ASSUME NEW z, Sound(z), NEW r, r = AdvanceClientWrite(z, z.clientWrite),
           z.state \in {"ReadingUpstreamResponse", "WritingClientResponse"}
    PROVE  /\ Sound(r.io) /\ r.io.state = z.state /\ r.io.attempt = z.attempt
           /\ r.io.clientWrite = 0 /\ r.ok
<1> DEFINE y == [z EXCEPT !.clientWrite = 0]
<1>0. z \in IoRecords /\ z.clientWrite \in Nat
  BY DEF Sound, IoRecords
<1>1. r = [ok |-> TRUE, io |-> y]
  <2> DEFINE k == IF z.clientWrite < z.clientWrite THEN z.clientWrite - z.clientWrite ELSE 0
  <2>1. k = 0
    BY <1>0
  <2>2. r = [ok |-> TRUE, io |-> [z EXCEPT !.clientWrite = k]]
    BY DEF AdvanceClientWrite, Okay
  <2> HIDE DEF k
  <2> QED
    BY <2>1, <2>2
<1>2. /\ y \in IoRecords /\ y.attempt = z.attempt /\ y.state = z.state
      /\ y.upstreamWrite = z.upstreamWrite /\ y.clientWrite = 0
  BY <1>0 DEF IoRecords
<1> HIDE DEF y
<1>3. Sound(y)
  BY <1>2 DEF Sound, Coherent
<1> QED
  BY <1>1, <1>2, <1>3

(* finish_client_response when everything is written *)
LEMMA FinishedFacts ==
    ASSUME NEW z, Sound(z), z.state = "WritingClientResponse", z.clientWrite = 0
    PROVE  /\ Sound(FinishClientResponse(z, TRUE).io) /\ FinishClientResponse(z, TRUE).ok
           /\ FinishClientResponse(z, TRUE).io.state = "ReadingClientRequest"
           /\ FinishClientResponse(z, TRUE).io.attempt = FreshAttempt
           /\ FinishClientResponse(z, TRUE).io.clientWrite = 0
           /\ Sound(FinishClientResponse(z, FALSE).io)
           /\ FinishClientResponse(z, FALSE).io.state = "Draining"
           /\ FinishClientResponse(z, FALSE).io.attempt = z.attempt
           /\ FinishClientResponse(z, FALSE).io.clientWrite = 0
<1> DEFINE y == Restart(z, FreshAttempt)
           k == FinishClientResponse(z, TRUE)
           d == FinishClientResponse(z, FALSE)
<1>0. /\ z \in IoRecords /\ z.state \in ConnectionStates
      /\ "Draining" \in ConnectionStates /\ "ReadingClientRequest" \in ConnectionStates
  BY DEF Sound, IoRecords, ConnectionStates
<1>1. Sound(k.io) /\ Sound(d.io)
  BY FinishClientSound
<1>2. d = HandleEvent(z, "ClientWritable")
  BY DEF FinishClientResponse
<1>3. k = HandleEvent(y, "ClientResponseCompleted")
  BY DEF FinishClientResponse, Restart
<1>4. /\ y \in IoRecords /\ y.state = z.state /\ y.attempt = FreshAttempt
  BY <1>0, FreshFacts, RestartFacts
<1>5. y.clientWrite = 0
  BY <1>0 DEF Restart, IoRecords
<1> HIDE DEF y, k, d
<1>6. /\ EventTarget(z.state, "ClientWritable") = "Draining"
      /\ EventTarget(y.state, "ClientResponseCompleted") = "ReadingClientRequest"
      /\ CanTransitionTo(z.state, "Draining") /\ CanTransitionTo(y.state, "ReadingClientRequest")
  <2>1. EventTarget(z.state, "ClientWritable") = "Draining"
    BY EventTable
  <2>2. EventTarget(y.state, "ClientResponseCompleted") =
           IF y.state = "WritingClientResponse" THEN "ReadingClientRequest" ELSE ""
    BY EventTable
  <2>3. CanTransitionTo("WritingClientResponse", "Draining")
        /\ CanTransitionTo("WritingClientResponse", "ReadingClientRequest")
    BY DEF CanTransitionTo
  <2> QED
    BY <1>4, <2>1, <2>2, <2>3
<1>7. d.io.state = "Draining" /\ SameButState(z, d.io)
  BY <1>0, <1>2, <1>6, EventAccepted
<1>8. k.ok /\ k.io.state = "ReadingClientRequest" /\ SameButState(y, k.io)
  BY <1>0, <1>3, <1>4, <1>6, EventAccepted
<1> QED
  BY <1>1, <1>4, <1>5, <1>7, <1>8 DEF SameButState, k, d

(* What a connection whose response is written starts the next request     *)
(* with.                                                                   *)
Renewed(x) ==
    [x EXCEPT !.io = FinishClientResponse(x.io, TRUE).io, !.lease = NoUpstream,
              !.closeClient = FALSE, !.wire = FALSE, !.pendTls = FALSE, !.upOut = 0,
              !.attempted = {}, !.used = 0]
(* A connection renewed for the next request owns no response byte and has  *)
(* no lease.                                                                *)
LEMMA RenewedFit ==
    ASSUME NEW x, NEW h, Fit(x, h), x.io.state = "WritingClientResponse",
           x.io.clientWrite = 0, x.out = 0, ~x.closeAfter, NEW g, g["response"] = 0
    PROVE  /\ Renewed(x) \in Conns /\ Fit(Renewed(x), g) /\ Renewed(x).lease = NoUpstream
           /\ Renewed(x).up = x.up /\ Renewed(x).io.state = "ReadingClientRequest"
<1> DEFINE z == FinishClientResponse(x.io, TRUE).io
           y == [x EXCEPT !.io = z, !.lease = NoUpstream,
              !.closeClient = FALSE, !.wire = FALSE, !.pendTls = FALSE, !.upOut = 0,
              !.attempted = {}, !.used = 0]
<1>1. x \in Conns /\ Sound(x.io)
  BY DEF Fit
<1>2. /\ Sound(z) /\ z.state = "ReadingClientRequest" /\ z.attempt = FreshAttempt
      /\ z.clientWrite = 0
  BY <1>1, FinishedFacts
<1>3. z \in IoRecords
  BY <1>2 DEF Sound
<1>4. Renewed(x) = y
  BY DEF Renewed
<1> HIDE DEF z
<1>5. /\ y \in Conns /\ y.io = z /\ y.out = x.out /\ y.batch = x.batch /\ y.up = x.up
      /\ y.upReg = x.upReg /\ y.clReg = x.clReg /\ y.reuse = x.reuse /\ y.lease = NoUpstream
      /\ y.sent = x.sent /\ y.closeAfter = x.closeAfter
  BY <1>1, <1>3 DEF Conns, Peers
<1> HIDE DEF y
<1>6. x.upReg = {} /\ x.batch = 0
  BY <1>1 DEF Fit, Led, InUpstream, Owned, Conns
<1>7. Led(y)
  BY <1>2, <1>5, <1>6 DEF Fit, Led, InUpstream
<1>8. Handed(y)
  BY <1>2, <1>5 DEF Fit, Handed
<1>9. Owned(y, g)
  <2>1. Quiet(y, g)
    BY <1>2, <1>5, <1>6 DEF Quiet
  <2> QED
    BY <1>2, <1>5, <1>6, <2>1 DEF Owned, Quiet
<1> QED
  BY <1>2, <1>4, <1>5, <1>7, <1>8, <1>9 DEF Fit

(* The response is written and the connection is to be closed.             *)
LEMMA EndedGood ==
    ASSUME NEW x, NEW h, Fit(x, h), x.io.state = "WritingClientResponse",
           x.io.clientWrite = 0, NEW y, y = WithIo(GiveUp(x), FinishClientResponse(x.io, FALSE).io)
    PROVE  Good(y, h) /\ y.lease = x.lease /\ y.up = x.up
<1> DEFINE z == FinishClientResponse(x.io, FALSE).io
           q == GiveUp(x)
<1>1. x \in Conns /\ Sound(x.io)
  BY DEF Fit
<1>2. Sound(z) /\ z.state = "Draining" /\ z.attempt = x.io.attempt /\ z.clientWrite = 0
  BY <1>1, FinishedFacts
<1>3. z \in IoRecords
  BY <1>2 DEF Sound
<1>4. /\ q \in Conns /\ q.io = x.io /\ q.out = x.out
      /\ q.batch = x.batch /\ q.up = x.up /\ q.upReg = x.upReg
      /\ q.clReg = x.clReg /\ q.reuse = x.reuse /\ q.lease = x.lease
      /\ q.attempted = x.attempted /\ q.used = x.used
      /\ q.sent = x.sent /\ q.closeAfter
  BY <1>1, GiveUpFacts
<1> HIDE DEF z, q
<1>5. /\ y \in Conns /\ y.io = z /\ y.out = x.out /\ y.batch = x.batch /\ y.up = x.up
      /\ y.upReg = x.upReg /\ y.clReg = x.clReg /\ y.reuse = x.reuse /\ y.lease = x.lease
      /\ y.attempted = x.attempted /\ y.used = x.used /\ y.sent = x.sent /\ y.closeAfter
  BY <1>3, <1>4, WithIoFacts DEF q, z
<1>6. x.upReg = {}
  BY <1>1 DEF Fit, Led, InUpstream
<1>7. Led(y) /\ Handed(y)
  BY <1>2, <1>5, <1>6 DEF Fit, Led, Handed, InUpstream, Readable
<1>8. (Cut(x) <=> Cut(y)) /\ ~Unanswered(y)
  BY <1>2, <1>5 DEF Cut, Unanswered, InUpstream
<1>9. Owned(y, h)
  BY <1>2, <1>5, <1>8 DEF Fit, Owned
<1> QED
  BY <1>2, <1>5, <1>7, <1>9 DEF Good, Fit, Armed

(* The end of a response: the connection is ready for the next request, or *)
(* is to be closed.                                                        *)
LEMMA RenewedAt ==
    ASSUME NEW v, NEW w, NEW c, At(v, w, c), NEW y \in Conns, y.lease = NoUpstream,
           NEW n, n = Put([ReleaseLease(w, w.conn[c].lease) EXCEPT !.budget = BudgetDropAll(@, c)],
                          c, y)
    PROVE  At(v, n, c) /\ n.conn[c] = y /\ n.budget.held[c] = EmptySlots
<1> DEFINE o == w.conn[c].lease
           r == ReleaseLease(w, o)
           L == r.leases
           g == [w.conn EXCEPT ![c] = y]
           B == BudgetDropAll(w.budget, c)
           m == [conn |-> g, budget |-> w.budget, leases |-> L, halted |-> w.halted]
<1>0. c \in DOMAIN w.conn /\ Whole(w) /\ c \in Owners /\ w.conn[c] \in Conns
  BY AtFacts DEF At, Rest
<1>1. /\ w.conn \in [DOMAIN w.conn -> Conns] /\ w.budget \in Budgets /\ Accounted(w.budget)
      /\ w.halted \in BOOLEAN
  BY <1>0, WholeFacts
<1>2. o \in Peers
  BY <1>0 DEF Conns
<1>3. /\ r = [conn |-> w.conn, budget |-> w.budget, leases |-> L, halted |-> w.halted]
      /\ L \in [Upstreams -> Int]
      /\ \A q \in Upstreams : L[q] = w.leases[q] - (IF q = o THEN 1 ELSE 0)
  BY <1>0, <1>2, ReleaseFacts
<1>4. /\ Accounted(B) /\ B.held[c] = EmptySlots
      /\ \A d \in Owners \ {c} : B.held[d] = w.budget.held[d]
  BY <1>0, <1>1, DropAllAccounted
<1>5. n = Put([r EXCEPT !.budget = BudgetDropAll(@, c)], c, y)
  OBVIOUS
<1> HIDE DEF L, r, B
<1>6. n = SetBudget(m, B)
  <2> DEFINE q == [r EXCEPT !.budget = BudgetDropAll(@, c)]
  <2>1. r.budget = w.budget
    BY <1>3
  <2>2. q = [r EXCEPT !.budget = B]
    BY <2>1 DEF B
  <2>3. n = Put(q, c, y)
    BY <1>5
  <2> HIDE DEF q
  <2>4. q = [conn |-> w.conn, budget |-> B, leases |-> L, halted |-> w.halted]
    BY <1>3, <2>2
  <2>5. n = [conn |-> g, budget |-> B, leases |-> L, halted |-> w.halted]
    BY <2>3, <2>4 DEF Put
  <2>6. SetBudget(m, B) = [conn |-> g, budget |-> B, leases |-> L, halted |-> w.halted]
    <3> HIDE DEF g
    <3> QED
      BY DEF SetBudget
  <2> QED
    BY <2>5, <2>6
<1>7. g \in [DOMAIN w.conn -> Conns] /\ g[c] = y /\ \A d \in DOMAIN w.conn \ {c} : g[d] = w.conn[d]
  BY <1>0, <1>1
<1> HIDE DEF g
<1>8. m \in [conn : [DOMAIN w.conn -> Conns], budget : Budgets,
              leases : [Upstreams -> Int], halted : BOOLEAN]
  BY <1>1, <1>3, <1>7
<1>9. m.conn = g /\ m.budget = w.budget /\ m.leases = L
  OBVIOUS
<1> HIDE DEF m
<1>10. \A u \in Upstreams : (IF u = y.lease THEN 1 ELSE 0) = 0
  BY RuntimeAssumption
<1>11. \A u \in Upstreams : L[u] \in Int
  BY <1>3
<1>12. \A u \in Upstreams : m.leases[u] = (w.leases[u] - (IF u = w.conn[c].lease THEN 1 ELSE 0))
                                          + (IF u = y.lease THEN 1 ELSE 0)
  BY <1>3, <1>9, <1>10, <1>11
<1>13. At(v, m, c)
  BY <1>7, <1>8, <1>9, <1>12, LeaseAt
<1>14. At(v, SetBudget(m, B), c) /\ SetBudget(m, B).budget = B /\ SetBudget(m, B).conn = m.conn
  BY <1>4, <1>9, <1>13, BudgetAt
<1> QED
  BY <1>4, <1>6, <1>7, <1>9, <1>14

(* complete_response leaves the connection in order: renewed, kept for      *)
(* closing, or gone.                                                        *)
LEMMA CompleteDone ==
    ASSUME NEW v, NEW w, NEW c, At(v, w, c), Good(w.conn[c], w.budget.held[c]),
           w.conn[c].io.state = "WritingClientResponse", w.conn[c].io.clientWrite = 0,
           w.conn[c].out = 0, NEW kept, Kept(w.conn[c]) => kept
    PROVE  Done(v, CompleteResponse(w, c), c, kept) /\ At(v, CompleteResponse(w, c), c)
<1> DEFINE x == w.conn[c]
           h == w.budget.held[c]
           n == CompleteResponse(w, c)
<1>1. Fit(x, h) /\ x \in Conns /\ Sound(x.io)
  BY DEF Good, Fit
<1>2. FinishClientResponse(x.io, TRUE).ok
  BY <1>1, FinishedFacts
<1>3. CASE x.closeAfter \/ x.closeClient
  <2> DEFINE y == WithIo(GiveUp(x), FinishClientResponse(x.io, FALSE).io)
  <2>1. n = Put(w, c, y)
    <3>1. GiveUp(x).io = x.io
      BY <1>1, GiveUpFacts
    <3> QED
      BY <1>3, <3>1 DEF CompleteResponse, WithIo
  <2>2. Good(y, h) /\ y.lease = x.lease /\ y.up = x.up
    BY <1>1, EndedGood
  <2> HIDE DEF y, n
  <2>3. Kept(y) => kept
    BY <2>2 DEF Kept, InUpstream
  <2>4. y \in Conns
    BY <2>2 DEF Good, Fit
  <2>5. Done(v, n, c, kept) /\ At(v, n, c)
    BY <2>1, <2>2, <2>3, <2>4, PutDone, PutAt
  <2> QED
    BY <2>5 DEF n
<1>4. CASE ~(x.closeAfter \/ x.closeClient)
  <2> DEFINE y == Refresh(Renewed(x))
             m == Put([ReleaseLease(w, x.lease) EXCEPT !.budget = BudgetDropAll(@, c)], c, y)
  <2>1. n = Reregister(m, c, {"r"})
    BY <1>2, <1>4 DEF CompleteResponse, Renewed
  <2>2. EmptySlots["response"] = 0
    BY DEF EmptySlots, Slots
  <2>3. /\ Renewed(x) \in Conns /\ Fit(Renewed(x), EmptySlots) /\ Renewed(x).lease = NoUpstream
        /\ Renewed(x).up = x.up /\ Renewed(x).io.state = "ReadingClientRequest"
    BY <1>1, <1>4, <2>2, RenewedFit
  <2>4. TimeoutKind(Renewed(x).io.state) # "None"
    BY <2>3 DEF TimeoutKind
  <2>5. Good(y, EmptySlots) /\ y \in Conns /\ y.lease = NoUpstream /\ y.up = x.up
    BY <2>3, <2>4, RefreshGood
  <2> HIDE DEF y
  <2>6. At(v, m, c) /\ m.conn[c] = y /\ m.budget.held[c] = EmptySlots
    BY <2>5, RenewedAt
  <2> HIDE DEF m, n
  <2>7. Kept(y) => kept
    BY <2>5 DEF Kept, InUpstream
  <2>8. Done(v, Reregister(m, c, {"r"}), c, kept) /\ At(v, Reregister(m, c, {"r"}), c)
    BY <2>5, <2>6, <2>7, ReregisterDone
  <2> QED
    BY <2>1, <2>8 DEF n
<1> QED
  BY <1>3, <1>4

(* A connection of which only the batch changes, and what it is charged.   *)
LEMMA BatchFit ==
    ASSUME NEW x, NEW h, Fit(x, h), ~Unanswered(x), NEW y \in Conns, NEW g,
           y.io = x.io, y.lease = x.lease, y.attempted = x.attempted, y.used = x.used,
           y.sent = x.sent, y.up = x.up, y.reuse = x.reuse, y.upReg = x.upReg,
           y.clReg = x.clReg, y.out <= y.batch,
           y.out = 0 /\ y.batch # 0 => Cut(x) /\ y.closeAfter,
           Cut(x) \/ g["response"] = x.io.clientWrite + y.batch
    PROVE  Fit(y, g)
<1>1. Led(y)
  BY DEF Fit, Led, InUpstream, Readable
<1>2. Handed(y)
  BY DEF Fit, Handed
<1>3. (Cut(x) <=> Cut(y)) /\ ~Unanswered(y)
  BY DEF Cut, Unanswered, InUpstream
<1>4. Owned(y, g)
  BY <1>3 DEF Fit, Owned
<1> QED
  BY <1>1, <1>2, <1>4 DEF Fit

(* What is handed to the transport when nothing waits for the socket.      *)
Load(x) ==
    [x EXCEPT !.io = AdvanceClientWrite(x.io, x.io.clientWrite).io,
              !.out = x.io.clientWrite, !.batch = x.io.clientWrite]
Loaded(x) == IF x.out > 0 THEN x ELSE Load(x)
(* Handing the buffered response to the transport moves the bytes and       *)
(* keeps their charge.                                                      *)
LEMMA LoadedGood ==
    ASSUME NEW x, NEW h, Good(x, h), NEW y, y = Loaded(x),
           x.out = 0 => /\ x.io.clientWrite > 0
                        /\ x.io.state \in {"ReadingUpstreamResponse", "WritingClientResponse"}
    PROVE  /\ Good(y, h) /\ y \in Conns /\ ~Unanswered(y) /\ y.lease = x.lease /\ y.up = x.up
           /\ y.io.state = x.io.state /\ y.out \in Nat \ {0}
           /\ y.batch \in Nat /\ y.out <= y.batch
<1>0. /\ x \in Conns /\ Sound(x.io) /\ x.out \in Nat /\ x.batch \in Nat /\ x.io.clientWrite \in Nat
      /\ x.out <= x.batch /\ Fit(x, h)
  BY DEF Good, Fit, Owned, Conns, IoRecords
<1>1. ~Unanswered(x)
  BY <1>0 DEF Good, Fit, Owned, Quiet
<1>2. CASE x.out > 0
  BY <1>0, <1>1, <1>2 DEF Loaded
<1>3. CASE ~(x.out > 0)
  <2> DEFINE z == AdvanceClientWrite(x.io, x.io.clientWrite).io
             k == x.io.clientWrite
             q == [x EXCEPT !.io = z, !.out = k, !.batch = k]
  <2>1. y = q /\ x.out = 0
    BY <1>0, <1>3 DEF Loaded, Load
  <2>2. /\ Sound(z) /\ z.state = x.io.state /\ z.attempt = x.io.attempt /\ z.clientWrite = 0
    BY <1>0, <2>1, AdvanceFacts
  <2>3. z \in IoRecords /\ k \in Nat /\ k > 0
    BY <1>0, <2>1, <2>2 DEF Sound
  <2>4. k = x.io.clientWrite
    OBVIOUS
  <2> HIDE DEF z, k
  <2>5. /\ y \in Conns /\ y.io = z /\ y.out = k /\ y.batch = k /\ y.up = x.up
        /\ y.upReg = x.upReg /\ y.clReg = x.clReg /\ y.reuse = x.reuse /\ y.lease = x.lease
        /\ y.attempted = x.attempted /\ y.used = x.used /\ y.sent = x.sent
        /\ y.closeAfter = x.closeAfter /\ y.deadline = x.deadline
    BY <1>0, <2>1, <2>3, ZenonT(60) DEF Conns
  <2>6. Led(y) /\ Handed(y)
    BY <1>0, <2>2, <2>5 DEF Fit, Led, Handed, InUpstream, Readable
  <2>7. (Cut(x) <=> Cut(y)) /\ ~Unanswered(y)
    BY <1>1, <2>2, <2>5 DEF Cut, Unanswered, InUpstream
  <2>8. Cut(x) \/ (x.batch = 0 /\ h["response"] = k)
    BY <1>0, <2>1, <2>3, <2>4 DEF Fit, Owned
  <2>9. Owned(y, h)
    BY <1>0, <2>1, <2>2, <2>3, <2>5, <2>7, <2>8 DEF Fit, Owned
  <2>10. Armed(y)
    BY <2>2, <2>5 DEF Good, Armed
  <2> QED
    BY <2>2, <2>3, <2>5, <2>6, <2>7, <2>9, <2>10 DEF Good, Fit
<1> QED
  BY <1>2, <1>3

(* A batch of a connection that failed while it wrote: nothing is left for *)
(* it but the deregistration that ends the loop.                           *)
Stuck(x) == x \in Conns /\ x.out = 0 /\ x.closeAfter /\ x.clReg = {} /\ x.io.state = "Failed"

(* What one batch leaves.                                                  *)
Drained(v, l, c, kept) ==
    /\ At(v, l.w, c)
    /\ l.again => Good(l.w.conn[c], l.w.budget.held[c]) /\ (Kept(l.w.conn[c]) => kept)
    /\ \/ l.w.halted
       \/ Stuck(l.w.conn[c])
       \/ Good(l.w.conn[c], l.w.budget.held[c]) /\ (Kept(l.w.conn[c]) => kept)

(* A round of client writes that ends.                                      *)
LEMMA DrainedEnd ==
    ASSUME NEW v, NEW w, NEW c, NEW kept, At(v, w, c), Done(v, w, c, kept),
           NEW l, l = [again |-> FALSE, w |-> w]
    PROVE  Drained(v, l, c, kept)
BY DEF At, Done, Drained

(* A round of client writes that leaves bytes.                              *)
LEMMA DrainedPut ==
    ASSUME NEW v, NEW w, NEW c, NEW kept, At(v, w, c), NEW y, Good(y, w.budget.held[c]),
           y.lease = w.conn[c].lease, Kept(y) => kept, NEW b \in BOOLEAN,
           NEW l, l = [again |-> b, w |-> Put(w, c, y)]
    PROVE  Drained(v, l, c, kept)
<1> DEFINE n == Put(w, c, y)
<1>1. y \in Conns
  BY DEF Good, Fit
<1>2. At(v, n, c) /\ n.conn[c] = y /\ n.budget = w.budget
  BY <1>1, PutAt
<1>3. l.w = n
  OBVIOUS
<1> HIDE DEF n
<1> QED
  BY <1>2, <1>3 DEF Drained

(* The socket took the whole batch y of a connection.                      *)
Drain(y) == [y EXCEPT !.out = 0, !.batch = 0]
BatchEnd(w) == [again |-> FALSE, w |-> w]
Emptying(w, c, y, drained) ==
    IF drained.io.clientWrite > 0 THEN [again |-> TRUE, w |-> RefreshDeadline(w, c)]
    ELSE IF y.io.state = "ReadingUpstreamResponse"
    THEN BatchEnd(Reregister(RefreshDeadline(w, c), c, {"r"}))
    ELSE IF y.io.state = "WritingClientResponse" THEN BatchEnd(CompleteResponse(w, c))
    ELSE BatchEnd(Put(w, c, GiveUp(drained)))
AllTaken(w, c, y, shrunk) ==
    IF ~shrunk.ok
    THEN BatchEnd(Put(SetBudget(w, shrunk.budget), c, GiveUp([y EXCEPT !.out = 0])))
    ELSE Emptying(Put(SetBudget(w, shrunk.budget), c, Drain(y)), c, y, Drain(y))

(* A round that emptied the batch.                                          *)
LEMMA EmptyingDrained ==
    ASSUME NEW v, NEW w, NEW c, NEW kept, At(v, w, c), NEW y, NEW d, d = w.conn[c],
           Good(d, w.budget.held[c]), d.out = 0, d.io.state = y.io.state, Kept(d) => kept,
           NEW l, l = Emptying(w, c, y, d)
    PROVE  Drained(v, l, c, kept)
<1> DEFINE h == w.budget.held[c]
           r == RefreshDeadline(w, c)
<1>1. d \in Conns /\ Fit(d, h) /\ d.io.clientWrite \in Nat
  BY DEF Good, Fit, Conns, IoRecords
<1>2. Good(Refresh(d), h) /\ Refresh(d).up = d.up /\ Refresh(d).io = d.io
  <2>1. d.closeAfter \/ TimeoutKind(d.io.state) # "None"
    BY DEF Good, Armed
  <2> QED
    BY <1>1, <2>1, RefreshGood
<1>3. At(v, r, c) /\ r.conn[c] = Refresh(d) /\ r.budget = w.budget
  BY RefreshAt
<1> HIDE DEF r
<1>4. Good(r.conn[c], r.budget.held[c]) /\ (Kept(r.conn[c]) => kept)
  BY <1>2, <1>3 DEF Kept, InUpstream
<1>5. CASE d.io.clientWrite > 0
  <2>1. l = [again |-> TRUE, w |-> r]
    BY <1>5 DEF Emptying, r
  <2>2. l.w = r
    BY <2>1
  <2> QED
    BY <1>3, <1>4, <2>2 DEF Drained
<1>6. CASE ~(d.io.clientWrite > 0)
  <2>0. d.io.clientWrite = 0
    BY <1>1, <1>6
  <2>1. CASE y.io.state = "ReadingUpstreamResponse"
    <3> DEFINE n == Reregister(r, c, {"r"})
    <3>1. Done(v, n, c, kept) /\ At(v, n, c)
      BY <1>3, <1>4, ReregisterDone
    <3>2. l = [again |-> FALSE, w |-> n]
      BY <1>6, <2>1 DEF Emptying, BatchEnd, r
    <3> HIDE DEF n
    <3> QED
      BY <3>1, <3>2, DrainedEnd
  <2>2. CASE y.io.state = "WritingClientResponse"
    <3> DEFINE n == CompleteResponse(w, c)
    <3>1. Done(v, n, c, kept) /\ At(v, n, c)
      BY <2>0, <2>2, CompleteDone
    <3>2. l = [again |-> FALSE, w |-> n]
      BY <1>6, <2>2 DEF Emptying, BatchEnd
    <3> HIDE DEF n
    <3> QED
      BY <3>1, <3>2, DrainedEnd
  <2>3. CASE y.io.state \notin {"ReadingUpstreamResponse", "WritingClientResponse"}
    <3> DEFINE g == GiveUp(d)
    <3>1. l = [again |-> FALSE, w |-> Put(w, c, g)]
      BY <1>6, <2>3 DEF Emptying, BatchEnd
    <3>2. Good(g, h) /\ g.lease = d.lease /\ g.up = d.up /\ g.io = d.io
      BY <1>1, GiveUpGood
    <3> HIDE DEF g
    <3>3. Kept(g) => kept
      BY <3>2 DEF Kept, InUpstream
    <3> QED
      BY <3>1, <3>2, <3>3, DrainedPut
  <2> QED
    BY <2>1, <2>2, <2>3
<1> QED
  BY <1>5, <1>6

(* A round that wrote the whole batch releases exactly its charge.          *)
LEMMA AllTakenDrained ==
    ASSUME NEW v, NEW w, NEW c, NEW kept, At(v, w, c), NEW y, Good(y, w.budget.held[c]),
           ~Unanswered(y), y.out \in Nat \ {0}, y.batch \in Nat, y.out <= y.batch,
           y.lease = w.conn[c].lease, Kept(y) => kept,
           NEW l, l = AllTaken(w, c, y, ReleaseDrained(w.budget, c, y.batch))
    PROVE  Drained(v, l, c, kept)
<1> DEFINE B == w.budget
           r == ReleaseDrained(B, c, y.batch)
           h == B.held[c]
           m == SetBudget(w, r.budget)
<1>0. /\ y \in Conns /\ Fit(y, h) /\ y.io.clientWrite \in Nat /\ Accounted(B) /\ c \in Owners
      /\ h["response"] \in Nat /\ "response" \in Slots
  <2>1. y \in Conns /\ Fit(y, h)
    BY DEF Good, Fit
  <2>2. y.io.clientWrite \in Nat
    BY <2>1 DEF Conns, IoRecords
  <2>3. Accounted(B) /\ c \in Owners /\ "response" \in Slots
    BY AtFacts DEF Slots
  <2> QED
    BY <2>1, <2>2, <2>3, SlotTyped
<1>1. /\ OneSlot(B, r, c, "response", h["response"] - y.batch)
      /\ r.ok => y.batch <= h["response"]
      /\ y.batch > 0 /\ y.batch <= h["response"] => r.ok
  BY <1>0, ReleaseDrainedCharged
<1>2. r.ok \in BOOLEAN /\ Accounted(r.budget) /\ \A d \in Owners \ {c} : r.budget.held[d] = B.held[d]
  BY <1>1 DEF OneSlot, Charged
<1>3. l = AllTaken(w, c, y, r)
  OBVIOUS
<1> HIDE DEF r
<1>4. At(v, m, c) /\ m.budget = r.budget /\ m.conn = w.conn
  BY <1>2, BudgetAt
<1> HIDE DEF m
<1>5. CASE ~r.ok
  <2> DEFINE q == [y EXCEPT !.out = 0]
             g == [q EXCEPT !.closeAfter = TRUE, !.deadline = FALSE]
  <2>1. l = [again |-> FALSE, w |-> Put(m, c, g)]
    BY <1>3, <1>5 DEF AllTaken, BatchEnd, GiveUp, m
  <2>2. Cut(y)
    <3>1. ~(y.batch <= h["response"])
      BY <1>0, <1>1, <1>5
    <3>2. h["response"] = y.io.clientWrite + y.batch => y.batch <= h["response"]
      BY <1>0
    <3> QED
      BY <1>0, <3>1, <3>2 DEF Fit, Owned
  <2>3. /\ g \in Conns /\ g.io = y.io /\ g.out = 0 /\ g.batch = y.batch /\ g.up = y.up
        /\ g.upReg = y.upReg /\ g.clReg = y.clReg /\ g.reuse = y.reuse /\ g.lease = y.lease
        /\ g.attempted = y.attempted /\ g.used = y.used /\ g.sent = y.sent /\ g.closeAfter
    <3>1. /\ q \in Conns /\ q.io = y.io /\ q.out = 0 /\ q.batch = y.batch /\ q.up = y.up
          /\ q.upReg = y.upReg /\ q.clReg = y.clReg /\ q.reuse = y.reuse /\ q.lease = y.lease
          /\ q.attempted = y.attempted /\ q.used = y.used /\ q.sent = y.sent
      BY <1>0 DEF Conns
    <3> HIDE DEF q
    <3>2. g = GiveUp(q)
      BY DEF GiveUp
    <3> HIDE DEF g
    <3> QED
      BY <3>1, <3>2, GiveUpFacts
  <2> HIDE DEF g
  <2>4. Fit(g, m.budget.held[c])
    <3>1. g.out <= g.batch
      BY <2>3
    <3> QED
      BY <1>0, <2>2, <2>3, <3>1, BatchFit
  <2>5. Good(g, m.budget.held[c])
    BY <2>3, <2>4 DEF Good, Armed
  <2>6. (Kept(g) => kept) /\ g.lease = m.conn[c].lease
    BY <1>4, <2>3 DEF Kept, InUpstream
  <2> QED
    BY <1>4, <2>1, <2>5, <2>6, DrainedPut
<1>6. CASE r.ok
  <2> DEFINE d == Drain(y)
             n == Put(m, c, d)
             g == m.budget.held[c]
  <2>1. l = Emptying(n, c, y, d)
    BY <1>3, <1>6 DEF AllTaken, m
  <2>2. /\ d \in Conns /\ d.io = y.io /\ d.out = 0 /\ d.batch = 0 /\ d.up = y.up
        /\ d.upReg = y.upReg /\ d.clReg = y.clReg /\ d.reuse = y.reuse /\ d.lease = y.lease
        /\ d.attempted = y.attempted /\ d.used = y.used /\ d.sent = y.sent
        /\ d.closeAfter = y.closeAfter /\ d.deadline = y.deadline
    BY <1>0 DEF Conns, Drain
  <2>3. g["response"] = h["response"] - y.batch
    BY <1>1, <1>4, <1>6 DEF OneSlot
  <2>4. Cut(y) \/ g["response"] = y.io.clientWrite + 0
    <3>1. h["response"] = y.io.clientWrite + y.batch => h["response"] - y.batch = y.io.clientWrite + 0
      BY <1>0
    <3> QED
      BY <1>0, <2>3, <3>1 DEF Fit, Owned
  <2> HIDE DEF d, g
  <2>5. Fit(d, g)
    <3>1. d.out <= d.batch
      BY <2>2
    <3> QED
      BY <1>0, <2>2, <2>4, <3>1, BatchFit
  <2>6. Good(d, g) /\ (Kept(d) => kept)
    BY <2>2, <2>5 DEF Good, Armed, Kept, InUpstream
  <2>7. At(v, n, c) /\ n.conn[c] = d /\ n.budget = m.budget
    BY <1>4, <2>2, PutAt
  <2> HIDE DEF n
  <2>8. Good(d, n.budget.held[c])
    BY <2>6, <2>7 DEF g
  <2> QED
    BY <2>1, <2>2, <2>6, <2>7, <2>8, EmptyingDrained
<1> QED
  BY <1>2, <1>5, <1>6

(* One batch through the socket.                                           *)
LEMMA BatchDrained ==
    ASSUME NEW v, NEW w, NEW c, NEW kept, At(v, w, c), Good(w.conn[c], w.budget.held[c]),
           Kept(w.conn[c]) => kept, NEW write \in WriteOutcomes,
           NEW l, l = DrainBatch(w, c, write)
    PROVE  Drained(v, l, c, kept)
<1> DEFINE x == w.conn[c]
           h == w.budget.held[c]
           k == x.io.clientWrite
           a == AdvanceClientWrite(x.io, k)
           y == Loaded(x)
           left == [y EXCEPT !.out = @ - 1]
<1>0. x \in Conns /\ Fit(x, h) /\ k \in Nat /\ x.out \in Nat /\ Sound(x.io)
  <2>1. x \in Conns /\ Fit(x, h) /\ Sound(x.io)
    BY Zenon DEF Good, Fit
  <2> QED
    BY <2>1 DEF Conns, IoRecords
<1>1. l = IF x.out = 0 /\ k = 0
          THEN BatchEnd(IF x.io.state = "WritingClientResponse" THEN CompleteResponse(w, c) ELSE w)
          ELSE IF x.out = 0 /\ ~a.ok
          THEN BatchEnd(Put(w, c, GiveUp([x EXCEPT !.batch = k])))
          ELSE CASE write = "block" -> BatchEnd(Put(w, c, y))
                 [] write = "error" -> BatchEnd(Put(w, c, GiveUp(y)))
                 [] write = "some" /\ y.out > 1 -> BatchEnd(Put(w, c, Refresh(left)))
                 [] OTHER -> AllTaken(w, c, y, ReleaseDrained(w.budget, c, y.batch))
  <2>1. [y EXCEPT !.out = 0, !.batch = 0] = Drain(y)
    BY DEF Drain
  <2>2. y.io.state = x.io.state
    BY <1>0, AdvanceFacts DEF AdvanceClientWrite, Refuse, Loaded, Load, Conns
  <2> QED
    BY <2>1, <2>2 DEF DrainBatch, BatchEnd, AllTaken, Emptying, Loaded, Load, Drain
<1>2. CASE x.out = 0 /\ k = 0
  <2>1. CASE x.io.state = "WritingClientResponse"
    <3> DEFINE n == CompleteResponse(w, c)
    <3>1. l = [again |-> FALSE, w |-> n]
      BY <1>1, <1>2, <2>1 DEF BatchEnd
    <3>2. Done(v, n, c, kept) /\ At(v, n, c)
      BY <1>2, <2>1, CompleteDone
    <3> HIDE DEF n
    <3> QED
      BY <3>1, <3>2, DrainedEnd
  <2>2. CASE x.io.state # "WritingClientResponse"
    <3>1. l = [again |-> FALSE, w |-> w]
      BY <1>1, <1>2, <2>2 DEF BatchEnd
    <3>2. Done(v, w, c, kept)
      BY DEF Done, At
    <3> QED
      BY <3>1, <3>2, DrainedEnd
  <2> QED
    BY <2>1, <2>2
<1>3. CASE ~(x.out = 0 /\ k = 0) /\ x.out = 0 /\ ~a.ok
  <2> DEFINE q == [x EXCEPT !.batch = k]
             g == GiveUp(q)
             n == Put(w, c, g)
  <2>1. l = [again |-> FALSE, w |-> n]
    BY <1>1, <1>3 DEF BatchEnd
  <2>2. x.io.state \notin {"ReadingUpstreamResponse", "WritingClientResponse"}
    BY <1>0, <1>3, AdvanceFacts
  <2>3. x.io.state = "Failed" /\ x.clReg = {}
    <3>1. ~Unanswered(x) /\ k > 0
      BY <1>0, <1>3 DEF Fit, Owned, Quiet
    <3>2. x.io.state \in ConnectionStates
      BY <1>0 DEF Sound, IoRecords
    <3>3. /\ x.io.state \notin {"Closed", "TunnelingWebSocket", "Draining"}
          /\ x.io.state = "Failed" => x.clReg = {}
      BY <1>0, <3>1 DEF Fit, Owned
    <3>4. x.io.state \notin {"ConnectingUpstream", "HandshakingUpstreamTls", "WritingUpstreamRequest"}
      BY <1>0, <3>1 DEF Sound, Coherent, Unanswered, InUpstream
    <3> QED
      BY <2>2, <3>1, <3>2, <3>3, <3>4 DEF ConnectionStates, Unanswered
  <2>4. q \in Conns /\ q.io = x.io /\ q.out = x.out /\ q.clReg = x.clReg /\ q.lease = x.lease
    <3> HIDE DEF x, k
    <3> QED
      BY <1>0 DEF Conns
  <2> HIDE DEF q
  <2>5. /\ g \in Conns /\ g.io = x.io /\ g.out = 0 /\ g.clReg = {} /\ g.lease = x.lease
        /\ g.closeAfter
    BY <1>3, <2>3, <2>4, GiveUpFacts
  <2> HIDE DEF g
  <2>6. At(v, n, c) /\ n.conn[c] = g
    BY <2>5, PutAt
  <2>7. Stuck(g)
    BY <2>3, <2>5 DEF Stuck
  <2>8. l.w = n /\ ~l.again
    BY <2>1
  <2> HIDE DEF n
  <2> QED
    BY <2>6, <2>7, <2>8 DEF Drained
<1>4. CASE ~(x.out = 0 /\ k = 0) /\ ~(x.out = 0 /\ ~a.ok)
  <2>1. x.out = 0 => /\ x.io.clientWrite > 0
                     /\ x.io.state \in {"ReadingUpstreamResponse", "WritingClientResponse"}
    BY <1>0, <1>4 DEF AdvanceClientWrite, Refuse
  <2>2. /\ Good(y, h) /\ y \in Conns /\ ~Unanswered(y) /\ y.lease = x.lease /\ y.up = x.up
        /\ y.io.state = x.io.state /\ y.out \in Nat \ {0}
        /\ y.batch \in Nat /\ y.out <= y.batch
    BY <2>1, LoadedGood
  <2>3. Kept(y) => kept
    BY <2>2 DEF Kept, InUpstream
  <2>4. Fit(y, h)
    BY <2>2 DEF Good
  <2> HIDE DEF y
  <2>5. CASE write = "block"
    <3>1. l = [again |-> FALSE, w |-> Put(w, c, y)]
      BY <1>1, <1>4, <2>5 DEF BatchEnd
    <3> QED
      BY <2>2, <2>3, <3>1, DrainedPut
  <2>6. CASE write = "error"
    <3> DEFINE g == GiveUp(y)
    <3>1. l = [again |-> FALSE, w |-> Put(w, c, g)]
      BY <1>1, <1>4, <2>6 DEF BatchEnd
    <3>2. Good(g, h) /\ g.lease = y.lease /\ g.up = y.up /\ g.io = y.io
      BY <2>4, GiveUpGood
    <3> HIDE DEF g
    <3>3. Kept(g) => kept
      BY <2>3, <3>2 DEF Kept, InUpstream
    <3> QED
      BY <2>2, <3>1, <3>2, <3>3, DrainedPut
  <2>7. CASE write = "some" /\ y.out > 1
    <3> DEFINE g == Refresh(left)
    <3>1. l = [again |-> FALSE, w |-> Put(w, c, g)]
      BY <1>1, <1>4, <2>7 DEF BatchEnd
    <3>2. /\ left \in Conns /\ left.io = y.io /\ left.out = y.out - 1 /\ left.batch = y.batch
          /\ left.up = y.up /\ left.upReg = y.upReg /\ left.clReg = y.clReg
          /\ left.reuse = y.reuse /\ left.lease = y.lease
          /\ left.attempted = y.attempted /\ left.used = y.used /\ left.sent = y.sent
          /\ left.closeAfter = y.closeAfter
      BY <2>2, <2>7 DEF Conns
    <3>3. left.out <= left.batch /\ left.out # 0
      BY <2>2, <2>7, <3>2
    <3> HIDE DEF left
    <3>4. Fit(left, h)
      <4>1. Cut(y) \/ h["response"] = y.io.clientWrite + left.batch
        BY <2>4, <3>2 DEF Fit, Owned
      <4> QED
        BY <2>2, <2>4, <3>2, <3>3, <4>1, BatchFit
    <3>5. left.closeAfter \/ TimeoutKind(left.io.state) # "None"
      BY <2>2, <3>2 DEF Good, Armed
    <3>6. Good(g, h) /\ g.lease = left.lease /\ g.up = left.up /\ g.io = left.io
      BY <3>4, <3>5, RefreshGood
    <3> HIDE DEF g
    <3>7. (Kept(g) => kept) /\ g.lease = x.lease
      BY <2>2, <2>3, <3>2, <3>6 DEF Kept, InUpstream
    <3> QED
      BY <3>1, <3>6, <3>7, DrainedPut
  <2>8. CASE write \notin {"block", "error"} /\ ~(write = "some" /\ y.out > 1)
    <3>1. l = AllTaken(w, c, y, ReleaseDrained(w.budget, c, y.batch))
      BY <1>1, <1>4, <2>8
    <3> QED
      BY <2>2, <2>3, <3>1, AllTakenDrained
  <2> QED
    BY <2>5, <2>6, <2>7, <2>8
<1> QED
  BY <1>2, <1>3, <1>4

(* The read interest leaves the connection in order.                        *)
LEMMA ReconcileDone ==
    ASSUME NEW v, NEW w, NEW c, NEW kept, At(v, w, c), Done(v, w, c, kept)
    PROVE  Done(v, ReconcileRead(w, c), c, kept)
<1> DEFINE n == ReconcileRead(w, c)
           x == w.conn[c]
           y == ReadInterest(w.budget.pressure, x)
<1>1. At(v, n, c) /\ n.conn[c] = y /\ n.budget = w.budget /\ n.halted = w.halted
  BY ReconcileReadAt
<1>2. x \in Conns
  BY AtFacts
<1>3. y.io = x.io /\ y.up = x.up
  BY <1>2, ReadInterestFacts
<1>4. Good(x, w.budget.held[c]) => Good(y, w.budget.held[c])
  BY ReadInterestGood
<1> HIDE DEF n, y
<1>5. Done(v, n, c, kept)
  BY <1>1, <1>3, <1>4 DEF Done, At, Kept, InUpstream
<1> QED
  BY <1>5 DEF n

(* What follows the writes to the client leaves the connection in order.    *)
LEMMA ClientWrittenDone ==
    ASSUME NEW v, NEW w, NEW c, NEW kept, At(v, w, c), NEW before,
           \/ w.halted
           \/ Stuck(w.conn[c])
           \/ Good(w.conn[c], w.budget.held[c]) /\ (Kept(w.conn[c]) => kept)
    PROVE  Done(v, ClientWritten(w, c, before), c, kept)
<1> DEFINE x == w.conn[c]
           closing == x.out = 0 /\ (x.closeAfter \/ x.io.state \in {"Draining", "Closed", "Failed"})
           m == IF closing THEN Reregister(w, c, {}) ELSE w
           n == ClientWritten(w, c, before)
<1>1. n = m \/ n = ReconcileRead(m, c)
  BY DEF ClientWritten
<1>2. At(v, m, c) /\ Done(v, m, c, kept)
  <2>1. CASE Good(x, w.budget.held[c]) /\ (Kept(x) => kept)
    <3>1. Done(v, w, c, kept)
      BY <2>1 DEF Done, At
    <3>2. Done(v, Reregister(w, c, {}), c, kept) /\ At(v, Reregister(w, c, {}), c)
      BY <2>1, ReregisterDone
    <3> QED
      BY <3>1, <3>2
  <2>2. CASE w.halted
    <3>1. At(v, Reregister(w, c, {}), c)
      BY ReregisterAt
    <3>2. Reregister(w, c, {}).halted
      BY <2>2 DEF Reregister, Halt
    <3> QED
      BY <2>2, <3>1, <3>2 DEF Done, At
  <2>3. CASE Stuck(x)
    <3>1. m = Halt(w)
      BY <2>3 DEF Stuck, Reregister
    <3> HIDE DEF m
    <3>2. At(v, m, c) /\ m.halted
      BY <3>1, HaltAt
    <3> QED
      BY <3>2 DEF Done, At
  <2> QED
    BY <2>1, <2>2, <2>3
<1> HIDE DEF m, n
<1>3. Done(v, ReconcileRead(m, c), c, kept)
  BY <1>2, ReconcileDone
<1> QED
  BY <1>1, <1>2, <1>3 DEF n

(* write_client *)
LEMMA WriteClientDone ==
    ASSUME NEW w, NEW c, At(w, w, c), Good(w.conn[c], w.budget.held[c]), NEW kept,
           Kept(w.conn[c]) => kept, NEW write \in WriteOutcomes, NEW write2 \in WriteOutcomes
    PROVE  Done(w, WriteClient(w, c, write, write2), c, kept)
<1> DEFINE l == DrainBatch(w, c, write)
           f == l.w
           s == DrainBatch(f, c, write2)
           g == s.w
           m == NextBatch(l, c, write2)
           b == Buffered(w.conn[c])
<1>1. Drained(w, l, c, kept)
  BY BatchDrained
<1> HIDE DEF l
<1>2. l.again => Drained(w, s, c, kept)
  <2>1. l.again => At(w, f, c) /\ Good(f.conn[c], f.budget.held[c]) /\ (Kept(f.conn[c]) => kept)
    BY <1>1 DEF Drained
  <2> HIDE DEF f
  <2> QED
    BY <2>1, BatchDrained
<1> HIDE DEF s
<1>3. m = IF l.again THEN s.w ELSE l.w
  BY DEF NextBatch, s
<1>4. /\ At(w, m, c)
      /\ \/ m.halted
         \/ Stuck(m.conn[c])
         \/ Good(m.conn[c], m.budget.held[c]) /\ (Kept(m.conn[c]) => kept)
  <2> HIDE DEF m
  <2>1. CASE l.again
    BY <1>2, <1>3, <2>1 DEF Drained
  <2>2. CASE ~l.again
    BY <1>1, <1>3, <2>2 DEF Drained
  <2> QED
    BY <2>1, <2>2
<1>5. WriteClient(w, c, write, write2) = ClientWritten(m, c, b)
  BY DEF WriteClient, At, Live, l
<1> HIDE DEF m, b
<1> QED
  BY <1>4, <1>5, ClientWrittenDone

-----------------------------------------------------------------------------
(* Deadlines.                                                              *)

(* Another io for a connection whose client is no longer registered.       *)
Unplugged(x, z) == [x EXCEPT !.io = z, !.clReg = {}]
(* The connection with another state machine and no client registration.    *)
LEMMA UnpluggedFacts ==
    ASSUME NEW x \in Conns, NEW z \in IoRecords
    PROVE  /\ Unplugged(x, z) \in Conns /\ Unplugged(x, z).io = z /\ Unplugged(x, z).out = x.out
           /\ Unplugged(x, z).batch = x.batch /\ Unplugged(x, z).up = x.up
           /\ Unplugged(x, z).upReg = x.upReg /\ Unplugged(x, z).clReg = {}
           /\ Unplugged(x, z).reuse = x.reuse /\ Unplugged(x, z).lease = x.lease
           /\ Unplugged(x, z).attempted = x.attempted /\ Unplugged(x, z).used = x.used
           /\ Unplugged(x, z).sent = x.sent /\ Unplugged(x, z).closeAfter = x.closeAfter
<1>1. {} \in SUBSET {"r", "w"}
  OBVIOUS
<1> QED
  BY <1>1 DEF Unplugged, Conns

(* A client that was written to for too long.                              *)
LEMMA TimedOutGood ==
    ASSUME NEW x, NEW h, Fit(x, h), x.io.state = "WritingClientResponse", x.up = NoUpstream,
           NEW y, y = Unplugged(GiveUp(x), TransitionTo(x.io, "Failed").io)
    PROVE  Good(y, h) /\ y.lease = x.lease /\ ~Kept(y)
<1> DEFINE z == [x.io EXCEPT !.state = "Failed"]
           q == GiveUp(x)
<1>1. x \in Conns /\ Sound(x.io) /\ x.io \in IoRecords
  BY DEF Fit, Sound
<1>2. z = TransitionTo(x.io, "Failed").io
  BY DEF TransitionTo, CanTransitionTo, Okay
<1>3. /\ z \in IoRecords /\ z.state = "Failed" /\ z.attempt = x.io.attempt
      /\ z.clientWrite = x.io.clientWrite
  BY <1>1 DEF IoRecords, ConnectionStates
<1>4. Sound(z)
  <2> HIDE DEF z
  <2> QED
    BY <1>1, <1>3 DEF Sound, Coherent
<1>5. /\ q \in Conns /\ q.io = x.io /\ q.out = x.out
      /\ q.batch = x.batch /\ q.up = x.up /\ q.upReg = x.upReg
      /\ q.clReg = x.clReg /\ q.reuse = x.reuse /\ q.lease = x.lease
      /\ q.attempted = x.attempted /\ q.used = x.used
      /\ q.sent = x.sent /\ q.closeAfter
  BY <1>1, GiveUpFacts
<1>6. y = Unplugged(q, z)
  BY <1>2
<1> HIDE DEF z, q
<1>7. /\ y \in Conns /\ y.io = z /\ y.out = x.out /\ y.batch = x.batch /\ y.up = x.up
      /\ y.upReg = x.upReg /\ y.clReg = {} /\ y.reuse = x.reuse /\ y.lease = x.lease
      /\ y.attempted = x.attempted /\ y.used = x.used /\ y.sent = x.sent /\ y.closeAfter
  BY <1>3, <1>5, <1>6, UnpluggedFacts
<1>8. x.upReg = {}
  BY DEF Fit, Led, InUpstream
<1>9. Led(y) /\ Handed(y)
  BY <1>3, <1>7, <1>8 DEF Fit, Led, Handed, InUpstream, Readable
<1>10. (Cut(x) <=> Cut(y)) /\ ~Unanswered(y)
  BY <1>3, <1>7 DEF Cut, Unanswered, InUpstream
<1>11. Owned(y, h)
  BY <1>3, <1>7, <1>10 DEF Fit, Owned
<1> QED
  BY <1>4, <1>7, <1>9, <1>11 DEF Good, Fit, Armed, Kept

(* expire_connection *)
LEMMA ExpireDone ==
    ASSUME NEW w, NEW c, At(w, w, c), Good(w.conn[c], w.budget.held[c]),
           NEW kept, Kept(w.conn[c]) => kept, NEW s \in RetryScripts
    PROVE  Done(w, ExpireConnection(w, c, s), c, kept)
<1> DEFINE x == w.conn[c]
           h == w.budget.held[c]
           kind == TimeoutKind(x.io.state)
           upstream == kind \in {"ConnectTimeout", "TlsHandshakeTimeout", "ReadTimeout"}
           m == IF upstream THEN SetIo(w, c, FailUpstreamAttempt(x.io, kind).io) ELSE w
           d == DropUpstream(m, c)
           n == ExpireConnection(w, c, s)
<1>0. x \in Conns /\ Fit(x, h) /\ c \in DOMAIN w.conn
  BY DEF Good, Fit, At
<1>1. CASE ~x.deadline \/ kind = "None"
  <2>1. n = w
    BY <1>0, <1>1 DEF ExpireConnection, Live
  <2>2. Done(w, w, c, kept)
    BY DEF Done, At
  <2> QED
    BY <2>1, <2>2, Zenon
<1>2. CASE x.deadline /\ upstream
  <2>1. n = IF kind = "ReadTimeout" /\ x.io.attempt.started THEN RemoveConnection(d, c)
            ELSE RetryOrReply(d, c, kind, s)
    BY <1>0, <1>2 DEF ExpireConnection, Live
  <2> DEFINE z == FailUpstreamAttempt(x.io, kind).io
             y == WithIo(x, z)
  <2>2. InUpstream(x) /\ kind \in Failures
    BY <1>2 DEF TimeoutKind, InUpstream, Failures
  <2>3. Fit(y, h) /\ InUpstream(y) /\ z \in IoRecords /\ z.attempt.terminal # "None"
    BY <1>0, <2>2, FailFit
  <2>4. m = SetIo(w, c, z)
    BY <1>2
  <2> HIDE DEF z, m
  <2>5. At(w, m, c) /\ m.conn[c] = y /\ m.budget = w.budget
    BY <2>3, <2>4, SetIoAt
  <2>6. y.io = z
    BY <1>0, <2>3, WithIoFacts
  <2>7. At(w, d, c)
    BY <2>3, <2>5, DropAt
  <2>8. Done(w, RemoveConnection(d, c), c, kept)
    BY <2>7, RemoveDone
  <2> HIDE DEF y
  <2>9. Done(w, RetryOrReply(d, c, kind, s), c, kept)
    BY <2>2, <2>3, <2>5, <2>6, FailedDone
  <2> HIDE DEF n, d
  <2> QED
    BY <2>1, <2>8, <2>9, Zenon DEF n
<1>3. CASE x.deadline /\ kind = "ClientIdle"
  <2>1. n = QueueClientResponse(d, c) /\ m = w
    BY <1>0, <1>3 DEF ExpireConnection, Live
  <2> HIDE DEF m
  <2>2. /\ At(w, d, c) /\ d.conn[c].up = NoUpstream /\ d.conn[c].upReg = {} /\ d.conn[c].io = x.io
        /\ Fit(d.conn[c], d.budget.held[c])
    BY <1>0, <2>1, DropAt
  <2> HIDE DEF d
  <2>3. Quiet(d.conn[c], d.budget.held[c])
    <3>1. x.io.state \in {"Accepted", "ReadingClientRequest"}
      BY <1>3 DEF TimeoutKind
    <3> QED
      BY <2>2, <3>1 DEF Fit, Owned, Unanswered
  <2>4. Done(w, QueueClientResponse(d, c), c, kept)
    BY <2>2, <2>3, QueueDone
  <2> HIDE DEF n
  <2> QED
    BY <2>1, <2>4 DEF n
<1>4. CASE x.deadline /\ kind = "ClientWrite"
  <2> DEFINE e == d.conn[c]
             y == Unplugged(GiveUp(e), TransitionTo(e.io, "Failed").io)
  <2>1. m = w
    BY <1>4
  <2>2. n = Put(d, c, [GiveUp(d.conn[c]) EXCEPT !.io = TransitionTo(@, "Failed").io, !.clReg = {}])
    BY <1>0, <1>4 DEF ExpireConnection, Live
  <2> HIDE DEF m
  <2>3. /\ At(w, d, c) /\ e.up = NoUpstream /\ e.upReg = {} /\ e.io = x.io
        /\ Fit(e, d.budget.held[c])
    BY <1>0, <2>1, DropAt
  <2> HIDE DEF d
  <2>4. e.io.state = "WritingClientResponse"
    BY <1>4, <2>3 DEF TimeoutKind
  <2>5. Good(y, d.budget.held[c]) /\ y.lease = e.lease /\ ~Kept(y)
    BY <2>3, <2>4, TimedOutGood
  <2>6. n = Put(d, c, y)
    <3>1. GiveUp(e).io = e.io
      BY <2>3, GiveUpFacts DEF Fit
    <3> QED
      BY <2>2, <3>1 DEF Unplugged
  <2> HIDE DEF y, n
  <2>7. Done(w, n, c, kept)
    BY <2>3, <2>5, <2>6, PutDone
  <2> QED
    BY <2>7 DEF n
<1>5. kind \in {"None", "ClientIdle", "ClientWrite", "ConnectTimeout", "TlsHandshakeTimeout", "ReadTimeout"}
  BY DEF TimeoutKind
<1>6. x.deadline \in BOOLEAN
  BY <1>0 DEF Conns
<1> QED
  BY <1>1, <1>2, <1>3, <1>4, <1>5, <1>6

-----------------------------------------------------------------------------
(* The world after a handler.                                              *)

(* The world as the loop starts with it, and as an error leaves it.        *)
LEMMA EmptyWorldWhole ==
    ASSUME NEW w, w.conn = <<>>, w.budget = NewBudget, w.leases = [u \in Upstreams |-> 0],
           NEW b \in BOOLEAN,
           w = [conn |-> <<>>, budget |-> NewBudget, leases |-> [u \in Upstreams |-> 0],
                halted |-> b]
    PROVE  Whole(w) /\ AllGood(w) /\ DOMAIN w.conn = {}
<1>1. DOMAIN w.conn = {} /\ w.conn \in [{} -> Conns]
  OBVIOUS
<1>2. EmptySlots \in [Slots -> Nat] /\ NewBudget.held = [c \in Owners |-> EmptySlots]
      /\ NewBudget.used = 0
  BY DEF EmptySlots, NewBudget
<1>3. NewBudget \in Budgets
  BY <1>2, LimitAssumption DEF NewBudget, Budgets, PressureStates
<1>4. HeldBytes(NewBudget.held) = {}
  <2>1. ASSUME NEW b1 \in HeldBytes(NewBudget.held)
        PROVE  FALSE
    <3>1. PICK c \in Owners, k \in Slots : b1 \in {<<c, k>>} \X (1 .. NewBudget.held[c][k])
      BY InHeld
    <3>2. NewBudget.held[c][k] = 0
      BY <1>2 DEF EmptySlots
    <3> QED
      BY <3>1, <3>2
  <2> QED
    BY <2>1
<1>5. IsFiniteSet({}) /\ Cardinality({}) = 0
  BY FS_EmptySet
<1>6. Accounted(NewBudget)
  BY <1>2, <1>3, <1>4, <1>5 DEF Accounted, BudgetBalanced
<1>7. \A u \in Upstreams : Holders(w, u) = {}
  BY <1>1 DEF Holders
<1>8. Whole(w)
  <2>1. w \in [conn : [DOMAIN w.conn -> Conns], budget : Budgets,
               leases : [Upstreams -> Nat], halted : BOOLEAN]
    BY <1>1, <1>3
  <2>2. \A c \in Owners \ DOMAIN w.conn : w.budget.held[c] = EmptySlots
    BY <1>2
  <2>3. \A u \in Upstreams : w.leases[u] = Cardinality(Holders(w, u))
    BY <1>5, <1>7
  <2> QED
    BY <1>1, <1>5, <1>6, <2>1, <2>2, <2>3 DEF Whole
<1> QED
  BY <1>1, <1>8 DEF AllGood

(* What becomes of the connections in a step that handles c: the others    *)
(* keep their state and their socket, and c has a kept socket only if kept *)
(* says so.                                                                *)
Follows(v, w, c, kept) ==
    /\ Whole(w) /\ AllGood(w)
    /\ \A d \in DOMAIN w.conn : d # c =>
          d \in DOMAIN v.conn /\ w.conn[d].io = v.conn[d].io /\ w.conn[d].up = v.conn[d].up
    /\ c \in DOMAIN w.conn /\ Kept(w.conn[c]) => kept

(* A handler that is done leaves a world in order.                          *)
LEMMA DoneFollows ==
    ASSUME NEW v, Whole(v), AllGood(v), NEW w, NEW c, NEW kept, Done(v, w, c, kept), ~w.halted
    PROVE  Follows(v, w, c, kept)
<1>1. ASSUME NEW d \in DOMAIN w.conn, d # c
      PROVE  /\ d \in DOMAIN v.conn /\ w.conn[d] = v.conn[d]
             /\ Good(w.conn[d], w.budget.held[d])
  BY <1>1 DEF Done, Rest, AllGood
<1>2. Whole(w)
  BY DEF Done, Rest
<1>3. ASSUME c \in DOMAIN w.conn
      PROVE  Good(w.conn[c], w.budget.held[c]) /\ (Kept(w.conn[c]) => kept)
  BY <1>3 DEF Done
<1> QED
  BY <1>1, <1>2, <1>3 DEF Follows, AllGood

(* The world follows itself.                                                *)
LEMMA StaysFollows ==
    ASSUME NEW w, Whole(w), AllGood(w), NEW c, NEW kept,
           c \in DOMAIN w.conn /\ Kept(w.conn[c]) => kept
    PROVE  Follows(w, w, c, kept)
BY DEF Follows

(* enforce_resource_pressure_interests *)
LEMMA EnforceFollows ==
    ASSUME NEW v, NEW w, NEW c, NEW kept, Follows(v, w, c, kept), NEW n, n = Enforce(w)
    PROVE  /\ Follows(v, n, c, kept) /\ n.budget = w.budget /\ n.halted = w.halted
           /\ DOMAIN n.conn = DOMAIN w.conn
           /\ \A d \in DOMAIN n.conn : Reading(n.conn[d]) /\ n.conn[d].up # NoUpstream =>
                 ((n.conn[d].upReg # {}) <=>
                      ~ReadMustPause(n.budget.pressure, Buffered(n.conn[d]), MaxResponseBuffer))
<1> DEFINE D == DOMAIN w.conn
           p == w.budget.pressure
           g == [d \in D |-> ReadInterest(p, w.conn[d])]
<1>0. Whole(w) /\ AllGood(w)
  BY DEF Follows
<1>1. /\ w.conn \in [D -> Conns] /\ D \subseteq Owners /\ IsFiniteSet(D)
      /\ w.budget \in Budgets /\ Accounted(w.budget)
      /\ w.leases \in [Upstreams -> Nat] /\ w.halted \in BOOLEAN
      /\ w = [conn |-> w.conn, budget |-> w.budget, leases |-> w.leases, halted |-> w.halted]
  BY <1>0, WholeFacts DEF Whole
<1>2. n = [w EXCEPT !.conn = g]
  BY DEF Enforce
<1>3. ASSUME NEW d \in D
      PROVE  /\ g[d] \in Conns /\ g[d].io = w.conn[d].io /\ g[d].up = w.conn[d].up
             /\ g[d].out = w.conn[d].out
             /\ g[d].lease = w.conn[d].lease
             /\ Good(g[d], w.budget.held[d])
             /\ Reading(g[d]) /\ g[d].up # NoUpstream =>
                 ((g[d].upReg # {}) <=> ~ReadMustPause(p, Buffered(g[d]), MaxResponseBuffer))
  <2> DEFINE x == w.conn[d]
             y == ReadInterest(p, x)
  <2>1. x \in Conns /\ Good(x, w.budget.held[d])
    BY <1>0, <1>1 DEF AllGood
  <2>2. /\ y \in Conns /\ y.io = x.io /\ y.out = x.out /\ y.up = x.up /\ y.lease = x.lease
        /\ Reading(x) /\ x.up # NoUpstream =>
              ((y.upReg # {}) <=> ~ReadMustPause(p, Buffered(x), MaxResponseBuffer))
    BY <2>1, ReadInterestFacts
  <2>3. Good(y, w.budget.held[d])
    BY <2>1, ReadInterestGood
  <2>4. g[d] = y
    OBVIOUS
  <2> HIDE DEF y, x, g
  <2>5. (Reading(y) <=> Reading(x)) /\ Buffered(y) = Buffered(x)
    BY <2>2 DEF Reading, Buffered
  <2> QED
    BY <2>2, <2>3, <2>4, <2>5 DEF x
<1>4. g \in [D -> Conns] /\ DOMAIN g = D
  BY <1>3
<1> HIDE DEF g
<1>5. /\ n = [conn |-> g, budget |-> w.budget, leases |-> w.leases, halted |-> w.halted]
  BY <1>1, <1>2
<1>6. /\ n.conn = g /\ n.budget = w.budget /\ n.leases = w.leases /\ n.halted = w.halted
      /\ DOMAIN n.conn = D
  BY <1>4, <1>5
<1>7. \A u \in Upstreams : Holders(n, u) = Holders(w, u)
  BY <1>3, <1>6 DEF Holders
<1>8. Whole(n)
  <2>1. n \in [conn : [DOMAIN n.conn -> Conns], budget : Budgets,
               leases : [Upstreams -> Nat], halted : BOOLEAN]
    BY <1>1, <1>4, <1>5, <1>6
  <2>2. \A d \in Owners \ DOMAIN n.conn : n.budget.held[d] = EmptySlots
    BY <1>0, <1>6 DEF Whole
  <2>3. \A u \in Upstreams : n.leases[u] = Cardinality(Holders(n, u))
    BY <1>0, <1>6, <1>7 DEF Whole
  <2> QED
    BY <1>1, <1>6, <2>1, <2>2, <2>3 DEF Whole
<1>9. AllGood(n)
  BY <1>3, <1>6 DEF AllGood
<1>10. \A d \in D : Kept(g[d]) <=> Kept(w.conn[d])
  BY <1>3 DEF Kept, InUpstream
<1>11. Follows(v, n, c, kept)
  BY <1>3, <1>6, <1>8, <1>9, <1>10 DEF Follows
<1> QED
  BY <1>3, <1>6, <1>11

(* The empty world is in order.                                             *)
LEMMA NewWorldFollows ==
    ASSUME NEW v, NEW w, NEW c, NEW kept, w \in {NewWorld, [NewWorld EXCEPT !.halted = TRUE]}
    PROVE  Follows(v, w, c, kept) /\ DOMAIN w.conn = {}
<1>1. CASE w = NewWorld
  <2>1. w = [conn |-> <<>>, budget |-> NewBudget, leases |-> [u \in Upstreams |-> 0],
             halted |-> FALSE]
    BY <1>1 DEF NewWorld
  <2>2. w.conn = <<>> /\ w.budget = NewBudget /\ w.leases = [u \in Upstreams |-> 0]
    BY <2>1
  <2>3. Whole(w) /\ AllGood(w) /\ DOMAIN w.conn = {}
    BY <2>1, <2>2, EmptyWorldWhole
  <2> QED
    BY <2>3 DEF Follows
<1>2. CASE w = [NewWorld EXCEPT !.halted = TRUE]
  <2>1. w = [conn |-> <<>>, budget |-> NewBudget, leases |-> [u \in Upstreams |-> 0],
             halted |-> TRUE]
    BY <1>2 DEF NewWorld
  <2>2. w.conn = <<>> /\ w.budget = NewBudget /\ w.leases = [u \in Upstreams |-> 0]
    BY <2>1
  <2>3. Whole(w) /\ AllGood(w) /\ DOMAIN w.conn = {}
    BY <2>1, <2>2, EmptyWorldWhole
  <2> QED
    BY <2>3 DEF Follows
<1> QED
  BY <1>1, <1>2

(* The step of the loop that runs a handler.                               *)
LEMMA Becoming ==
    ASSUME NEW n, Becomes(n), NEW c, NEW kept, n.halted \/ Follows(rt, n, c, kept)
    PROVE  Follows(rt, rt', c, kept)
<1>1. CASE n.halted
  <2>1. rt' = [NewWorld EXCEPT !.halted = TRUE]
    BY <1>1 DEF Becomes
  <2> QED
    BY <2>1, NewWorldFollows
<1>2. CASE ~n.halted
  <2>1. rt' = n
    BY <1>2 DEF Becomes
  <2> QED
    BY <1>2, <2>1
<1> QED
  BY <1>1, <1>2

(* The step of the loop that runs a handler that is done.                   *)
LEMMA BecomingDone ==
    ASSUME Whole(rt), AllGood(rt), NEW n, Becomes(n), NEW c, NEW kept, Done(rt, n, c, kept)
    PROVE  Follows(rt, rt', c, kept)
<1>1. n.halted \/ Follows(rt, n, c, kept)
  BY DoneFollows
<1> QED
  BY <1>1, Becoming

(* The world before a handler.                                              *)
LEMMA Unlocated ==
    ASSUME NEW w, Whole(w), NEW c, c \in DOMAIN w.conn
    PROVE  At(w, w, c)
BY DEF At, Rest

(* reconcile_transport_payload_charges, of the connection c                *)
LEMMA SyncedDone ==
    ASSUME NEW w, NEW c, At(w, w, c), Good(w.conn[c], w.budget.held[c]),
           NEW kept, Kept(w.conn[c]) => kept,
           NEW n, n = Synced(w, c, BudgetSync(w.budget, c, "tls", TlsPending(w.conn[c])))
    PROVE  Done(w, n, c, kept)
<1> DEFINE x == w.conn[c]
           h == w.budget.held[c]
           k == TlsPending(x)
           r == BudgetSync(w.budget, c, "tls", k)
           m == SetBudget(w, r.budget)
<1>0. /\ x \in Conns /\ Fit(x, h) /\ Accounted(w.budget) /\ c \in Owners
      /\ "tls" \in Slots /\ "response" \in Slots \ {"tls"}
  BY AtFacts DEF Good, Fit, Slots
<1>1. k \in Nat
  BY <1>0 DEF TlsPending, Conns
<1>2. n = Synced(w, c, r)
  OBVIOUS
<1> HIDE DEF k
<1>3. OneSlot(w.budget, r, c, "tls", k)
  BY <1>0, <1>1, SyncCharged
<1> HIDE DEF r
<1>4. /\ Accounted(r.budget) /\ \A d \in Owners \ {c} : r.budget.held[d] = w.budget.held[d]
      /\ r.budget.held[c]["response"] = h["response"] /\ r.ok \in BOOLEAN
  BY <1>0, <1>3 DEF OneSlot, Charged
<1>5. At(w, m, c) /\ m.budget = r.budget /\ m.conn = w.conn
  BY <1>4, BudgetAt
<1>6. n = IF r.ok THEN m ELSE RemoveConnection(DropUpstream(m, c), c)
  BY <1>2 DEF Synced
<1> HIDE DEF m
<1>7. Fit(m.conn[c], m.budget.held[c])
  <2>1. x.upReg = {} \/ (x.up # NoUpstream /\ InUpstream(x))
    BY <1>0 DEF Fit, Led
  <2>2. x.clReg = {} \/ x.io.state # "Failed"
    BY <1>0 DEF Fit, Owned
  <2> DEFINE g == m.budget.held[c]
  <2>3. g["response"] = h["response"]
    BY <1>4, <1>5
  <2> HIDE DEF g, x
  <2>4. Fit(x, g)
    BY <1>0, <2>1, <2>2, <2>3, FitLike
  <2> QED
    BY <1>5, <2>4 DEF g, x
<1>8. CASE r.ok
  <2>1. Good(m.conn[c], m.budget.held[c]) /\ (Kept(m.conn[c]) => kept)
    BY <1>5, <1>7 DEF Good
  <2> QED
    BY <1>5, <1>6, <1>8, <2>1 DEF Done, At
<1>9. CASE ~r.ok
  <2> DEFINE d == DropUpstream(m, c)
  <2>1. At(w, d, c)
    BY <1>5, <1>7, DropAt
  <2> HIDE DEF d
  <2>2. n = RemoveConnection(d, c)
    BY <1>6, <1>9 DEF d
  <2> QED
    BY <2>1, <2>2, RemoveDone
<1> QED
  BY <1>4, <1>8, <1>9

(* reconcile_transport leaves a world in order, or ends the loop.           *)
LEMMA TransportFollows ==
    ASSUME NEW w, Whole(w), AllGood(w), NEW c, NEW kept,
           c \in DOMAIN w.conn /\ Kept(w.conn[c]) => kept, NEW n, n = ReconcileTransport(w, c)
    PROVE  n.halted \/ Follows(w, n, c, kept)
<1> DEFINE m == IF Live(w, c)
                THEN Synced(w, c, BudgetSync(w.budget, c, "tls", TlsPending(w.conn[c]))) ELSE w
<1>1. n = Enforce(m)
  BY DEF ReconcileTransport
<1>2. m.halted \/ Follows(w, m, c, kept)
  <2>1. CASE Live(w, c)
    <3> DEFINE s == Synced(w, c, BudgetSync(w.budget, c, "tls", TlsPending(w.conn[c])))
    <3>1. At(w, w, c) /\ Good(w.conn[c], w.budget.held[c])
      BY <2>1, Unlocated DEF Live, AllGood
    <3>2. Done(w, s, c, kept)
      BY <2>1, <3>1, SyncedDone DEF Live
    <3>3. m = s
      BY <2>1
    <3> HIDE DEF s, m
    <3> QED
      BY <3>2, <3>3, DoneFollows
  <2>2. CASE ~Live(w, c)
    <3>1. m = w
      BY <2>2
    <3> HIDE DEF m
    <3> QED
      BY <3>1, StaysFollows
  <2> QED
    BY <2>1, <2>2
<1> HIDE DEF m
<1>3. CASE m.halted
  <2>1. Enforce(m).halted
    BY <1>3 DEF Enforce
  <2> QED
    BY <1>1, <2>1
<1>4. CASE Follows(w, m, c, kept)
  BY <1>1, <1>4, EnforceFollows
<1> QED
  BY <1>2, <1>3, <1>4

(* A connection that is closed with its upstream.                          *)
LEMMA ClosedFollows ==
    ASSUME NEW w, Whole(w), AllGood(w), ~w.halted, NEW c, c \in DOMAIN w.conn, NEW kept
    PROVE  Follows(w, RemoveConnection(DropUpstream(w, c), c), c, kept)
<1> DEFINE d == DropUpstream(w, c)
           n == RemoveConnection(d, c)
<1>1. At(w, w, c) /\ Fit(w.conn[c], w.budget.held[c])
  BY Unlocated DEF AllGood, Good
<1>2. At(w, d, c) /\ d.halted = w.halted
  BY <1>1, DropAt
<1> HIDE DEF d
<1>3. Done(w, n, c, kept) /\ n.halted = d.halted
  BY <1>2, RemoveDone, RemoveRest
<1> HIDE DEF n
<1>4. Follows(w, n, c, kept)
  BY <1>2, <1>3, DoneFollows
<1> QED
  BY <1>4 DEF n, d

(* cleanup_closed *)
LEMMA CleanupFollows ==
    ASSUME NEW w, Whole(w), AllGood(w), ~w.halted, NEW c, NEW kept
    PROVE  Follows(w, CleanupClosed(w, c), c, kept)
<1>1. CASE c \in DOMAIN w.conn
  BY <1>1, ClosedFollows DEF CleanupClosed
<1>2. CASE c \notin DOMAIN w.conn
  <2> DEFINE y == [w.conn[c] EXCEPT !.up = NoUpstream, !.upReg = {}, !.reuse = NoUpstream]
             g == [w.conn EXCEPT ![c] = y]
  <2>1. w.conn \in [DOMAIN w.conn -> Conns]
        /\ w = [conn |-> w.conn, budget |-> w.budget, leases |-> w.leases, halted |-> w.halted]
    BY WholeFacts
  <2>2. DropUpstream(w, c) = [w EXCEPT !.conn = g]
    BY DEF DropUpstream, Put
  <2>3. g = w.conn
    <3> HIDE DEF y
    <3> QED
      BY <1>2, <2>1
  <2> HIDE DEF g
  <2>4. DropUpstream(w, c) = w
    BY <2>1, <2>2, <2>3
  <2>5. CleanupClosed(w, c) = w
    BY <1>2, <2>4 DEF CleanupClosed, RemoveConnection, Live
  <2> QED
    BY <1>2, <2>5, StaysFollows
<1> QED
  BY <1>1, <1>2

(* The connection accept_ready inserts.                                    *)
LEMMA NewConnectionGood ==
    NewConnection \in Conns /\ Good(NewConnection, EmptySlots) /\ NewConnection.up = NoUpstream
    /\ NewConnection.lease = NoUpstream
<1> DEFINE x == NewConnection
<1>1. /\ x.io = NewIo /\ x.out = 0 /\ x.batch = 0 /\ x.up = NoUpstream /\ x.upReg = {}
      /\ x.lease = NoUpstream /\ x.closeAfter = FALSE /\ x.deadline = TRUE /\ x.sent = {}
      /\ x.clReg = {"r"}
  BY DEF NewConnection
<1>2. /\ NewIo \in IoRecords /\ NewIo.state = "Accepted" /\ NewIo.attempt = FreshAttempt
      /\ NewIo.clientWrite = 0 /\ NewIo.upstreamWrite = 0
  BY FreshFacts DEF NewIo, IoRecords, ConnectionStates
<1>3. x \in Conns
  BY <1>2 DEF NewConnection, Conns, Peers
<1>4. Sound(x.io)
  BY <1>1, <1>2, FreshFacts DEF Sound, Coherent
<1> HIDE DEF x
<1>5. Led(x) /\ Handed(x)
  BY <1>1, <1>2 DEF Led, Handed, InUpstream, Readable
<1>6. Owned(x, EmptySlots)
  <2>1. EmptySlots["response"] = 0
    BY DEF EmptySlots, Slots
  <2> QED
    BY <1>1, <1>2, <2>1 DEF Owned, Quiet
<1>7. Armed(x)
  BY <1>1, <1>2 DEF Armed, TimeoutKind
<1>8. x \in Conns /\ Good(x, EmptySlots) /\ x.up = NoUpstream /\ x.lease = NoUpstream
  BY <1>1, <1>3, <1>4, <1>5, <1>6, <1>7 DEF Good, Fit
<1> QED
  BY <1>8 DEF x

(* A connection that is accepted is in order and keeps no upstream socket.  *)
LEMMA AcceptFollows ==
    ASSUME NEW w, Whole(w), AllGood(w), NEW c \in Owners \ DOMAIN w.conn,
           NEW n, n = AcceptConnection(w, c)
    PROVE  n.halted \/ Follows(w, n, c, FALSE)
<1> DEFINE D == DOMAIN w.conn
           E == D \cup {c}
           g == [d \in E |-> IF d = c THEN NewConnection ELSE w.conn[d]]
           m == [w EXCEPT !.conn = g]
<1>1. n = ReconcileTransport(m, c)
  BY DEF AcceptConnection
<1>2. /\ w.conn \in [D -> Conns] /\ D \subseteq Owners /\ IsFiniteSet(D)
      /\ w.budget \in Budgets /\ Accounted(w.budget)
      /\ w.leases \in [Upstreams -> Nat] /\ w.halted \in BOOLEAN
      /\ w = [conn |-> w.conn, budget |-> w.budget, leases |-> w.leases, halted |-> w.halted]
  BY WholeFacts DEF Whole
<1>3. /\ g[c] = NewConnection /\ \A d \in D : g[d] = w.conn[d]
      /\ DOMAIN g = E /\ g \in [E -> Conns]
  BY <1>2, NewConnectionGood
<1> HIDE DEF g
<1>4. m = [conn |-> g, budget |-> w.budget, leases |-> w.leases, halted |-> w.halted]
  BY <1>2
<1> HIDE DEF m
<1>5. /\ m.conn = g /\ m.budget = w.budget /\ m.leases = w.leases /\ m.halted = w.halted
      /\ DOMAIN m.conn = E
  BY <1>3, <1>4
<1>6. \A u \in Upstreams : Holders(m, u) = Holders(w, u)
  BY <1>3, <1>5, NewConnectionGood, RuntimeAssumption DEF Holders
<1>7. Whole(m)
  <2>1. m \in [conn : [DOMAIN m.conn -> Conns], budget : Budgets,
               leases : [Upstreams -> Nat], halted : BOOLEAN]
    BY <1>2, <1>3, <1>4, <1>5
  <2>2. \A d \in Owners \ DOMAIN m.conn : m.budget.held[d] = EmptySlots
    BY <1>5 DEF Whole
  <2>3. \A u \in Upstreams : m.leases[u] = Cardinality(Holders(m, u))
    BY <1>5, <1>6 DEF Whole
  <2>4. IsFiniteSet(E) /\ E \subseteq Owners
    BY <1>2, FS_AddElement
  <2> QED
    BY <1>2, <1>5, <2>1, <2>2, <2>3, <2>4 DEF Whole
<1>8. AllGood(m)
  <2>1. w.budget.held[c] = EmptySlots
    BY DEF Whole
  <2>2. \A d \in D : Good(w.conn[d], w.budget.held[d])
    BY DEF AllGood
  <2> QED
    BY <1>3, <1>5, <2>1, <2>2, NewConnectionGood DEF AllGood
<1>9. ~Kept(m.conn[c])
  BY <1>3, <1>5, NewConnectionGood DEF Kept
<1>10. n.halted \/ Follows(m, n, c, FALSE)
  BY <1>1, <1>7, <1>8, <1>9, TransportFollows
<1>11. ASSUME Follows(m, n, c, FALSE)
       PROVE  Follows(w, n, c, FALSE)
  BY <1>3, <1>5, <1>11 DEF Follows
<1> QED
  BY <1>10, <1>11

-----------------------------------------------------------------------------
(* The handlers, as the loop runs them.                                    *)

(* A connection of the loop: where it is, and whether it has a kept        *)
(* upstream socket.                                                        *)
HadKept(c) == c \in DOMAIN rt.conn /\ Kept(rt.conn[c])

(* A connection that is there is in order.                                  *)
LEMMA LiveFacts ==
    ASSUME Whole(rt), AllGood(rt), NEW c, c \in DOMAIN rt.conn
    PROVE  At(rt, rt, c) /\ Good(rt.conn[c], rt.budget.held[c]) /\ (Kept(rt.conn[c]) => HadKept(c))
BY Unlocated DEF AllGood, HadKept

(* A handler for a connection that is gone changes nothing.                 *)
LEMMA GoneFollows ==
    ASSUME Whole(rt), AllGood(rt), NEW c, c \notin DOMAIN rt.conn, NEW kept,
           NEW n, n = rt, Becomes(n)
    PROVE  Follows(rt, rt', c, kept)
<1>1. Follows(rt, n, c, kept)
  BY StaysFollows
<1> QED
  BY <1>1, Becoming

(* Where no retry is asked for, the answer does not matter.                 *)
LEMMA NoRetryTyped == NoRetry \in RetryScripts
BY DEF RetryScripts

(* read_client leaves a world in order.                                     *)
LEMMA ReadClientFollows ==
    ASSUME Whole(rt), AllGood(rt), NEW c, Reads(rt, c), ReadClientStep(c)
    PROVE  Follows(rt, rt', c, HadKept(c))
<1>1. PICK part \in BOOLEAN, end \in ReadEnds, route \in Routes, s \in RetryScripts :
         Becomes(ReadClient(rt, c, part, end, route, s))
  <2>1. CASE \E part \in BOOLEAN, end \in ReadEnds \ {"complete"} :
               Becomes(ReadClient(rt, c, part, end, [kind |-> "reply"], NoRetry))
    <3>1. [kind |-> "reply"] \in Routes
      BY DEF Routes
    <3> QED
      BY <2>1, <3>1, NoRetryTyped
  <2>2. CASE \E part \in BOOLEAN, route \in Routes :
               \E s \in IF route.kind = "proxy" /\ ~route.dialled THEN RetryScripts ELSE {NoRetry} :
                  Becomes(ReadClient(rt, c, part, "complete", route, s))
    <3>1. "complete" \in ReadEnds
      BY DEF ReadEnds
    <3> QED
      BY <2>2, <3>1, NoRetryTyped
  <2> QED
    BY <2>1, <2>2 DEF ReadClientStep
<1> DEFINE n == ReadClient(rt, c, part, end, route, s)
<1>2. CASE c \in DOMAIN rt.conn
  <2>1. /\ At(rt, rt, c) /\ Good(rt.conn[c], rt.budget.held[c]) /\ Readable(rt.conn[c])
        /\ rt.conn[c].up # NoUpstream => HadKept(c)
    BY <1>2, LiveFacts DEF Reads, Readable, Kept, InUpstream
  <2>2. Done(rt, n, c, HadKept(c))
    BY <2>1, ReadClientDone
  <2> HIDE DEF n
  <2>3. Becomes(n)
    BY <1>1 DEF n
  <2> QED
    BY <2>2, <2>3, BecomingDone
<1>3. CASE c \notin DOMAIN rt.conn
  <2>1. n = rt
    BY <1>3 DEF ReadClient, Live
  <2> HIDE DEF n
  <2>2. Becomes(n)
    BY <1>1 DEF n
  <2> QED
    BY <1>3, <2>1, <2>2, GoneFollows
<1> QED
  BY <1>2, <1>3

(* write_client leaves a world in order.                                    *)
LEMMA WriteClientFollows ==
    ASSUME Whole(rt), AllGood(rt), NEW c, WriteClientStep(c)
    PROVE  Follows(rt, rt', c, HadKept(c))
<1>1. PICK write \in WriteOutcomes, write2 \in WriteOutcomes :
         Becomes(WriteClient(rt, c, write, write2))
  BY DEF WriteClientStep
<1> DEFINE n == WriteClient(rt, c, write, write2)
<1>2. CASE c \in DOMAIN rt.conn
  <2>1. /\ At(rt, rt, c) /\ Good(rt.conn[c], rt.budget.held[c])
        /\ Kept(rt.conn[c]) => HadKept(c)
    BY <1>2, LiveFacts
  <2>2. Done(rt, n, c, HadKept(c))
    BY <2>1, WriteClientDone
  <2> HIDE DEF n
  <2>3. Becomes(n)
    BY <1>1 DEF n
  <2> QED
    BY <2>2, <2>3, BecomingDone
<1>3. CASE c \notin DOMAIN rt.conn
  <2>1. n = rt
    BY <1>3 DEF WriteClient, Live
  <2> HIDE DEF n
  <2>2. Becomes(n)
    BY <1>1 DEF n
  <2> QED
    BY <1>3, <2>1, <2>2, GoneFollows
<1> QED
  BY <1>2, <1>3

(* write_upstream leaves a world in order.                                  *)
LEMMA WriteUpstreamFollows ==
    ASSUME Whole(rt), AllGood(rt), NEW c, Active(rt, c), WriteUpstreamStep(c)
    PROVE  Follows(rt, rt', c, HadKept(c))
<1>1. PICK o \in WriteScripts, s \in RetryScripts : Becomes(WriteUpstream(rt, c, o, s))
  BY NoRetryTyped DEF WriteUpstreamStep
<1> DEFINE n == WriteUpstream(rt, c, o, s)
<1>2. CASE c \in DOMAIN rt.conn
  <2>1. /\ At(rt, rt, c) /\ Good(rt.conn[c], rt.budget.held[c])
        /\ Kept(rt.conn[c]) => HadKept(c)
        /\ rt.conn[c].up = NoUpstream \/ InUpstream(rt.conn[c])
    BY <1>2, LiveFacts DEF Active
  <2>2. Done(rt, n, c, HadKept(c))
    BY <2>1, WriteUpstreamDone
  <2> HIDE DEF n
  <2>3. Becomes(n)
    BY <1>1 DEF n
  <2> QED
    BY <2>2, <2>3, BecomingDone
<1>3. CASE c \notin DOMAIN rt.conn
  <2>1. n = rt
    BY <1>3 DEF WriteUpstream, Live
  <2> HIDE DEF n
  <2>2. Becomes(n)
    BY <1>1 DEF n
  <2> QED
    BY <1>3, <2>1, <2>2, GoneFollows
<1> QED
  BY <1>2, <1>3

(* read_upstream leaves a world in order; only it makes a socket a kept     *)
(* one.                                                                     *)
LEMMA ReadUpstreamFollows ==
    ASSUME Whole(rt), AllGood(rt), NEW c, Active(rt, c), ReadUpstreamStep(c)
    PROVE  Follows(rt, rt', c, TRUE)
<1>1. CASE rt' = rt
  BY <1>1, StaysFollows
<1>2. CASE rt' # rt
  <2>0. c \in DOMAIN rt.conn /\ rt.conn[c].up # NoUpstream
    BY <1>2 DEF ReadUpstreamStep, Live
  <2>1. /\ At(rt, rt, c) /\ Good(rt.conn[c], rt.budget.held[c]) /\ InUpstream(rt.conn[c])
    BY <2>0, LiveFacts DEF Active
  <2>2. CASE rt.conn[c].io.state = "HandshakingUpstreamTls"
    <3>1. PICK end \in {"block", "flight", "established", "fail"}, s \in RetryScripts :
             Becomes(ReadTlsHandshake(rt, c, end, s))
      BY <2>0, <2>2 DEF ReadUpstreamStep, Live
    <3> DEFINE n == ReadTlsHandshake(rt, c, end, s)
    <3>2. Done(rt, n, c, TRUE)
      BY <2>1, <2>2, ReadTlsDone
    <3> HIDE DEF n
    <3>3. Becomes(n)
      BY <3>1 DEF n
    <3> QED
      BY <3>2, <3>3, BecomingDone
  <2>3. CASE rt.conn[c].io.state # "HandshakingUpstreamTls"
    <3>1. PICK part \in BOOLEAN, end \in ResponseEnds : Becomes(ReadResponse(rt, c, part, end))
      BY <2>0, <2>3 DEF ReadUpstreamStep, Live
    <3> DEFINE n == ReadResponse(rt, c, part, end)
    <3>2. Done(rt, n, c, TRUE)
      BY <2>1, ReadResponseDone
    <3> HIDE DEF n
    <3>3. Becomes(n)
      BY <3>1 DEF n
    <3> QED
      BY <3>2, <3>3, BecomingDone
  <2> QED
    BY <2>2, <2>3
<1> QED
  BY <1>1, <1>2

(* An expired deadline leaves a world in order.                             *)
LEMMA ExpireFollows ==
    ASSUME Whole(rt), AllGood(rt), NEW c, NEW s \in RetryScripts,
           Becomes(ExpireConnection(rt, c, s))
    PROVE  Follows(rt, rt', c, HadKept(c))
<1> DEFINE n == ExpireConnection(rt, c, s)
<1>2. CASE c \in DOMAIN rt.conn
  <2>1. /\ At(rt, rt, c) /\ Good(rt.conn[c], rt.budget.held[c])
        /\ Kept(rt.conn[c]) => HadKept(c)
    BY <1>2, LiveFacts
  <2>2. Done(rt, n, c, HadKept(c))
    BY <2>1, ExpireDone
  <2>3. Becomes(n)
    OBVIOUS
  <2> HIDE DEF n
  <2> QED
    BY <2>2, <2>3, BecomingDone
<1>3. CASE c \notin DOMAIN rt.conn
  <2>1. n = rt
    BY <1>3 DEF ExpireConnection, Live
  <2>2. Becomes(n)
    OBVIOUS
  <2> HIDE DEF n
  <2> QED
    BY <1>3, <2>1, <2>2, GoneFollows
<1> QED
  BY <1>2, <1>3

-----------------------------------------------------------------------------
(* What is still to be delivered.                                          *)

LEMMA ActiveOthers ==
    ASSUME NEW c, NEW kept, Follows(rt, rt', c, kept), NEW d, d # c, Active(rt, d)
    PROVE  Active(rt', d)
BY DEF Follows, Active, InUpstream

(* A handler leaves the state of the other connections.                     *)
LEMMA ReadsOthers ==
    ASSUME NEW c, NEW kept, Follows(rt, rt', c, kept), NEW d, d # c, Reads(rt, d)
    PROVE  Reads(rt', d)
BY DEF Follows, Reads, Readable

(* Unless read_upstream did it, no socket becomes a kept one.               *)
LEMMA ActiveStays ==
    ASSUME NEW c, Follows(rt, rt', c, HadKept(c)), NEW d, Active(rt, d)
    PROVE  Active(rt', d)
<1>1. CASE d # c
  BY <1>1, ActiveOthers
<1>2. CASE d = c
  <2>1. ~HadKept(c)
    BY <1>2 DEF Active, HadKept, Kept
  <2>2. c \in DOMAIN rt'.conn => ~Kept(rt'.conn[c])
    BY <2>1 DEF Follows
  <2> QED
    BY <1>2, <2>2 DEF Active, Kept
<1> QED
  BY <1>1, <1>2

(* The calls that the delivery of an event makes.                           *)
Calls == [op : UpstreamOps \cup {"ReadClient", "WriteClient", "Reconcile"}, c : Owners]

(* A step between two deliveries.                                          *)
LEMMA PromisedStays ==
    ASSUME Promised, work = <<>>, work' = <<>>, events' \subseteq events,
           \A d : Active(rt, d) => Active(rt', d),
           turn' = "drive" => \A d \in todo' : Reads(rt', d)
    PROVE  Promised'
<1>1. DOMAIN work' = {} /\ work' \in Seq(Calls)
  OBVIOUS
<1>2. /\ (events \subseteq [side : {"client", "upstream"}, c : Owners, ready : SUBSET {"r", "w", "e"}])'
      /\ \A e, f \in events' : e.side = f.side /\ e.c = f.c => e = f
      /\ \A e \in events' : e.side = "upstream" => Active(rt', e.c)
  BY DEF Promised
<1> QED
  BY <1>1, <1>2 DEF Promised, Calls

(* A step that delivers the first of the calls of an event.                *)
LEMMA PromisedTail ==
    ASSUME Promised, NEW op, Handle(op),
           \A d : Active(rt, d) /\ d # Head(work).c => Active(rt', d),
           op # "ReadUpstream" => \A d : Active(rt, d) => Active(rt', d)
    PROVE  Promised'
<1> DEFINE n == Len(work)
<1>1. /\ work \in Seq(Calls) /\ work # <<>> /\ turn = "events" /\ turn' = turn
      /\ work' = Tail(work) /\ events' = events /\ work[1].op = op /\ Head(work) = work[1]
  BY DEF Promised, Handle, Calls
<1>2. n \in Nat \ {0} /\ DOMAIN work = 1 .. n
  BY <1>1
<1>3. /\ work' \in Seq(Calls) /\ DOMAIN work' = 1 .. (n - 1)
      /\ \A i \in 1 .. (n - 1) : work'[i] = work[i + 1] /\ i + 1 \in DOMAIN work
  BY <1>1, <1>2
<1>4. 1 \in DOMAIN work
  BY <1>2
<1>5. op = "ReadUpstream" =>
         /\ \A j \in DOMAIN work : j > 1 => work[j].op = "Reconcile"
         /\ \A e \in events : e.side = "upstream" => e.c # work[1].c
  BY <1>1, <1>4 DEF Promised, UpstreamOps
<1>6. ASSUME NEW e \in events, e.side = "upstream" PROVE Active(rt', e.c)
  <2>1. Active(rt, e.c)
    BY <1>6 DEF Promised
  <2>2. CASE op = "ReadUpstream"
    BY <1>1, <1>5, <1>6, <2>1, <2>2
  <2>3. CASE op # "ReadUpstream"
    BY <2>1, <2>3
  <2> QED
    BY <2>2, <2>3
<1>7. ASSUME NEW i \in DOMAIN work', work'[i].op \in UpstreamOps
      PROVE  /\ Active(rt', work'[i].c)
             /\ \A e \in events' : e.side = "upstream" => e.c # work'[i].c
             /\ work'[i].op = "ReadUpstream" =>
                   \A j \in DOMAIN work' : j > i => work'[j].op = "Reconcile"
  <2> DEFINE k == i + 1
  <2>1. i \in 1 .. (n - 1) /\ k \in DOMAIN work /\ work'[i] = work[k] /\ k > 1
    BY <1>3, <1>7
  <2> HIDE DEF k
  <2>2. /\ Active(rt, work[k].c)
        /\ \A e \in events : e.side = "upstream" => e.c # work[k].c
        /\ work[k].op = "ReadUpstream" =>
              \A j \in DOMAIN work : j > k => work[j].op = "Reconcile"
    BY <1>7, <2>1 DEF Promised
  <2>3. op # "ReadUpstream"
    BY <1>5, <1>7, <2>1 DEF UpstreamOps
  <2>4. ASSUME work[k].op = "ReadUpstream", NEW j \in DOMAIN work', j > i
        PROVE  work'[j].op = "Reconcile"
    <3>1. j \in 1 .. (n - 1) /\ j + 1 \in DOMAIN work /\ work'[j] = work[j + 1] /\ j + 1 > k
      BY <1>3, <2>1, <2>4 DEF k
    <3> QED
      BY <2>2, <2>4, <3>1
  <2> QED
    BY <1>1, <2>1, <2>2, <2>3, <2>4
<1>8. ASSUME NEW i \in DOMAIN work', work'[i].op = "ReadClient" PROVE FALSE
  <2>1. i \in 1 .. (n - 1) /\ i + 1 \in DOMAIN work /\ work'[i] = work[i + 1]
    BY <1>3
  <2>2. i + 1 = 1
    BY <1>8, <2>1 DEF Promised
  <2> QED
    BY <2>1, <2>2
<1>9. ASSUME NEW i \in DOMAIN work', NEW j \in DOMAIN work' PROVE work'[i].c = work'[j].c
  <2>1. /\ i + 1 \in DOMAIN work /\ work'[i] = work[i + 1]
        /\ j + 1 \in DOMAIN work /\ work'[j] = work[j + 1]
    BY <1>3
  <2> QED
    BY <2>1 DEF Promised
<1>10. /\ (events \subseteq [side : {"client", "upstream"}, c : Owners, ready : SUBSET {"r", "w", "e"}])'
       /\ \A e, f \in events' : e.side = f.side /\ e.c = f.c => e = f
  BY <1>1 DEF Promised
<1> QED
  BY <1>1, <1>3, <1>6, <1>7, <1>8, <1>9, <1>10 DEF Promised, Calls

(* The handlers that an event runs.                                        *)
Ops == UpstreamOps \cup {"ReadClient", "WriteClient"}
(* Two handlers at most, in their order.                                   *)
UpTo(f, g) == {<<>>, <<f>>, <<g>>, <<f, g>>}
(* Where each of two handlers stands.                                       *)
LEMMA UpToFacts ==
    ASSUME NEW f \in Ops, NEW g \in Ops, NEW h \in UpTo(f, g)
    PROVE  /\ h \in Seq(Ops) /\ DOMAIN h = 1 .. Len(h)
           /\ \A i \in DOMAIN h : (h[i] = f /\ i = 1) \/ (h[i] = g /\ i = Len(h))
<1>1. CASE h = <<>>
  BY <1>1
<1>2. CASE h = <<f>>
  BY <1>2
<1>3. CASE h = <<g>>
  BY <1>3
<1>4. CASE h = <<f, g>>
  BY <1>4
<1> QED
  BY <1>1, <1>2, <1>3, <1>4 DEF UpTo

(* Two sequences of one.                                                    *)
LEMMA PairJoined ==
    ASSUME NEW S, NEW p \in Seq(S), NEW q \in Seq(S), Len(p) = 1, Len(q) = 1
    PROVE  p \o q = <<p[1], q[1]>>
<1> DEFINE z == p \o q
           y == <<p[1], q[1]>>
<1>1. /\ z \in Seq(S) /\ Len(z) = Len(p) + Len(q)
      /\ \A i \in 1 .. Len(p) + Len(q) : z[i] = IF i <= Len(p) THEN p[i] ELSE q[i - Len(p)]
  BY ConcatProperties
<1>2. p[1] \in S /\ q[1] \in S
  <2>1. 1 \in 1 .. Len(p) /\ 1 \in 1 .. Len(q)
    OBVIOUS
  <2> QED
    BY <2>1, ElementOfSeq
<1>3. y \in Seq(S) /\ Len(y) = 2 /\ y[1] = p[1] /\ y[2] = q[1]
  BY <1>2
<1> HIDE DEF z, y
<1>4. Len(z) = 2 /\ z[1] = p[1] /\ z[2] = q[1]
  BY <1>1
<1>5. \A i \in 1 .. 2 : z[i] = y[i]
  BY <1>3, <1>4
<1>6. z = y
  BY <1>1, <1>3, <1>4, <1>5
<1> QED
  BY <1>6 DEF z, y

(* A handler that an event may ask for, and then another one.              *)
LEMMA Joined ==
    ASSUME NEW f, NEW g
    PROVE  /\ <<>> \o <<>> \in UpTo(f, g) /\ <<f>> \o <<>> \in UpTo(f, g)
           /\ <<>> \o <<g>> \in UpTo(f, g) /\ <<f>> \o <<g>> \in UpTo(f, g)
<1>1. <<>> \o <<>> = <<>>
  OBVIOUS
<1>2. <<f>> \o <<>> = <<f>>
  OBVIOUS
<1>3. <<>> \o <<g>> = <<g>>
  OBVIOUS
<1>4. <<f>> \o <<g>> = <<f, g>>
  <2> DEFINE S == {f, g}
  <2>1. <<f>> \in Seq(S) /\ <<g>> \in Seq(S) /\ Len(<<f>>) = 1 /\ Len(<<g>>) = 1
    OBVIOUS
  <2>2. <<f>>[1] = f /\ <<g>>[1] = g
    OBVIOUS
  <2> HIDE DEF S
  <2> QED
    BY <2>1, <2>2, PairJoined
<1> QED
  BY <1>1, <1>2, <1>3, <1>4 DEF UpTo

(* The handlers of an event: a client read comes first and meets a          *)
(* connection that reads, an upstream read comes last.                      *)
LEMMA HandlersFacts ==
    ASSUME NEW e, NEW h, h = Handlers(e)
    PROVE  /\ h \in Seq(Ops)
           /\ \A i \in DOMAIN h :
                /\ h[i] = "ReadClient" => i = 1 /\ Reads(rt, e.c)
                /\ h[i] \in UpstreamOps => e.side # "client"
                /\ h[i] = "ReadUpstream" => i = Len(h)
<1>0. "ReadClient" \in Ops /\ "WriteClient" \in Ops /\ "WriteUpstream" \in Ops /\ "ReadUpstream" \in Ops
  BY DEF Ops, UpstreamOps
<1>1. CASE e.side = "client" /\ Reads(rt, e.c)
  <2>1. h \in UpTo("ReadClient", "WriteClient")
    BY <1>1, Joined DEF Handlers
  <2> QED
    BY <1>0, <1>1, <2>1, UpToFacts DEF UpstreamOps
<1>2. CASE e.side = "client" /\ ~Reads(rt, e.c)
  <2>1. h \in UpTo("WriteClient", "WriteClient")
    BY <1>2, Joined DEF Handlers, Reads, Live
  <2> QED
    BY <1>0, <2>1, UpToFacts DEF UpstreamOps
<1>3. CASE e.side # "client"
  <2>1. h \in UpTo("WriteUpstream", "ReadUpstream")
    BY <1>3, Joined DEF Handlers
  <2> QED
    BY <1>0, <1>3, <2>1, UpToFacts
<1> QED
  BY <1>1, <1>2, <1>3

(* An event that is delivered becomes calls that meet what they expect.     *)
LEMMA PromisedDelivery ==
    ASSUME Promised, turn = "events", turn' = turn, NEW e \in events, events' = events \ {e},
           rt' = rt, NEW h, h = Handlers(e),
           work' = [i \in DOMAIN h |-> [op |-> h[i], c |-> e.c]] \o <<[op |-> "Reconcile", c |-> e.c]>>
    PROVE  Promised'
<1> DEFINE n == Len(h)
           g == [i \in DOMAIN h |-> [op |-> h[i], c |-> e.c]]
           l == [op |-> "Reconcile", c |-> e.c]
<1>1. /\ h \in Seq(Ops)
      /\ \A i \in DOMAIN h :
            /\ h[i] = "ReadClient" => i = 1 /\ Reads(rt, e.c)
            /\ h[i] \in UpstreamOps => e.side # "client"
            /\ h[i] = "ReadUpstream" => i = Len(h)
  BY HandlersFacts
<1>2. n \in Nat /\ DOMAIN h = 1 .. n
  BY <1>1
<1>3. e \in [side : {"client", "upstream"}, c : Owners, ready : SUBSET {"r", "w", "e"}]
  BY DEF Promised
<1>4. e.c \in Owners /\ e.side \in {"client", "upstream"}
  BY <1>3
<1>5. \A i \in 1 .. n : h[i] \in Ops
  BY <1>1, <1>2
<1>6. g \in Seq(Calls) /\ Len(g) = n /\ \A i \in 1 .. n : g[i] = [op |-> h[i], c |-> e.c]
  <2>1. g \in [1 .. n -> Calls]
    BY <1>2, <1>4, <1>5 DEF Calls, Ops
  <2>2. g \in Seq(Calls)
    BY <1>2, <2>1
  <2> QED
    BY <1>2, <2>1, <2>2
<1>7. l \in Calls /\ <<l>> \in Seq(Calls) /\ Len(<<l>>) = 1 /\ <<l>>[1] = l
  BY <1>4 DEF Calls
<1>8. work' = g \o <<l>>
  OBVIOUS
<1> HIDE DEF g, l
<1>9. /\ work' \in Seq(Calls) /\ Len(work') = n + 1 /\ DOMAIN work' = 1 .. (n + 1)
      /\ \A i \in 1 .. n : work'[i] = g[i]
      /\ work'[n + 1] = l
  BY <1>2, <1>6, <1>7, <1>8
<1>10. ASSUME NEW i \in DOMAIN work'
       PROVE  /\ work'[i].c = e.c
              /\ i \in 1 .. n => work'[i].op = h[i]
              /\ i \notin 1 .. n => i = n + 1 /\ work'[i].op = "Reconcile"
  <2>1. CASE i \in 1 .. n
    BY <1>6, <1>9, <2>1
  <2>2. CASE i \notin 1 .. n
    BY <1>2, <1>9, <1>10, <2>2 DEF l
  <2> QED
    BY <2>1, <2>2
<1>11. ASSUME NEW i \in DOMAIN work', work'[i].op \in UpstreamOps
       PROVE  /\ Active(rt', work'[i].c)
              /\ \A f \in events' : f.side = "upstream" => f.c # work'[i].c
              /\ work'[i].op = "ReadUpstream" =>
                   \A j \in DOMAIN work' : j > i => work'[j].op = "Reconcile"
  <2>1. i \in 1 .. n /\ work'[i].op = h[i] /\ work'[i].c = e.c
    BY <1>10, <1>11 DEF UpstreamOps
  <2>2. e.side = "upstream"
    BY <1>1, <1>2, <1>4, <1>11, <2>1
  <2>3. Active(rt, e.c)
    BY <2>2 DEF Promised
  <2>4. \A f \in events' : f.side = "upstream" => f.c # e.c
    BY <2>2 DEF Promised
  <2>5. ASSUME work'[i].op = "ReadUpstream", NEW j \in DOMAIN work', j > i
        PROVE  work'[j].op = "Reconcile"
    <3>1. i = n
      BY <1>1, <1>2, <2>1, <2>5
    <3> QED
      BY <1>10, <2>5, <3>1
  <2> QED
    BY <2>1, <2>3, <2>4, <2>5
<1>12. ASSUME NEW i \in DOMAIN work', work'[i].op = "ReadClient"
       PROVE  i = 1 /\ Reads(rt', work'[i].c)
  <2>1. i \in 1 .. n /\ work'[i].op = h[i] /\ work'[i].c = e.c
    BY <1>10, <1>12
  <2> QED
    BY <1>1, <1>2, <1>12, <2>1
<1>13. \A i, j \in DOMAIN work' : work'[i].c = work'[j].c
  BY <1>10
<1>14. /\ (events \subseteq [side : {"client", "upstream"}, c : Owners, ready : SUBSET {"r", "w", "e"}])'
       /\ \A d, f \in events' : d.side = f.side /\ d.c = f.c => d = f
       /\ \A f \in events' : f.side = "upstream" => Active(rt', f.c)
  BY DEF Promised
<1> QED
  BY <1>9, <1>11, <1>12, <1>13, <1>14 DEF Promised, Calls

(* What poll reports of a socket.                                          *)
LEMMA ReportableFacts ==
    ASSUME Whole(rt), AllGood(rt), NEW c \in Connections, NEW e \in Reportable(c)
    PROVE  /\ e \in [side : {"client", "upstream"}, c : Owners, ready : SUBSET {"r", "w", "e"}]
           /\ e.c = c /\ (e.side = "upstream" => Active(rt, e.c))
<1> DEFINE x == rt.conn[c]
<1>1. /\ c \in Owners /\ x \in Conns /\ Led(x)
  <2>1. Good(x, rt.budget.held[c])
    BY DEF AllGood, Connections
  <2>2. c \in Owners
    BY DEF Whole, Connections
  <2> QED
    BY <2>1, <2>2 DEF Good, Fit
<1>2. x.upReg \subseteq {"r", "w"}
  BY <1>1 DEF Conns
<1>3. CASE e \in [side : {"client"}, c : {c},
                  ready : {r \in SUBSET {"r", "w", "e"} :
                              /\ r # {} /\ x.clReg # {}
                              /\ "w" \in r => "w" \in x.clReg
                              /\ "e" \in r => "r" \in r}]
  BY <1>1, <1>3
<1>4. CASE e \in [side : {"upstream"}, c : {c}, ready : (SUBSET x.upReg) \ {{}}]
  <2>1. e.c = c /\ e.side = "upstream" /\ e.ready \in SUBSET x.upReg /\ e.ready # {}
    <3> DEFINE S == (SUBSET x.upReg) \ {{}}
    <3>1. e \in [side : {"upstream"}, c : {c}, ready : S]
      BY <1>4
    <3> HIDE DEF S
    <3>2. e.c = c /\ e.side = "upstream" /\ e.ready \in S
      BY <3>1
    <3> QED
      BY <3>2 DEF S
  <2>2. x.upReg # {}
    BY <2>1
  <2>3. InUpstream(x)
    BY <1>1, <2>2 DEF Led
  <2>4. e \in [side : {"client", "upstream"}, c : Owners, ready : SUBSET {"r", "w", "e"}]
    BY <1>1, <1>2, <1>4
  <2> QED
    BY <2>1, <2>3, <2>4 DEF Active
<1> QED
  BY <1>3, <1>4 DEF Reportable

(* A batch speaks of sockets as they are when poll returns.                 *)
LEMMA PromisedPoll ==
    ASSUME Whole(rt), AllGood(rt), Promised, Poll
    PROVE  Promised'
<1>1. work = <<>> /\ work' = <<>> /\ rt' = rt /\ turn' = "expire2"
  BY DEF Poll, Promised
<1>2. /\ events' \subseteq UNION {Reportable(c) : c \in Connections}
      /\ \A e, f \in events' : e.side = f.side /\ e.c = f.c => e = f
  BY DEF Poll
<1>3. ASSUME NEW e \in events'
      PROVE  /\ e \in [side : {"client", "upstream"}, c : Owners, ready : SUBSET {"r", "w", "e"}]
             /\ e.side = "upstream" => Active(rt, e.c)
  <2>1. PICK c \in Connections : e \in Reportable(c)
    BY <1>2
  <2> QED
    BY <2>1, ReportableFacts
<1>4. DOMAIN work' = {} /\ work' \in Seq(Calls)
  BY <1>1
<1> QED
  BY <1>1, <1>2, <1>3, <1>4 DEF Promised, Calls

-----------------------------------------------------------------------------
(* The steps of the loop.                                                  *)

(* Of the connections a step leaves, none has a kept socket that had an    *)
(* attempt before.                                                         *)
Settled == Whole(rt') /\ AllGood(rt') /\ \A d : Active(rt, d) => Active(rt', d)

(* A handler that keeps no new socket.                                      *)
LEMMA FollowsSettled ==
    ASSUME NEW c, Follows(rt, rt', c, HadKept(c))
    PROVE  Settled
<1>1. \A d : Active(rt, d) => Active(rt', d)
  BY ActiveStays
<1> QED
  BY <1>1 DEF Follows, Settled

(* A connection without a socket.                                           *)
LEMMA FreshSettled ==
    ASSUME NEW c, Follows(rt, rt', c, FALSE)
    PROVE  Settled
<1>1. ASSUME NEW d, Active(rt, d) PROVE Active(rt', d)
  <2>1. CASE d # c
    BY <1>1, <2>1, ActiveOthers
  <2>2. CASE d = c
    BY <2>2 DEF Follows, Active, Kept
  <2> QED
    BY <2>1, <2>2
<1> QED
  BY <1>1 DEF Follows, Settled

(* A step outside of the delivery of the batch.                            *)
LEMMA BetweenDeliveries ==
    ASSUME LoopInv, work = <<>>, work' = <<>>, events' \subseteq events, turn' # "poll",
           Settled, turn' = "drive" => \A d \in todo' : Reads(rt', d)
    PROVE  LoopInv'
<1>1. Promised'
  BY PromisedStays DEF LoopInv, Settled
<1> QED
  BY <1>1 DEF LoopInv, Settled, ReadsFollowPressure

(* The world is as it was.                                                 *)
LEMMA SameSettled ==
    ASSUME LoopInv, rt' = rt
    PROVE  Settled
BY DEF LoopInv, Settled

(* Outside of the delivery there is nothing left to call.                   *)
LEMMA NothingLeft ==
    ASSUME LoopInv, turn # "events"
    PROVE  work = <<>>
BY DEF LoopInv, Promised

(* The loop drops everything when it returns.                               *)
LEMMA EmptySettled ==
    ASSUME rt' = NewWorld
    PROVE  Settled
<1>1. Follows(rt, rt', 0, HadKept(0))
  BY NewWorldFollows
<1> QED
  BY <1>1, FollowsSettled

(* The loop starts with an empty world.                                     *)
LEMMA InitInv == Init => LoopInv
<1> SUFFICES ASSUME Init PROVE LoopInv
  OBVIOUS
<1>1. /\ rt = NewWorld /\ turn = "accept" /\ todo = {} /\ events = {} /\ work = <<>>
  BY DEF Init
<1>2. Follows(rt, rt, 0, HadKept(0))
  BY <1>1, NewWorldFollows
<1>3. Whole(rt) /\ AllGood(rt)
  BY <1>2 DEF Follows
<1>4. DOMAIN work = {} /\ work \in Seq(Calls)
  BY <1>1
<1>5. Promised
  BY <1>1, <1>4 DEF Promised, Calls
<1> QED
  BY <1>1, <1>3, <1>5 DEF LoopInv, ReadsFollowPressure

(* drive_client_reads reads from connections that read.                     *)
LEMMA DriveInv ==
    ASSUME LoopInv, NEW c \in Owners, Drive(c)
    PROVE  LoopInv'
<1>1. /\ turn = "drive" /\ c \in todo /\ ReadClientStep(c) /\ todo' = todo \ {c}
      /\ turn' = turn /\ events' = events /\ work' = work
  BY DEF Drive
<1>2. work = <<>>
  BY <1>1, NothingLeft
<1>3. \A d \in todo : Reads(rt, d)
  BY <1>1 DEF LoopInv, Promised
<1>4. Follows(rt, rt', c, HadKept(c))
  BY <1>1, <1>3, ReadClientFollows DEF LoopInv
<1>5. \A d \in todo' : Reads(rt', d)
  BY <1>1, <1>3, <1>4, ReadsOthers
<1>6. Settled
  BY <1>4, FollowsSettled
<1> QED
  BY <1>1, <1>2, <1>5, <1>6, BetweenDeliveries

(* expire_due_deadlines, for one connection.                                *)
LEMMA ExpireInv ==
    ASSUME LoopInv, NEW c \in Owners, Expire(c)
    PROVE  LoopInv'
<1>1. /\ turn \in {"expire", "expire2"} /\ turn' = turn /\ events' = events /\ work' = work
  BY DEF Expire
<1>2. work = <<>>
  BY <1>1, NothingLeft
<1>3. PICK s \in RetryScripts : Becomes(ExpireConnection(rt, c, s))
  BY DEF Expire
<1>4. Follows(rt, rt', c, HadKept(c))
  BY <1>3, ExpireFollows DEF LoopInv
<1>5. Settled
  BY <1>4, FollowsSettled
<1> QED
  BY <1>1, <1>2, <1>5, BetweenDeliveries

(* cleanup_closed, for one connection.                                      *)
LEMMA CleanupInv ==
    ASSUME LoopInv, ~rt.halted, NEW c \in Owners, Cleanup(c)
    PROVE  LoopInv'
<1> DEFINE n == CleanupClosed(rt, c)
<1>1. /\ turn = "cleanup" /\ turn' = turn /\ events' = events /\ work' = work
      /\ Becomes(n)
  BY DEF Cleanup
<1>2. work = <<>>
  BY <1>1, NothingLeft
<1>3. Follows(rt, n, c, HadKept(c))
  BY CleanupFollows DEF LoopInv
<1> HIDE DEF n
<1>4. Follows(rt, rt', c, HadKept(c))
  BY <1>1, <1>3, Becoming
<1>5. Settled
  BY <1>4, FollowsSettled
<1> QED
  BY <1>1, <1>2, <1>5, BetweenDeliveries

(* accept_ready, for one connection.                                        *)
LEMMA AcceptInv ==
    ASSUME LoopInv, NEW c \in Owners, Accept(c)
    PROVE  LoopInv'
<1> DEFINE n == AcceptConnection(rt, c)
<1>1. /\ turn \in {"accept", "events"} /\ turn' = turn /\ events' = events /\ work' = work
      /\ work = <<>> /\ c \in Owners \ DOMAIN rt.conn /\ Becomes(n)
  BY DEF Accept, Connections
<1>2. n.halted \/ Follows(rt, n, c, FALSE)
  BY <1>1, AcceptFollows DEF LoopInv
<1> HIDE DEF n
<1>3. Follows(rt, rt', c, FALSE)
  BY <1>1, <1>2, Becoming
<1>4. Settled
  BY <1>3, FreshSettled
<1> QED
  BY <1>1, <1>4, BetweenDeliveries

(* The two ends of a pass, after which the budget decides who reads.       *)
LEMMA EnforceSettled ==
    ASSUME LoopInv, Becomes(Enforce(rt))
    PROVE  Settled /\ (ReadsFollowPressure' \/ turn' # "poll")
<1> DEFINE n == Enforce(rt)
<1>1. Follows(rt, rt, 0, HadKept(0))
  BY StaysFollows DEF LoopInv, HadKept
<1>2. /\ Follows(rt, n, 0, HadKept(0))
      /\ \A d \in DOMAIN n.conn : Reading(n.conn[d]) /\ n.conn[d].up # NoUpstream =>
            ((n.conn[d].upReg # {}) <=>
                 ~ReadMustPause(n.budget.pressure, Buffered(n.conn[d]), MaxResponseBuffer))
  BY <1>1, EnforceFollows
<1>3. Becomes(n)
  OBVIOUS
<1> HIDE DEF n
<1>4. Settled
  BY <1>2, <1>3, Becoming, FollowsSettled
<1>5. CASE n.halted
  <2>1. rt' = [NewWorld EXCEPT !.halted = TRUE]
    BY <1>3, <1>5 DEF Becomes
  <2>2. DOMAIN rt'.conn = {}
    BY <2>1, NewWorldFollows
  <2> QED
    BY <1>4, <2>2 DEF ReadsFollowPressure, Connections
<1>6. CASE ~n.halted
  <2>1. rt' = n
    BY <1>3, <1>6 DEF Becomes
  <2> QED
    BY <1>2, <1>4, <2>1 DEF ReadsFollowPressure, Connections
<1> QED
  BY <1>5, <1>6

(* The end of expire_due_deadlines: before poll the read interests follow   *)
(* the pressure.                                                            *)
LEMMA EndExpireInv == ASSUME LoopInv, EndExpire PROVE LoopInv'
<1>1. /\ turn \in {"expire", "expire2"} /\ turn' \in {"poll", "events"} /\ Becomes(Enforce(rt))
      /\ events' = events /\ work' = work
  BY DEF EndExpire
<1>2. work = <<>>
  BY <1>1, NothingLeft
<1>3. Settled /\ (ReadsFollowPressure' \/ turn' # "poll")
  BY <1>1, EnforceSettled
<1>4. Promised'
  BY <1>1, <1>2, <1>3, PromisedStays DEF LoopInv, Settled
<1> QED
  BY <1>1, <1>3, <1>4 DEF LoopInv, Settled, ReadsFollowPressure

(* The end of the turn.                                                     *)
LEMMA EndCleanupInv == ASSUME LoopInv, EndCleanup PROVE LoopInv'
<1>1. /\ turn = "cleanup" /\ turn' = "accept" /\ Becomes(Enforce(rt))
      /\ events' = events /\ work' = work
  BY DEF EndCleanup
<1>2. work = <<>>
  BY <1>1, NothingLeft
<1>3. Settled
  BY <1>1, EnforceSettled
<1> QED
  BY <1>1, <1>2, <1>3, BetweenDeliveries

(* The loop returns.                                                        *)
LEMMA StopInv == ASSUME LoopInv, Shutdown \/ StopDrained PROVE LoopInv'
<1>1. /\ turn \in {"accept", "expire2"} /\ turn' = "stopped" /\ rt' = NewWorld
      /\ events' = events /\ work' = work
  BY DEF Shutdown, StopDrained
<1>2. work = <<>>
  BY <1>1, NothingLeft
<1>3. Settled
  BY <1>1, EmptySettled
<1> QED
  BY <1>1, <1>2, <1>3, BetweenDeliveries

(* The steps that only move the loop on.                                   *)
LEMMA StartInv ==
    ASSUME LoopInv, StartDrive \/ StartExpire \/ PollInterrupted \/ StartCleanup \/ BeginDrain
    PROVE  LoopInv'
<1>0. Settled \/ rt' # rt
  BY SameSettled
<1>1. CASE StartDrive
  <2>1. /\ turn = "accept" /\ turn' = "drive" /\ events' = events /\ work' = work /\ rt' = rt
        /\ todo' = {c \in Connections : Readable(rt.conn[c])}
    BY <1>1 DEF StartDrive
  <2>2. work = <<>>
    BY <2>1, NothingLeft
  <2>3. \A d \in todo' : Reads(rt', d)
    BY <2>1 DEF Reads
  <2> QED
    BY <1>0, <2>1, <2>2, <2>3, BetweenDeliveries
<1>2. CASE StartExpire \/ PollInterrupted
  <2>1. /\ turn \in {"drive", "poll"} /\ turn' \in {"expire", "accept"} /\ events' = events
        /\ work' = work /\ rt' = rt
    BY <1>2 DEF StartExpire, PollInterrupted
  <2>2. work = <<>>
    BY <2>1, NothingLeft
  <2> QED
    BY <1>0, <2>1, <2>2, BetweenDeliveries
<1>3. CASE StartCleanup
  <2>1. turn' = "cleanup" /\ events' = events /\ work' = work /\ rt' = rt /\ work = <<>>
    BY <1>3 DEF StartCleanup
  <2> QED
    BY <1>0, <2>1, BetweenDeliveries
<1>4. CASE BeginDrain
  <2>1. /\ turn \in {"accept", "expire2"} /\ turn' = turn /\ events' = events /\ work' = work
        /\ rt' = rt
    BY <1>4 DEF BeginDrain
  <2>2. work = <<>>
    BY <2>1, NothingLeft
  <2> QED
    BY <1>0, <2>1, <2>2, BetweenDeliveries
<1> QED
  BY <1>1, <1>2, <1>3, <1>4

(* poll returns a batch.                                                    *)
LEMMA PollInv == ASSUME LoopInv, Poll PROVE LoopInv'
<1>1. Promised'
  BY PromisedPoll DEF LoopInv
<1>2. rt' = rt /\ turn' = "expire2"
  BY DEF Poll
<1> QED
  BY <1>1, <1>2 DEF LoopInv, ReadsFollowPressure

(* An event is delivered, or removes the connection it speaks of.           *)
LEMMA DeliverInv == ASSUME LoopInv, ~rt.halted, Deliver PROVE LoopInv'
<1>1. turn = "events" /\ turn' = turn /\ work = <<>>
  BY DEF Deliver
<1>2. PICK e \in events :
         /\ events' = events \ {e}
         /\ IF e.side = "client" /\ "e" \in e.ready
               /\ ~(Live(rt, e.c) /\ Readable(rt.conn[e.c]))
            THEN /\ work' = <<>>
                 /\ rt' = IF Live(rt, e.c) THEN RemoveConnection(DropUpstream(rt, e.c), e.c) ELSE rt
            ELSE /\ work' = [i \in DOMAIN Handlers(e) |-> [op |-> Handlers(e)[i], c |-> e.c]]
                            \o <<[op |-> "Reconcile", c |-> e.c]>>
                 /\ rt' = rt
  BY DEF Deliver
<1>3. CASE work' = <<>> /\ rt' = RemoveConnection(DropUpstream(rt, e.c), e.c) /\ Live(rt, e.c)
  <2> DEFINE c == e.c
  <2> HIDE DEF c
  <2>1. Follows(rt, rt', c, HadKept(c))
    BY <1>3, ClosedFollows DEF LoopInv, Live, c
  <2>2. Settled
    BY <2>1, FollowsSettled
  <2> QED
    BY <1>1, <1>2, <1>3, <2>2, BetweenDeliveries
<1>4. CASE work' = <<>> /\ rt' = rt
  <2>1. Settled
    BY <1>4, SameSettled
  <2> QED
    BY <1>1, <1>2, <1>4, <2>1, BetweenDeliveries
<1>5. CASE /\ work' = [i \in DOMAIN Handlers(e) |-> [op |-> Handlers(e)[i], c |-> e.c]]
                      \o <<[op |-> "Reconcile", c |-> e.c]>>
           /\ rt' = rt
  <2> DEFINE h == Handlers(e)
  <2>1. work' = [i \in DOMAIN h |-> [op |-> h[i], c |-> e.c]] \o <<[op |-> "Reconcile", c |-> e.c]>>
    BY <1>5
  <2>2. h = Handlers(e)
    OBVIOUS
  <2> HIDE DEF h
  <2>3. Promised'
    BY <1>1, <1>2, <1>5, <2>1, <2>2, PromisedDelivery DEF LoopInv
  <2> QED
    BY <1>1, <1>5, <2>3 DEF LoopInv, ReadsFollowPressure
<1> QED
  BY <1>2, <1>3, <1>4, <1>5

(* The delivery of a call.                                                 *)
LEMMA HandledInv ==
    ASSUME LoopInv, NEW op, Handle(op), Whole(rt'), AllGood(rt'),
           \A d : Active(rt, d) /\ d # Head(work).c => Active(rt', d),
           op # "ReadUpstream" => \A d : Active(rt, d) => Active(rt', d)
    PROVE  LoopInv'
<1>1. Promised'
  BY PromisedTail DEF LoopInv
<1>2. turn' = "events"
  BY DEF Handle
<1> QED
  BY <1>1, <1>2 DEF LoopInv, ReadsFollowPressure

(* What the call at hand meets.                                             *)
LEMMA FirstCall ==
    ASSUME LoopInv, NEW op, Handle(op)
    PROVE  /\ op \in UpstreamOps => Active(rt, Head(work).c)
           /\ op = "ReadClient" => Reads(rt, Head(work).c)
<1>1. work \in Seq(Calls) /\ work # <<>> /\ Head(work).op = op
  BY DEF LoopInv, Promised, Handle, Calls
<1>2. 1 \in DOMAIN work /\ Head(work) = work[1]
  BY <1>1
<1> QED
  BY <1>1, <1>2 DEF LoopInv, Promised

(* A call that keeps no new socket.                                         *)
LEMMA SettledHandled ==
    ASSUME LoopInv, NEW op, Handle(op), NEW c, Follows(rt, rt', c, HadKept(c))
    PROVE  LoopInv'
<1>1. Settled
  BY FollowsSettled
<1> QED
  BY <1>1, HandledInv DEF Settled

(* The five calls of a delivery.                                            *)
LEMMA HandleInv ==
    ASSUME LoopInv, HandleReadClient \/ HandleWriteClient \/ HandleWriteUpstream
                    \/ HandleReadUpstream \/ HandleReconcile
    PROVE  LoopInv'
<1> DEFINE c == Head(work).c
<1>0. Whole(rt) /\ AllGood(rt)
  BY DEF LoopInv
<1>1. CASE HandleReadClient
  <2>1. Handle("ReadClient") /\ ReadClientStep(c)
    BY <1>1 DEF HandleReadClient
  <2>2. Reads(rt, c)
    BY <2>1, FirstCall
  <2> HIDE DEF c
  <2> QED
    BY <1>0, <2>1, <2>2, ReadClientFollows, SettledHandled
<1>2. CASE HandleWriteClient
  <2>1. Handle("WriteClient") /\ WriteClientStep(c)
    BY <1>2 DEF HandleWriteClient
  <2> HIDE DEF c
  <2> QED
    BY <1>0, <2>1, WriteClientFollows, SettledHandled
<1>3. CASE HandleWriteUpstream
  <2>1. Handle("WriteUpstream") /\ WriteUpstreamStep(c)
    BY <1>3 DEF HandleWriteUpstream
  <2>2. Active(rt, c)
    BY <2>1, FirstCall DEF UpstreamOps
  <2> HIDE DEF c
  <2> QED
    BY <1>0, <2>1, <2>2, WriteUpstreamFollows, SettledHandled
<1>4. CASE HandleReadUpstream
  <2>1. Handle("ReadUpstream") /\ ReadUpstreamStep(c)
    BY <1>4 DEF HandleReadUpstream
  <2>2. Active(rt, c)
    BY <2>1, FirstCall DEF UpstreamOps
  <2>3. c = Head(work).c
    OBVIOUS
  <2> HIDE DEF c
  <2>4. Follows(rt, rt', c, TRUE)
    BY <1>0, <2>1, <2>2, ReadUpstreamFollows
  <2>5. \A d : Active(rt, d) /\ d # c => Active(rt', d)
    BY <2>4, ActiveOthers
  <2> QED
    BY <2>1, <2>3, <2>4, <2>5, HandledInv DEF Follows
<1>5. CASE HandleReconcile
  <2> DEFINE n == ReconcileTransport(rt, c)
  <2>1. Handle("Reconcile") /\ Becomes(n)
    BY <1>5 DEF HandleReconcile
  <2>2. n = ReconcileTransport(rt, c)
    OBVIOUS
  <2> HIDE DEF n, c
  <2>3. n.halted \/ Follows(rt, n, c, HadKept(c))
    BY <1>0, <2>2, TransportFollows DEF HadKept
  <2>4. Follows(rt, rt', c, HadKept(c))
    BY <2>1, <2>3, Becoming
  <2> QED
    BY <2>1, <2>4, SettledHandled
<1> QED
  BY <1>1, <1>2, <1>3, <1>4, <1>5

(* Every step keeps the invariant.                                         *)
LEMMA NextInv == LoopInv /\ [Next]_vars => LoopInv'
<1> SUFFICES ASSUME LoopInv, [Next]_vars PROVE LoopInv'
  OBVIOUS
<1>1. CASE UNCHANGED vars
  BY <1>1 DEF vars, LoopInv, Promised, ReadsFollowPressure, Connections
<1>2. CASE ~rt.halted /\ LoopStep
  <2>1. ASSUME NEW c \in Owners, Drive(c) \/ Expire(c) \/ Cleanup(c) PROVE LoopInv'
    BY <1>2, <2>1, DriveInv, ExpireInv, CleanupInv
  <2>2. CASE StopDrained
    BY <2>2, StopInv
  <2>3. CASE StartDrive \/ StartExpire \/ PollInterrupted \/ StartCleanup
    BY <2>3, StartInv
  <2>4. CASE EndExpire \/ EndCleanup
    BY <2>4, EndExpireInv, EndCleanupInv
  <2>5. CASE Poll
    BY <2>5, PollInv
  <2>6. CASE Deliver
    BY <1>2, <2>6, DeliverInv
  <2>7. CASE HandleReadClient \/ HandleWriteClient \/ HandleWriteUpstream
             \/ HandleReadUpstream \/ HandleReconcile
    BY <2>7, HandleInv
  <2> QED
    BY <1>2, <2>1, <2>2, <2>3, <2>4, <2>5, <2>6, <2>7 DEF LoopStep
<1>3. CASE ~rt.halted /\ OutsideStep
  <2>1. CASE BeginDrain
    BY <2>1, StartInv
  <2>2. CASE Shutdown
    BY <2>2, StopInv
  <2>3. ASSUME NEW c \in Owners, Accept(c) PROVE LoopInv'
    BY <2>3, AcceptInv
  <2> QED
    BY <1>3, <2>1, <2>2, <2>3 DEF OutsideStep
<1> QED
  BY <1>1, <1>2, <1>3 DEF Next, Stopped

(* The inductive invariant holds at every step of the loop: each           *)
(* connection is in order, the budget and the drain references are exact,  *)
(* and what is still to be delivered meets what it expects.                *)
THEOREM LoopInvariant == Spec => []LoopInv
<1>1. LoopInv /\ [Next]_vars => LoopInv'
  BY NextInv
<1> QED
  BY <1>1, InitInv, PTL DEF Spec

(* The event loop enforces the payload budget both ways: nothing is         *)
(* charged for a connection that is gone, and when the loop sleeps a        *)
(* response is read exactly while the pressure and the client's buffer      *)
(* allow it (enforce_payload_read_interests before each poll).              *)
THEOREM PayloadControlled == Spec => []PayloadIsControlled
<1>1. LoopInv => PayloadIsControlled
  BY DEF LoopInv, Whole, Accounted, PayloadIsControlled, NoOrphanCharges, Connections
<1> QED
  BY <1>1, LoopInvariant, PTL

(* Every path that selects, replaces, releases or drops an upstream moves   *)
(* its drain reference: there is one for each connection that names the     *)
(* upstream.                                                                *)
THEOREM LeasesExact == Spec => []LeasesMatchConnections
<1>1. LoopInv => LeasesMatchConnections
  BY DEF LoopInv, Whole, Holders, LeasesMatchConnections, Connections
<1> QED
  BY <1>1, LoopInvariant, PTL

(* No path of the loop leaves a connection without a deadline unless it is  *)
(* to be closed (refresh_deadline).                                         *)
THEOREM DeadlinesArmed == Spec => []DeadlineArmed
<1>1. LoopInv => DeadlineArmed
  BY DEF LoopInv, AllGood, Good, Armed, DeadlineArmed, Connections
<1> QED
  BY <1>1, LoopInvariant, PTL

(* Reads, partial writes, pauses and failures in any order keep the         *)
(* response charge equal to the bytes that the connection owns, but for a   *)
(* cut response.                                                            *)
THEOREM ResponsesCharged == Spec => []ResponseExactlyCharged
<1>1. LoopInv => ResponseExactlyCharged
  BY DEF LoopInv, AllGood, Good, Fit, Owned, ResponseExactlyCharged, Connections
<1> QED
  BY <1>1, LoopInvariant, PTL

(* A request reaches at most one upstream, over a socket that leads to the  *)
(* one selected and leased for it, across kept sockets, retries and events  *)
(* delivered late.                                                          *)
THEOREM OneUpstream == Spec => []OneUpstreamPerRequest
<1>1. ASSUME LoopInv, NEW c \in Connections
      PROVE  /\ Cardinality(rt.conn[c].sent) <= 1
             /\ InUpstream(rt.conn[c]) =>
                   /\ rt.conn[c].up \in {NoUpstream, rt.conn[c].lease}
                   /\ rt.conn[c].lease \in rt.conn[c].attempted
                   /\ Cardinality(rt.conn[c].attempted) = rt.conn[c].used + 1
             /\ Coherent(rt.conn[c].io)
  <2> DEFINE x == rt.conn[c]
  <2>1. Sound(x.io) /\ Led(x) /\ Handed(x)
    BY <1>1 DEF LoopInv, AllGood, Good, Fit, Connections
  <2> HIDE DEF x
  <2>2. Cardinality(x.sent) <= 1
    <3>1. CASE x.sent = {}
      BY <3>1, FS_EmptySet
    <3>2. ASSUME NEW u \in Upstreams, x.sent = {u} PROVE Cardinality(x.sent) <= 1
      <4>1. Cardinality({u}) = 1
        BY FS_Singleton
      <4>2. Cardinality(x.sent) = 1
        BY <3>2, <4>1
      <4> QED
        BY <4>2
    <3> QED
      BY <2>1, <3>1, <3>2 DEF Handed
  <2>3. Coherent(x.io)
    BY <2>1 DEF Sound
  <2> QED
    BY <2>1, <2>2, <2>3 DEF x, Led
<1>2. LoopInv => OneUpstreamPerRequest
  BY <1>1 DEF OneUpstreamPerRequest, AtMostOneUpstream, SocketIsSelectedUpstream,
              AttemptsFollowState
<1> QED
  BY <1>2, LoopInvariant, PTL

-----------------------------------------------------------------------------
(***************************************************************************)
(* The drain tracker, for any upstreams, connections, revisions and        *)
(* bounds.                                                                 *)
(*                                                                         *)
(* LeasesAreHeld alone is not inductive: a new lease must differ from all  *)
(* recorded ones (LeasesBelowNext), and the entries that a configuration   *)
(* is about to create must be unused (FutureEntriesUnused).                *)
(***************************************************************************)

Entries == Generations \X Keys
WellTyped(t) ==
    t \in [gen : Generations, next : 0..MaxLeases,
           state : [Entries -> EntryStates \cup {"Absent"}],
           leases : [Entries -> SUBSET (0..MaxLeases)]]

(* Lease numbers below next have been used, the others have not. *)
LeasesBelowNext(t) == \A e \in Entries : \A l \in t.leases[e] : l < t.next

(* Generations that have not started have no entries. *)
FutureEntriesUnused(t) == \A e \in Entries : e[1] > t.gen => t.state[e] = "Absent"

StateTellsUse(t) ==
    \A e \in Entries :
        /\ t.state[e] \in {"Drained", "Absent"} => t.leases[e] = {}
        /\ t.state[e] = "Draining" => t.leases[e] # {}
        /\ t.state[e] = "Active" => e[1] = t.gen

(* What a tracker satisfies by itself. *)
SoundTracker(t) == WellTyped(t) /\ LeasesBelowNext(t) /\ FutureEntriesUnused(t) /\ StateTellsUse(t)

(* The leases of a tracker are the ones that the connections hold. *)
Agree(t, h) ==
    /\ \A c \in Clients : h[c] # NoReference =>
          /\ h[c] \in References
          /\ h[c].lease \in t.leases[<<h[c].gen, h[c].key>>]
    /\ \A e \in Entries : \A l \in t.leases[e] :
          \E c \in Clients : h[c] = [gen |-> e[1], key |-> e[2], lease |-> l]
    /\ \A c, d \in Clients :
          h[c] # NoReference /\ h[d] # NoReference /\ h[c].lease = h[d].lease => c = d

Inv ==
    /\ SoundTracker(tracker) /\ Agree(tracker, held)
    /\ active \in Revisions
    /\ avail \in [gen : -1..MaxHealth, bad : SUBSET Keys, rev : Revisions]
    /\ AvailabilityIsCurrent
    /\ held \in [Clients -> References \cup {NoReference}]

-----------------------------------------------------------------------------
LEMMA BlankSound ==
    ASSUME NEW want \in [Keys -> {"Active", "Draining", "Absent"}]
    PROVE  /\ SoundTracker(Reconcile(Blank, want, 1))
           /\ \A e \in Entries : Reconcile(Blank, want, 1).leases[e] = {}
<1> DEFINE t == Reconcile(Blank, want, 1)
<1>1. t.gen = 1 /\ t.next = 0
  BY DEF Reconcile, Blank
<1>2. t.leases = [e \in Entries |-> {}]
  BY DEF Reconcile, Blank, Entries
<1>3. t.state = [e \in Entries |->
        IF e[1] = 1 /\ want[e[2]] # "Absent" THEN FirstState(want[e[2]]) ELSE "Absent"]
  BY DEF Reconcile, Blank, Entries, Generations
<1>4. t = [gen |-> t.gen, next |-> t.next, state |-> t.state, leases |-> t.leases]
  BY DEF Reconcile
<1> HIDE DEF t
<1>5. WellTyped(t)
  BY <1>1, <1>2, <1>3, <1>4, DrainAssumption DEF WellTyped, Generations, EntryStates, FirstState, Entries
<1>6. StateTellsUse(t) /\ FutureEntriesUnused(t) /\ LeasesBelowNext(t)
  BY <1>1, <1>2, <1>3 DEF StateTellsUse, FutureEntriesUnused, LeasesBelowNext, FirstState, Entries, Generations
<1> QED
  BY <1>2, <1>5, <1>6 DEF t, SoundTracker

(* A new configuration takes no lease away and adds none. *)
LEMMA ReconcileSound ==
    ASSUME NEW t, SoundTracker(t), t.gen < MaxGeneration,
           NEW want \in [Keys -> {"Active", "Draining", "Absent"}]
    PROVE  /\ SoundTracker(Reconcile(t, want, t.gen + 1))
           /\ Reconcile(t, want, t.gen + 1).leases = t.leases
<1> DEFINE g == t.gen + 1
           n == Reconcile(t, want, g)
<1>0. g \in Generations /\ t.gen \in Generations /\ t.next \in 0..MaxLeases
      /\ t.state \in [Entries -> EntryStates \cup {"Absent"}]
      /\ t.leases \in [Entries -> SUBSET (0..MaxLeases)]
  BY DrainAssumption DEF SoundTracker, WellTyped, Generations
<1>1. n.gen = g /\ n.next = t.next
  BY DEF Reconcile
<1>2. n.leases = t.leases
  <2>1. \A e \in Entries : e[1] = g => t.leases[e] = {}
    BY <1>0 DEF SoundTracker, FutureEntriesUnused, StateTellsUse, Generations
  <2> QED
    BY <2>1, <1>0 DEF Reconcile, Entries
<1>3. n.state = [e \in Entries |->
        IF e[1] = g /\ want[e[2]] # "Absent" THEN FirstState(want[e[2]])
        ELSE IF e[1] = t.gen /\ t.state[e] # "Absent" THEN Retire(want[e[2]], t.leases[e])
        ELSE t.state[e]]
  BY DEF Reconcile, Entries
<1>4. n = [gen |-> n.gen, next |-> n.next, state |-> n.state, leases |-> n.leases]
  BY DEF Reconcile
<1>5. \A e \in Entries : n.state[e] \in EntryStates \cup {"Absent"}
  BY <1>0, <1>3 DEF Entries, EntryStates, FirstState, Retire
<1> HIDE DEF n
<1>6. WellTyped(n)
  BY <1>0, <1>1, <1>2, <1>3, <1>4, <1>5 DEF WellTyped
<1>7. StateTellsUse(n)
  BY <1>0, <1>1, <1>2, <1>3 DEF StateTellsUse, FutureEntriesUnused, SoundTracker, FirstState, Retire, Entries, Generations, EntryStates
<1>8. FutureEntriesUnused(n) /\ LeasesBelowNext(n)
  BY <1>0, <1>1, <1>2, <1>3 DEF FutureEntriesUnused, LeasesBelowNext, SoundTracker, Entries, Generations
<1> QED
  BY <1>2, <1>6, <1>7, <1>8 DEF n, SoundTracker

LEMMA AcquireSound ==
    ASSUME NEW t, SoundTracker(t), NEW k \in Keys, CanAcquire(t, k), t.next < MaxLeases
    PROVE  LET n == Acquire(t, k)
               r == ReferenceTo(t, k) IN
           /\ SoundTracker(n) /\ r \in References
           /\ \A e \in Entries : n.leases[e] = IF e = <<r.gen, r.key>>
                                              THEN t.leases[e] \cup {r.lease} ELSE t.leases[e]
           /\ r.lease = t.next
<1> DEFINE n == Acquire(t, k)
           r == ReferenceTo(t, k)
           f == <<t.gen, k>>
<1>0. t.gen \in Generations /\ t.next \in 0..MaxLeases
      /\ t.state \in [Entries -> EntryStates \cup {"Absent"}]
      /\ t.leases \in [Entries -> SUBSET (0..MaxLeases)]
      /\ t = [gen |-> t.gen, next |-> t.next, state |-> t.state, leases |-> t.leases]
  BY DEF SoundTracker, WellTyped
<1>1. f \in Entries /\ t.state[f] = "Active"
  BY <1>0 DEF Entries, CanAcquire
<1>2. n = [gen |-> t.gen, next |-> t.next + 1, state |-> t.state,
           leases |-> [t.leases EXCEPT ![f] = @ \cup {t.next}]]
  <2> DEFINE m == t.next + 1
             ls == t.leases[f] \cup {t.next}
  <2>1. n = [t EXCEPT !.next = m, !.leases[f] = ls]
    BY DEF Acquire
  <2> HIDE DEF m, ls, n, f
  <2>2. n = [gen |-> t.gen, next |-> m, state |-> t.state, leases |-> [t.leases EXCEPT ![f] = ls]]
    BY <2>1, <1>0, <1>1
  <2> QED
    BY <2>2 DEF m, ls
<1> HIDE DEF n
<1>3. \A e \in Entries : n.leases[e] = IF e = f THEN t.leases[e] \cup {t.next} ELSE t.leases[e]
  BY <1>0, <1>1, <1>2
<1>4. t.next + 1 \in 0..MaxLeases
  BY <1>0, DrainAssumption
<1>5. WellTyped(n)
  BY <1>0, <1>1, <1>2, <1>4 DEF WellTyped
<1>6. LeasesBelowNext(n)
  BY <1>0, <1>2, <1>3 DEF LeasesBelowNext, SoundTracker
<1>7. FutureEntriesUnused(n) /\ StateTellsUse(n)
  BY <1>0, <1>1, <1>2, <1>3 DEF FutureEntriesUnused, StateTellsUse, SoundTracker
<1>8. r \in References /\ r.gen = t.gen /\ r.key = k /\ r.lease = t.next
  BY <1>0 DEF ReferenceTo, References
<1> QED
  BY <1>3, <1>5, <1>6, <1>7, <1>8 DEF n, SoundTracker

LEMMA ReleaseSound ==
    ASSUME NEW t, SoundTracker(t), NEW r \in References, r.lease \in t.leases[<<r.gen, r.key>>]
    PROVE  LET n == Release(t, r) IN
           /\ SoundTracker(n) /\ n.next = t.next
           /\ \A e \in Entries : n.leases[e] = IF e = <<r.gen, r.key>>
                                              THEN t.leases[e] \ {r.lease} ELSE t.leases[e]
<1> DEFINE n == Release(t, r)
           f == <<r.gen, r.key>>
           left == t.leases[f] \ {r.lease}
           s == IF left = {} /\ t.state[f] = "Draining" THEN "Drained" ELSE t.state[f]
<1>0. t.gen \in Generations /\ t.next \in 0..MaxLeases
      /\ t.state \in [Entries -> EntryStates \cup {"Absent"}]
      /\ t.leases \in [Entries -> SUBSET (0..MaxLeases)]
      /\ t = [gen |-> t.gen, next |-> t.next, state |-> t.state, leases |-> t.leases]
  BY DEF SoundTracker, WellTyped
<1>1. f \in Entries /\ t.state[f] \notin {"Absent", "Drained"}
  BY DEF Entries, References, SoundTracker, StateTellsUse
<1>2. n = [gen |-> t.gen, next |-> t.next, state |-> [t.state EXCEPT ![f] = s],
           leases |-> [t.leases EXCEPT ![f] = left]]
  BY <1>0, <1>1 DEF Release
<1>3. s \in EntryStates \cup {"Absent"} /\ left \in SUBSET (0..MaxLeases)
  BY <1>0, <1>1 DEF EntryStates
<1>4. \A e \in Entries :
        /\ n.leases[e] = IF e = f THEN left ELSE t.leases[e]
        /\ n.state[e] = IF e = f THEN s ELSE t.state[e]
  BY <1>0, <1>1, <1>2
<1> HIDE DEF n
<1>5. WellTyped(n)
  BY <1>0, <1>1, <1>2, <1>3 DEF WellTyped
<1>6. LeasesBelowNext(n) /\ n.next = t.next
  BY <1>2, <1>4 DEF LeasesBelowNext, SoundTracker
<1>7. FutureEntriesUnused(n)
  BY <1>1, <1>2, <1>4 DEF FutureEntriesUnused, SoundTracker
<1>8. StateTellsUse(n)
  BY <1>1, <1>2, <1>4 DEF StateTellsUse, SoundTracker
<1> QED
  BY <1>4, <1>5, <1>6, <1>7, <1>8 DEF n, SoundTracker

-----------------------------------------------------------------------------
(* Agree looks at the leases of a tracker only. *)
LEMMA AgreeSameLeases ==
    ASSUME NEW t, NEW n, NEW h, Agree(t, h),
           h \in [Clients -> References \cup {NoReference}],
           \A e \in Entries : n.leases[e] = t.leases[e]
    PROVE  Agree(n, h)
<1>1. \A r \in References : <<r.gen, r.key>> \in Entries
  BY DEF References, Entries
<1> QED
  BY <1>1 DEF Agree

(* What c held is released. *)
LEMMA AgreeDropped ==
    ASSUME NEW t, NEW n, NEW h, Agree(t, h),
           h \in [Clients -> References \cup {NoReference}],
           NEW c \in Clients, h[c] # NoReference,
           \A e \in Entries : n.leases[e] = IF e = <<h[c].gen, h[c].key>>
                                            THEN t.leases[e] \ {h[c].lease} ELSE t.leases[e]
    PROVE  Agree(n, [h EXCEPT ![c] = NoReference])
<1> DEFINE m == [h EXCEPT ![c] = NoReference]
<1>1. \A r \in References : <<r.gen, r.key>> \in Entries
  BY DEF References, Entries
<1>2. \A d \in Clients : m[d] = IF d = c THEN NoReference ELSE h[d]
  OBVIOUS
<1> HIDE DEF m
<1>3. \A d \in Clients : m[d] # NoReference =>
        m[d] \in References /\ m[d].lease \in n.leases[<<m[d].gen, m[d].key>>]
  <2> SUFFICES ASSUME NEW d \in Clients, m[d] # NoReference
               PROVE  m[d] \in References /\ m[d].lease \in n.leases[<<m[d].gen, m[d].key>>]
    OBVIOUS
  <2> DEFINE e == <<h[d].gen, h[d].key>>
  <2>1. d # c /\ m[d] = h[d] /\ h[d] \in References /\ h[d].lease \in t.leases[e]
    BY <1>2 DEF Agree
  <2>2. h[d].lease # h[c].lease /\ e \in Entries
    BY <2>1, <1>1 DEF Agree
  <2>3. h[d].lease \in n.leases[e]
    <3> HIDE DEF e
    <3> QED BY <2>1, <2>2
  <2> QED
    BY <2>1, <2>3
<1>4. \A e \in Entries : \A l \in n.leases[e] :
        \E d \in Clients : m[d] = [gen |-> e[1], key |-> e[2], lease |-> l]
  <2> SUFFICES ASSUME NEW e \in Entries, NEW l \in n.leases[e]
               PROVE  \E d \in Clients : m[d] = [gen |-> e[1], key |-> e[2], lease |-> l]
    OBVIOUS
  <2>1. PICK d \in Clients : h[d] = [gen |-> e[1], key |-> e[2], lease |-> l]
    BY DEF Agree
  <2>2. d # c
    <3>1. e = <<e[1], e[2]>>
      BY DEF Entries
    <3>2. d = c => e = <<h[c].gen, h[c].key>> /\ l = h[c].lease
      BY <2>1, <3>1
    <3> QED
      BY <3>2
  <2> QED
    BY <2>1, <2>2, <1>2
<1>5. \A a, b \in Clients :
        m[a] # NoReference /\ m[b] # NoReference /\ m[a].lease = m[b].lease => a = b
  BY <1>2 DEF Agree
<1> QED
  BY <1>3, <1>4, <1>5 DEF m, Agree

(* c, which holds nothing, takes the new reference r. *)
LEMMA AgreeTaken ==
    ASSUME NEW t, NEW n, NEW h, Agree(t, h), SoundTracker(t),
           h \in [Clients -> References \cup {NoReference}],
           NEW c \in Clients, h[c] = NoReference, NEW r \in References,
           \A e \in Entries : r.lease \notin t.leases[e],
           \A e \in Entries : n.leases[e] = IF e = <<r.gen, r.key>>
                                            THEN t.leases[e] \cup {r.lease} ELSE t.leases[e]
    PROVE  Agree(n, [h EXCEPT ![c] = r])
<1> DEFINE m == [h EXCEPT ![c] = r]
<1>1. \A x \in References : <<x.gen, x.key>> \in Entries
  BY DEF References, Entries
<1>2. \A d \in Clients : m[d] = IF d = c THEN r ELSE h[d]
  OBVIOUS
<1> HIDE DEF m
<1>3. \A d \in Clients : m[d] # NoReference =>
        m[d] \in References /\ m[d].lease \in n.leases[<<m[d].gen, m[d].key>>]
  <2> SUFFICES ASSUME NEW d \in Clients, m[d] # NoReference
               PROVE  m[d] \in References /\ m[d].lease \in n.leases[<<m[d].gen, m[d].key>>]
    OBVIOUS
  <2>1. CASE d = c
    BY <2>1, <1>1, <1>2
  <2>2. CASE d # c
    <3>1. m[d] = h[d] /\ h[d] \in References /\ h[d].lease \in t.leases[<<h[d].gen, h[d].key>>]
      BY <2>2, <1>2 DEF Agree
    <3> QED
      BY <3>1, <1>1
  <2> QED
    BY <2>1, <2>2
<1>4. \A e \in Entries : \A l \in n.leases[e] :
        \E d \in Clients : m[d] = [gen |-> e[1], key |-> e[2], lease |-> l]
  <2> SUFFICES ASSUME NEW e \in Entries, NEW l \in n.leases[e]
               PROVE  \E d \in Clients : m[d] = [gen |-> e[1], key |-> e[2], lease |-> l]
    OBVIOUS
  <2>1. CASE l \in t.leases[e]
    <3>1. PICK d \in Clients : h[d] = [gen |-> e[1], key |-> e[2], lease |-> l]
      BY <2>1 DEF Agree
    <3>2. e[1] \in Generations /\ e[2] \in Keys /\ l \in 0..MaxLeases
      BY <2>1 DEF Entries, SoundTracker, WellTyped
    <3>3. d # c
      BY <3>1, <3>2, NoReferenceAssumption DEF References
    <3> QED
      BY <3>1, <3>3, <1>2
  <2>2. CASE l \notin t.leases[e]
    <3>1. e = <<r.gen, r.key>> /\ l = r.lease
      BY <2>2
    <3>2. r = [gen |-> e[1], key |-> e[2], lease |-> l]
      BY <3>1 DEF References
    <3> QED
      BY <3>2, <1>2
  <2> QED
    BY <2>1, <2>2
<1>5. \A a, b \in Clients :
        m[a] # NoReference /\ m[b] # NoReference /\ m[a].lease = m[b].lease => a = b
  <2>1. \A d \in Clients : h[d] # NoReference => h[d].lease # r.lease
    BY <1>1 DEF Agree
  <2> QED
    BY <1>2, <2>1 DEF Agree
<1> QED
  BY <1>3, <1>4, <1>5 DEF m, Agree


-----------------------------------------------------------------------------
LEMMA InitEstablishes ==
    DrainInit => Inv
<1> SUFFICES ASSUME DrainInit PROVE Inv
  OBVIOUS
<1>1. ConfigOf[FirstRevision] \in [Keys -> {"Active", "Draining", "Absent"}]
  BY DrainAssumption
<1>2. SoundTracker(tracker) /\ \A e \in Entries : tracker.leases[e] = {}
  BY <1>1, BlankSound DEF DrainInit
<1>3. Agree(tracker, held)
  BY <1>2 DEF Agree, DrainInit
<1>4. avail \in [gen : -1..MaxHealth, bad : SUBSET Keys, rev : Revisions] /\ active \in Revisions
  BY DrainAssumption DEF DrainInit
<1> QED
  BY <1>2, <1>3, <1>4 DEF Inv, DrainInit, AvailabilityIsCurrent

LEMMA FinishPreserves ==
    ASSUME Inv, NEW c \in Clients, Finish(c)
    PROVE  Inv'
<1> DEFINE r == held[c]
<1>1. r \in References /\ r.lease \in tracker.leases[<<r.gen, r.key>>]
  BY DEF Inv, Agree, Finish
<1>2. SoundTracker(tracker') /\ \A e \in Entries :
         tracker'.leases[e] = IF e = <<r.gen, r.key>>
                              THEN tracker.leases[e] \ {r.lease} ELSE tracker.leases[e]
  BY <1>1, ReleaseSound DEF Inv, Finish
<1>3. Agree(tracker', held')
  BY <1>2, AgreeDropped DEF Inv, Finish
<1>4. held' \in [Clients -> References \cup {NoReference}]
  BY DEF Inv, Finish
<1> QED
  BY <1>2, <1>3, <1>4 DEF Inv, Finish, AvailabilityIsCurrent

(* A reference that is acquired and given back at once leaves no trace.    *)
LEMMA GivenBack ==
    ASSUME NEW t, SoundTracker(t), NEW k \in Keys, CanAcquire(t, k), t.next < MaxLeases
    PROVE  LET n == Release(Acquire(t, k), ReferenceTo(t, k)) IN
           SoundTracker(n) /\ \A e \in Entries : n.leases[e] = t.leases[e]
<1> DEFINE a == Acquire(t, k)
           r == ReferenceTo(t, k)
           n == Release(a, r)
<1>1. /\ SoundTracker(a) /\ r \in References /\ r.lease = t.next
      /\ \A e \in Entries : a.leases[e] = IF e = <<r.gen, r.key>>
                                           THEN t.leases[e] \cup {r.lease} ELSE t.leases[e]
  BY AcquireSound
<1>2. <<r.gen, r.key>> \in Entries
  BY <1>1 DEF References, Entries
<1> HIDE DEF a, r
<1>3. r.lease \in a.leases[<<r.gen, r.key>>]
  BY <1>1, <1>2
<1>4. SoundTracker(n) /\ \A e \in Entries : n.leases[e] = IF e = <<r.gen, r.key>>
                                                    THEN a.leases[e] \ {r.lease} ELSE a.leases[e]
  BY <1>1, <1>3, ReleaseSound
<1>5. \A e \in Entries : r.lease \notin t.leases[e]
  BY <1>1 DEF SoundTracker, LeasesBelowNext, WellTyped
<1> HIDE DEF n
<1>6. \A e \in Entries : n.leases[e] = t.leases[e]
  BY <1>1, <1>4, <1>5
<1> QED
  BY <1>4, <1>6 DEF n, a, r

LEMMA SelectPreserves ==
    ASSUME Inv, NEW c \in Clients, NEW k \in Keys, NEW taken \in BOOLEAN, Select(c, k, taken)
    PROVE  Inv'
<1> DEFINE a == Acquire(tracker, k)
           r == ReferenceTo(tracker, k)
<1>1. SoundTracker(tracker) /\ CanAcquire(tracker, k) /\ tracker.next < MaxLeases /\ held[c] = NoReference
      /\ Agree(tracker, held) /\ held \in [Clients -> References \cup {NoReference}]
  BY DEF Inv, Select
<1>2. /\ SoundTracker(a) /\ r \in References /\ r.lease = tracker.next
      /\ \A e \in Entries : a.leases[e] = IF e = <<r.gen, r.key>>
                                  THEN tracker.leases[e] \cup {r.lease} ELSE tracker.leases[e]
  BY <1>1, AcquireSound
<1>3. \A e \in Entries : r.lease \notin tracker.leases[e]
  BY <1>1, <1>2 DEF SoundTracker, LeasesBelowNext, WellTyped
<1>4. SoundTracker(tracker') /\ Agree(tracker', held')
      /\ held' \in [Clients -> References \cup {NoReference}]
  <2>1. CASE taken
    <3>1. tracker' = a /\ held' = [held EXCEPT ![c] = r]
      BY <2>1 DEF Select
    <3> HIDE DEF a, r
    <3>2. Agree(a, [held EXCEPT ![c] = r])
      BY <1>1, <1>2, <1>3, AgreeTaken
    <3> QED
      BY <3>1, <3>2, <1>1, <1>2
  <2>2. CASE ~taken
    <3>1. tracker' = Release(a, r) /\ held' = held
      BY <2>2 DEF Select
    <3>2. SoundTracker(tracker') /\ \A e \in Entries : tracker'.leases[e] = tracker.leases[e]
      BY <3>1, <1>1, GivenBack
    <3> QED
      BY <3>1, <3>2, <1>1, AgreeSameLeases
  <2> QED
    BY <2>1, <2>2
<1> QED
  BY <1>4 DEF Inv, Select, AvailabilityIsCurrent

(* The reference to the next upstream is acquired first and the old one    *)
(* released second; the proof takes them in the other order.               *)
LEMMA SelectRetryPreserves ==
    ASSUME Inv, NEW c \in Clients, NEW k \in Keys, NEW taken \in BOOLEAN,
           SelectRetry(c, k, taken)
    PROVE  Inv'
<1> DEFINE a == Acquire(tracker, k)
           r == ReferenceTo(tracker, k)
           o == held[c]
           n == Release(a, o)
           d == Release(tracker, o)
           h == [held EXCEPT ![c] = NoReference]
<1>1. SoundTracker(tracker) /\ CanAcquire(tracker, k) /\ tracker.next < MaxLeases /\ held[c] # NoReference
      /\ Agree(tracker, held) /\ held \in [Clients -> References \cup {NoReference}]
  BY DEF Inv, SelectRetry
<1>2. /\ SoundTracker(a) /\ r \in References /\ r.lease = tracker.next
      /\ \A e \in Entries : a.leases[e] = IF e = <<r.gen, r.key>>
                                  THEN tracker.leases[e] \cup {r.lease} ELSE tracker.leases[e]
  BY <1>1, AcquireSound
<1>3. \A e \in Entries : r.lease \notin tracker.leases[e]
  BY <1>1, <1>2 DEF SoundTracker, LeasesBelowNext, WellTyped
<1>4. o \in References /\ o.lease \in tracker.leases[<<o.gen, o.key>>] /\ <<o.gen, o.key>> \in Entries
  BY <1>1 DEF Agree, References, Entries
<1>5. SoundTracker(tracker') /\ Agree(tracker', held')
      /\ held' \in [Clients -> References \cup {NoReference}]
  <2>1. CASE taken
    <3>1. tracker' = n /\ held' = [held EXCEPT ![c] = r]
      BY <2>1 DEF SelectRetry
    <3>2. held' = [h EXCEPT ![c] = r] /\ h[c] = NoReference
          /\ h \in [Clients -> References \cup {NoReference}]
      BY <3>1, <1>1
    <3>3. o.lease \in a.leases[<<o.gen, o.key>>] /\ o.lease # r.lease
      <4> HIDE DEF a, r, o
      <4> QED BY <1>2, <1>3, <1>4
    <3>4. SoundTracker(n) /\ \A e \in Entries : n.leases[e] = IF e = <<o.gen, o.key>>
                                                        THEN a.leases[e] \ {o.lease} ELSE a.leases[e]
      BY <1>2, <1>4, <3>3, ReleaseSound
    <3>5. SoundTracker(d) /\ \A e \in Entries : d.leases[e] = IF e = <<o.gen, o.key>>
                                              THEN tracker.leases[e] \ {o.lease} ELSE tracker.leases[e]
      BY <1>1, <1>4, ReleaseSound
    <3>6. Agree(d, h)
      BY <1>1, <3>5, AgreeDropped
    <3> HIDE DEF a, r, o, n, d, h
    <3>7. \A e \in Entries : r.lease \notin d.leases[e]
      BY <1>3, <3>5
    <3>8. \A e \in Entries : n.leases[e] = IF e = <<r.gen, r.key>>
                                           THEN d.leases[e] \cup {r.lease} ELSE d.leases[e]
      BY <1>2, <1>3, <3>3, <3>4, <3>5
    <3>9. h \in [Clients -> References \cup {NoReference}] /\ h[c] = NoReference
      BY <3>2
    <3>10. Agree(n, [h EXCEPT ![c] = r])
      BY <1>2, <3>5, <3>6, <3>7, <3>8, <3>9, AgreeTaken
    <3> QED
      BY <3>1, <3>2, <3>4, <3>10, <1>1, <1>2
  <2>2. CASE ~taken
    <3>1. tracker' = Release(a, r) /\ held' = held
      BY <2>2 DEF SelectRetry
    <3>2. SoundTracker(tracker') /\ \A e \in Entries : tracker'.leases[e] = tracker.leases[e]
      BY <3>1, <1>1, GivenBack
    <3> QED
      BY <3>1, <3>2, <1>1, AgreeSameLeases
  <2> QED
    BY <2>1, <2>2
<1> QED
  BY <1>5 DEF Inv, SelectRetry, AvailabilityIsCurrent


(* A configuration leaves the leases alone, with or without health results. *)
LEMMA NextTrackerAgrees ==
    ASSUME Inv, NEW r \in Revisions, tracker.gen < MaxGeneration
    PROVE  SoundTracker(NextTracker(r)) /\ Agree(NextTracker(r), held)
<1>1. ConfigOf[r] \in [Keys -> {"Active", "Draining", "Absent"}]
  BY DrainAssumption
<1>2. SoundTracker(NextTracker(r)) /\ NextTracker(r).leases = tracker.leases
  BY <1>1, ReconcileSound DEF Inv, NextTracker
<1> QED
  BY <1>2, AgreeSameLeases DEF Inv

LEMMA ConfigurationPreserves ==
    ASSUME Inv,
           NEW r \in Revisions,
           ApplyConfig(r) \/ \E results \in Results : Activate(r, results)
    PROVE  Inv'
<1>1. tracker' = NextTracker(r) /\ active' = r /\ held' = held /\ tracker.gen < MaxGeneration
  BY DEF ApplyConfig, Activate
<1>2. SoundTracker(tracker') /\ Agree(tracker', held')
  BY <1>1, NextTrackerAgrees
<1>3. /\ avail' \in [gen : -1..MaxHealth, bad : SUBSET Keys, rev : Revisions]
      /\ AvailabilityIsCurrent'
  <2>1. CASE ApplyConfig(r)
    BY <2>1, DrainAssumption DEF ApplyConfig, CarriedAvailability, NoAvailability, Inv, AvailabilityIsCurrent
  <2>2. CASE \E results \in Results : Activate(r, results)
    BY <2>2 DEF Activate, Acceptable, Results, AvailabilityIsCurrent
  <2> QED
    BY <2>1, <2>2
<1> QED
  BY <1>1, <1>2, <1>3 DEF Inv

LEMMA PublishPreserves ==
    ASSUME Inv, NEW results \in Results, PublishAvailability(results)
    PROVE  Inv'
<1>1. /\ avail' \in [gen : -1..MaxHealth, bad : SUBSET Keys, rev : Revisions]
      /\ AvailabilityIsCurrent'
  BY DEF PublishAvailability, Acceptable, Results, AvailabilityIsCurrent, Inv
<1> QED
  BY <1>1 DEF Inv, PublishAvailability

THEOREM DrainInvariant ==
    DrainSpec => []Inv
<1>1. DrainInit => Inv
  BY InitEstablishes
<1>2. Inv /\ [DrainNext]_drainVars => Inv'
  <2> SUFFICES ASSUME Inv, [DrainNext]_drainVars PROVE Inv'
    OBVIOUS
  <2>1. ASSUME NEW c \in Clients, Finish(c) PROVE Inv'
    BY <2>1, FinishPreserves
  <2>2. ASSUME NEW c \in Clients, NEW k \in Keys, NEW taken \in BOOLEAN,
               Select(c, k, taken) \/ SelectRetry(c, k, taken)
        PROVE  Inv'
    BY <2>2, SelectPreserves, SelectRetryPreserves
  <2>3. ASSUME NEW r \in Revisions, ApplyConfig(r) PROVE Inv'
    BY <2>3, ConfigurationPreserves
  <2>4. ASSUME NEW results \in Results, PublishAvailability(results) PROVE Inv'
    BY <2>4, PublishPreserves
  <2>5. ASSUME NEW r \in Revisions, NEW results \in Results, Activate(r, results) PROVE Inv'
    BY <2>5, ConfigurationPreserves
  <2>6. CASE UNCHANGED drainVars
    BY <2>6 DEF drainVars, Inv, AvailabilityIsCurrent
  <2> QED
    BY <2>1, <2>2, <2>3, <2>4, <2>5, <2>6 DEF DrainNext
<1> QED
  BY <1>1, <1>2, PTL DEF DrainSpec

(* Every lease of every generation is the one of exactly one connection,   *)
(* for any number of configurations activated while requests run: release  *)
(* (drain.rs) always finds the lease it is given.                          *)
THEOREM LeasesAlwaysHeld ==
    DrainSpec => []LeasesAreHeld
<1>1. Inv => LeasesAreHeld
  <2> SUFFICES ASSUME Inv PROVE LeasesAreHeld
    OBVIOUS
  <2>1. ASSUME NEW g \in Generations, NEW k \in Keys
        PROVE  tracker.leases[<<g, k>>] = {held[c].lease : c \in LeaseHolders(g, k)}
    <3>1. <<g, k>> \in Entries /\ <<g, k>>[1] = g /\ <<g, k>>[2] = k
      BY DEF Entries
    <3>2. ASSUME NEW l \in tracker.leases[<<g, k>>]
          PROVE  \E c \in LeaseHolders(g, k) : l = held[c].lease
      <4>1. PICK c \in Clients : held[c] = [gen |-> g, key |-> k, lease |-> l]
        BY <3>1 DEF Inv, Agree
      <4>2. l \in 0..MaxLeases
        BY <3>1 DEF Inv, SoundTracker, WellTyped
      <4>3. held[c] # NoReference
        BY <4>1, <4>2, NoReferenceAssumption DEF References
      <4> QED
        BY <4>1, <4>3 DEF LeaseHolders
    <3>3. ASSUME NEW c \in LeaseHolders(g, k)
          PROVE  held[c].lease \in tracker.leases[<<g, k>>]
      BY DEF LeaseHolders, Inv, Agree
    <3> QED
      BY <3>2, <3>3
  <2>2. \A c, d \in Clients :
          held[c] # NoReference /\ held[d] # NoReference /\ held[c].lease = held[d].lease => c = d
    BY DEF Inv, Agree
  <2> QED
    BY <2>1, <2>2 DEF LeasesAreHeld
<1> QED
  BY <1>1, DrainInvariant, PTL

(* A drain is complete exactly when its last reference is gone, and only   *)
(* the current configuration has active entries.                           *)
THEOREM DrainStateAlwaysTellsUse ==
    DrainSpec => []DrainStateTellsUse
<1>1. Inv => DrainStateTellsUse
  BY DEF Inv, SoundTracker, StateTellsUse, DrainStateTellsUse, Entries
<1> QED
  BY <1>1, DrainInvariant, PTL

(* The variables keep their types, and no lease is recorded that was never *)
(* given out.                                                              *)
THEOREM DrainTypeCorrect ==
    DrainSpec => []DrainTypeOK
<1>1. Inv => DrainTypeOK
  <2> SUFFICES ASSUME Inv PROVE DrainTypeOK
    OBVIOUS
  <2>1. \A e \in Entries : tracker.leases[e] \subseteq 0..(tracker.next - 1)
    BY DEF Inv, SoundTracker, WellTyped, LeasesBelowNext
  <2> QED
    BY <2>1 DEF Inv, SoundTracker, WellTyped, DrainTypeOK, Entries
<1> QED
  BY <1>1, DrainInvariant, PTL

(* No health result of an earlier configuration routes a request.          *)
THEOREM AvailabilityAlwaysCurrent ==
    DrainSpec => []AvailabilityIsCurrent
<1>1. Inv => AvailabilityIsCurrent
  BY DEF Inv
<1> QED
  BY <1>1, DrainInvariant, PTL

(* apply_availability and reconcile never let health results of the active *)
(* configuration be replaced by older ones or lost.                        *)
THEOREM HealthOnlyGoesForward ==
    DrainSpec => HealthNeverGoesBack
<1>1. Inv /\ [DrainNext]_drainVars => [active' = active => avail'.gen >= avail.gen]_drainVars
  <2> SUFFICES ASSUME Inv, DrainNext, active' = active PROVE avail'.gen >= avail.gen
    BY DEF drainVars
  <2>1. avail.gen \in Int
    BY DEF Inv
  <2>2. ASSUME avail' = avail PROVE avail'.gen >= avail.gen
    BY <2>1, <2>2
  <2>3. ASSUME NEW r \in Revisions, ApplyConfig(r) PROVE avail'.gen >= avail.gen
    <3>1. r = active
      BY <2>3 DEF ApplyConfig
    <3>2. avail' = avail
      BY <2>3, <3>1 DEF ApplyConfig, CarriedAvailability
    <3> QED
      BY <2>2, <3>2
  <2>4. ASSUME NEW results \in Results, PublishAvailability(results) PROVE avail'.gen >= avail.gen
    BY <2>4 DEF PublishAvailability, Acceptable
  <2>5. ASSUME NEW r \in Revisions, NEW results \in Results, Activate(r, results)
        PROVE  avail'.gen >= avail.gen
    BY <2>5 DEF Activate, Acceptable, CarriedAvailability
  <2> QED
    BY <2>2, <2>3, <2>4, <2>5 DEF DrainNext, Finish, Select, SelectRetry
<1> QED
  BY <1>1, DrainInvariant, PTL DEF DrainSpec, HealthNeverGoesBack

(* Draining is exact for every number of configurations, upstreams and     *)
(* connections: what drain.rs records is what the requests hold.           *)
THEOREM DrainAlwaysExact ==
    DrainSpec => []DrainIsExact
<1>1. LeasesAreHeld /\ DrainStateTellsUse /\ AvailabilityIsCurrent => DrainIsExact
  BY DEF DrainIsExact
<1> QED
  BY <1>1, LeasesAlwaysHeld, DrainStateAlwaysTellsUse, AvailabilityAlwaysCurrent, PTL

(* The leases that are counted for an upstream, and the connections that   *)
(* hold it, correspond one to one.                                         *)
LEMMA LeasesMatchHolders ==
    ASSUME Inv, NEW k \in Keys
    PROVE  LET old == {e \in (Generations \ {tracker.gen}) \X {k} : tracker.state[e] \in {"Draining", "Removed"}}
               counted == tracker.leases[<<tracker.gen, k>>] \cup UNION {tracker.leases[e] : e \in old}
               users == {c \in Clients : held[c] # NoReference /\ held[c].key = k} IN
           /\ tracker.leases[<<tracker.gen, k>>] \cap UNION {tracker.leases[e] : e \in old} = {}
           /\ \A c \in users : held[c].lease \in counted
           /\ \A l \in counted : \E c \in users : held[c].lease = l
           /\ \A c, d \in users : held[c].lease = held[d].lease => c = d
<1> DEFINE g == tracker.gen
           old == {e \in (Generations \ {g}) \X {k} : tracker.state[e] \in {"Draining", "Removed"}}
           counted == tracker.leases[<<g, k>>] \cup UNION {tracker.leases[e] : e \in old}
           users == {c \in Clients : held[c] # NoReference /\ held[c].key = k}
<1>0. /\ g \in Generations /\ <<g, k>> \in Entries
      /\ tracker.state \in [Entries -> EntryStates \cup {"Absent"}]
      /\ tracker.leases \in [Entries -> SUBSET (0..MaxLeases)]
  BY DEF Inv, SoundTracker, WellTyped, Entries
<1>1. \A e \in Entries : \A l \in tracker.leases[e] :
        \E c \in Clients : /\ held[c] # NoReference /\ held[c].lease = l
                              /\ held[c].gen = e[1] /\ held[c].key = e[2]
  <2> SUFFICES ASSUME NEW e \in Entries, NEW l \in tracker.leases[e]
               PROVE  \E c \in Clients : /\ held[c] # NoReference /\ held[c].lease = l
                                             /\ held[c].gen = e[1] /\ held[c].key = e[2]
    OBVIOUS
  <2>1. PICK c \in Clients : held[c] = [gen |-> e[1], key |-> e[2], lease |-> l]
    BY DEF Inv, Agree
  <2>2. e[1] \in Generations /\ e[2] \in Keys /\ l \in 0..MaxLeases
    BY <1>0 DEF Entries
  <2>3. held[c] # NoReference
    BY <2>1, <2>2, NoReferenceAssumption DEF References
  <2> QED
    BY <2>1, <2>3
<1>2. \A c, d \in Clients :
        held[c] # NoReference /\ held[d] # NoReference /\ held[c].lease = held[d].lease => c = d
  BY DEF Inv, Agree
<1>3. \A e \in old : e \in Entries /\ e[1] # g /\ e[2] = k
  BY DEF Entries
<1>4. tracker.leases[<<g, k>>] \cap UNION {tracker.leases[e] : e \in old} = {}
  <2> SUFFICES ASSUME NEW l \in tracker.leases[<<g, k>>], NEW e \in old, l \in tracker.leases[e]
               PROVE  FALSE
    OBVIOUS
  <2>1. PICK c \in Clients : held[c] # NoReference /\ held[c].lease = l /\ held[c].gen = g
    BY <1>0, <1>1
  <2>2. PICK d \in Clients : held[d] # NoReference /\ held[d].lease = l /\ held[d].gen = e[1]
    BY <1>1, <1>3
  <2> QED
    BY <2>1, <2>2, <1>2, <1>3
<1>5. \A l \in counted : \E c \in users : held[c].lease = l
  <2> SUFFICES ASSUME NEW l \in counted PROVE \E c \in users : held[c].lease = l
    OBVIOUS
  <2>1. PICK e \in Entries : l \in tracker.leases[e] /\ e[2] = k
    BY <1>0, <1>3
  <2> QED
    BY <2>1, <1>1
<1>6. \A c \in users : held[c].lease \in counted
  <2> SUFFICES ASSUME NEW c \in users PROVE held[c].lease \in counted
    OBVIOUS
  <2> DEFINE e == <<held[c].gen, k>>
  <2>1. held[c] \in References /\ held[c].lease \in tracker.leases[e]
    BY DEF Inv, Agree
  <2>2. e \in Entries /\ held[c].gen \in Generations
    BY <2>1 DEF Entries, References
  <2>3. tracker.state[e] \in {"Draining", "Removed"} \/ e[1] = g
    BY <2>1, <2>2, <1>0 DEF Inv, SoundTracker, StateTellsUse, EntryStates
  <2>4. CASE e[1] = g
    BY <2>1, <2>4
  <2>5. CASE e[1] # g
    <3>1. e \in old
      BY <2>2, <2>3, <2>5
    <3> QED
      BY <2>1, <3>1
  <2> QED
    BY <2>4, <2>5
<1> QED
  BY <1>2, <1>4, <1>5, <1>6

(* operational_snapshot counts exactly the connections that use an         *)
(* upstream, under whichever configuration they were routed: the count     *)
(* that an operator waits to see at zero is never too low.                 *)
THEOREM StatusCountsAlwaysExact ==
    DrainSpec => []StatusCountsExact
<1>1. Inv => StatusCountsExact
  <2> SUFFICES ASSUME Inv, NEW k \in Keys
               PROVE  ConnectionCount(tracker, k)
                        = Cardinality({c \in Clients : held[c] # NoReference /\ held[c].key = k})
    BY DEF StatusCountsExact
  <2> DEFINE old == {e \in (Generations \ {tracker.gen}) \X {k} : tracker.state[e] \in {"Draining", "Removed"}}
             here == tracker.leases[<<tracker.gen, k>>]
             before == UNION {tracker.leases[e] : e \in old}
             users == {c \in Clients : held[c] # NoReference /\ held[c].key = k}
             lease == [c \in users |-> held[c].lease]
  <2>1. /\ here \cap before = {}
        /\ \A c \in users : held[c].lease \in here \cup before
        /\ \A l \in here \cup before : \E c \in users : held[c].lease = l
        /\ \A c, d \in users : held[c].lease = held[d].lease => c = d
    BY LeasesMatchHolders
  <2>2. here \subseteq 0..MaxLeases /\ before \subseteq 0..MaxLeases
    BY DEF Inv, SoundTracker, WellTyped, Entries
  <2>3. ConnectionCount(tracker, k) = Cardinality(here) + Cardinality(before)
    BY DEF ConnectionCount
  <2> HIDE DEF here, before, users
  <2>4. IsFiniteSet(here) /\ IsFiniteSet(before)
    <3>1. IsFiniteSet(0..MaxLeases)
      BY FS_Interval, DrainAssumption
    <3> QED
      BY <2>2, <3>1, FS_Subset
  <2>5. /\ IsFiniteSet(here \cup before)
        /\ Cardinality(here \cup before) = Cardinality(here) + Cardinality(before)
    <3>1. Cardinality(here) \in Nat /\ Cardinality(before) \in Nat
      BY <2>4, FS_CardinalityType
    <3>2. Cardinality(here \cap before) = 0
      BY <2>1, FS_EmptySet
    <3>3. /\ IsFiniteSet(here \cup before)
          /\ Cardinality(here \cup before)
               = Cardinality(here) + Cardinality(before) - Cardinality(here \cap before)
      BY <2>4, FS_Union
    <3> QED
      BY <3>1, <3>2, <3>3
  <2>6. lease \in Injection(users, here \cup before) /\ lease \in Surjection(users, here \cup before)
    BY <2>1 DEF Injection, Surjection, IsInjective
  <2>7. Cardinality(users) = Cardinality(here \cup before)
    <3> HIDE DEF lease
    <3> QED BY <2>5, <2>6, FS_Injection
  <2> QED
    BY <2>3, <2>5, <2>7 DEF users
<1> QED
  BY <1>1, DrainInvariant, PTL

=============================================================================

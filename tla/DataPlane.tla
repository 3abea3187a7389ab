------------------------------- MODULE DataPlane -------------------------------
(***************************************************************************)
(* The event loop of the data plane (run_snapshot_http_proxy_mio).  One    *)
(* thread repeats a turn: accept, drive the client reads, expire deadlines,*)
(* poll, expire again, deliver the batch of events that poll returned,     *)
(* clean up.  What can go wrong is between the steps of a turn: a batch is *)
(* captured by poll and delivered after deadlines have expired and after   *)
(* other events of the batch have closed, paused or replaced the sockets   *)
(* it speaks of.                                                           *)
(*                                                                         *)
(* The handlers are those of ProxyRuntime.  Clients, upstreams, clocks and *)
(* the allocator are nondeterministic.  A connection id that is free may   *)
(* be used again once no event mentions it: the code never reuses one.     *)
(***************************************************************************)
EXTENDS ProxyRuntime

CONSTANTS
    MaxConnections,  \* resource_policy.max_connections
    MaxRequest,      \* bound: units of an incomplete request
    MaxBatch,        \* bound: events that one poll returns
    MayDrain         \* bound: whether a drain command can come

ASSUME LoopAssumption ==
    MaxConnections \in Nat /\ MaxRequest \in Nat /\ MaxBatch \in Nat /\ MayDrain \in BOOLEAN

VARIABLES
    rt,        \* the world of ProxyRuntime
    turn,      \* where in its turn the loop is
    todo,      \* connections the current pass has still to visit
    events,    \* what is left of the batch of the last poll
    work,      \* what is left of the delivery of one event
    draining   \* a drain deadline is set

vars == <<rt, turn, todo, events, work, draining>>

Connections == DOMAIN rt.conn
Due == {c \in Connections : rt.conn[c].deadline}
Readable(x) == x.io.state \in {"Accepted", "ReadingClientRequest"}

(* The world after a handler.  An error ends the loop and drops it all.    *)
Becomes(w) == \E v \in {w} : rt' = IF v.halted THEN [NewWorld EXCEPT !.halted = TRUE] ELSE v

Init ==
    /\ rt = NewWorld /\ turn = "accept" /\ todo = {} /\ events = {} /\ work = <<>>
    /\ draining = FALSE

-----------------------------------------------------------------------------
(* The handlers, with what the outside answers them.                       *)

ReadClientStep(c) ==
    \/ \E part \in BOOLEAN, end \in ReadEnds \ {"complete"} :
         /\ part => Live(rt, c) /\ rt.budget.held[c]["request"] < MaxRequest
         /\ Becomes(ReadClient(rt, c, part, end, [kind |-> "reply"], NoRetry))
    \/ \E part \in BOOLEAN, route \in Routes :
         /\ part => Live(rt, c) /\ rt.budget.held[c]["request"] < MaxRequest
         /\ \E s \in IF route.kind = "proxy" /\ ~route.dialled THEN RetryScripts ELSE {NoRetry} :
               Becomes(ReadClient(rt, c, part, "complete", route, s))

WriteClientStep(c) ==
    \E write, write2 \in WriteOutcomes : Becomes(WriteClient(rt, c, write, write2))

WriteUpstreamStep(c) ==
    \E o \in WriteScripts :
        \E s \in IF WriteFails(rt, c, o) THEN RetryScripts ELSE {NoRetry} :
            Becomes(WriteUpstream(rt, c, o, s))

(* read_upstream: a socket that is still connecting has no data.           *)
ReadUpstreamStep(c) ==
    IF ~Live(rt, c) THEN rt' = rt
    ELSE IF rt.conn[c].up = NoUpstream THEN rt' = rt
    ELSE IF rt.conn[c].io.state = "HandshakingUpstreamTls"
    THEN \E end \in {"block", "flight", "established", "fail"}, s \in RetryScripts :
             Becomes(ReadTlsHandshake(rt, c, end, s))
    ELSE \E part \in BOOLEAN, end \in ResponseEnds :
             /\ end = "header" => ~part /\ ~rt.conn[c].io.attempt.started
             /\ rt.conn[c].io.state = "ConnectingUpstream" => ~part /\ end \in {"block", "error"}
             /\ Becomes(ReadResponse(rt, c, part, end))

-----------------------------------------------------------------------------
(* The turn.                                                               *)

(* accept_ready, at the start of the turn or for a listener event          *)
Accept(c) ==
    /\ turn \in {"accept", "events"} /\ work = <<>> /\ ~draining
    /\ c \notin Connections /\ \A e \in events : e.c # c
    /\ Admits(rt, MaxConnections)
    /\ Becomes(AcceptConnection(rt, c))
    /\ UNCHANGED <<turn, todo, events, work, draining>>

(* A drain command sets the deadline; commands are taken before accepting  *)
(* and after polling.                                                      *)
BeginDrain ==
    /\ MayDrain /\ turn \in {"accept", "expire2"} /\ ~draining
    /\ draining' = TRUE
    /\ UNCHANGED <<rt, turn, todo, events, work>>

(* A shutdown command, taken at the same places, ends the loop at once.    *)
Shutdown ==
    /\ MayDrain /\ turn \in {"accept", "expire2"}
    /\ turn' = "stopped" /\ rt' = NewWorld
    /\ UNCHANGED <<todo, events, work, draining>>

(* The loop returns when the last connection is gone or the deadline has   *)
(* passed.  The slip forgets the deadline.                                 *)
StopWhenEmpty ==
    /\ turn = "accept" /\ draining /\ Connections = {}
    /\ turn' = "stopped" /\ rt' = NewWorld
    /\ UNCHANGED <<todo, events, work, draining>>
StopDrained ==
    /\ turn = "accept" /\ draining
    /\ turn' = "stopped" /\ rt' = NewWorld
    /\ UNCHANGED <<todo, events, work, draining>>

StartDrive ==
    /\ turn = "accept"
    /\ draining => Connections # {}
    /\ turn' = "drive"
    /\ todo' = {c \in Connections : Readable(rt.conn[c])}
    /\ UNCHANGED <<rt, events, work, draining>>

(* drive_client_reads *)
Drive(c) ==
    /\ turn = "drive" /\ c \in todo
    /\ ReadClientStep(c)
    /\ todo' = todo \ {c}
    /\ UNCHANGED <<turn, events, work, draining>>

StartExpire ==
    /\ turn = "drive" /\ todo = {}
    /\ turn' = "expire"
    /\ todo' \in SUBSET Due
    /\ UNCHANGED <<rt, events, work, draining>>

(* expire_due_deadlines *)
Expire(c) ==
    /\ turn \in {"expire", "expire2"} /\ c \in todo
    /\ \E s \in RetryScripts : Becomes(ExpireConnection(rt, c, s))
    /\ todo' = todo \ {c}
    /\ UNCHANGED <<turn, events, work, draining>>

EndExpire ==
    /\ turn \in {"expire", "expire2"} /\ todo = {}
    /\ turn' = IF turn = "expire" THEN "poll" ELSE "events"
    /\ Becomes(Enforce(rt))
    /\ UNCHANGED <<todo, events, work, draining>>

(* What poll can report of a registered socket.  A hang-up is readable     *)
(* whatever the interest; an error is readable too.                        *)
Reportable(c) ==
    LET x == rt.conn[c] IN
    [side : {"client"}, c : {c},
     ready : {r \in SUBSET {"r", "w", "e"} : /\ r # {} /\ x.clReg # {}
                                             /\ "w" \in r => "w" \in x.clReg
                                             /\ "e" \in r => "r" \in r}]
    \cup [side : {"upstream"}, c : {c}, ready : (SUBSET x.upReg) \ {{}}]

(* poll returns a batch with at most one event per socket.                 *)
Poll ==
    /\ turn = "poll"
    /\ events' \in {batch \in SUBSET UNION {Reportable(c) : c \in Connections} :
                      /\ Cardinality(batch) <= MaxBatch
                      /\ \A e, f \in batch : e.side = f.side /\ e.c = f.c => e = f}
    /\ turn' = "expire2"
    /\ todo' \in SUBSET Due
    /\ UNCHANGED <<rt, work, draining>>

(* poll is interrupted: the turn starts again, without cleanup.            *)
PollInterrupted ==
    /\ turn = "poll"
    /\ turn' = "accept"
    /\ UNCHANGED <<rt, todo, events, work, draining>>

(* client_ready and upstream_ready: which handlers an event runs, decided  *)
(* from the state the connection is in when the event is delivered.        *)
Handlers(e) ==
    LET reads == Live(rt, e.c) /\ Readable(rt.conn[e.c]) IN
    IF e.side = "client"
    THEN (IF "r" \in e.ready /\ reads THEN <<"ReadClient">> ELSE <<>>)
         \o (IF "w" \in e.ready THEN <<"WriteClient">> ELSE <<>>)
    ELSE (IF "w" \in e.ready THEN <<"WriteUpstream">> ELSE <<>>)
         \o (IF "r" \in e.ready THEN <<"ReadUpstream">> ELSE <<>>)

Deliver ==
    /\ turn = "events" /\ work = <<>>
    /\ \E e \in events :
         /\ events' = events \ {e}
         /\ IF e.side = "client" /\ "e" \in e.ready
               /\ ~(Live(rt, e.c) /\ Readable(rt.conn[e.c]))
            THEN /\ work' = <<>>
                 /\ rt' = IF Live(rt, e.c) THEN RemoveConnection(DropUpstream(rt, e.c), e.c) ELSE rt
            ELSE /\ work' = [i \in DOMAIN Handlers(e) |-> [op |-> Handlers(e)[i], c |-> e.c]]
                            \o <<[op |-> "Reconcile", c |-> e.c]>>
                 /\ rt' = rt
    /\ UNCHANGED <<turn, todo, draining>>

Handle(op) ==
    /\ turn = "events" /\ work # <<>> /\ Head(work).op = op
    /\ work' = Tail(work)
    /\ UNCHANGED <<turn, todo, events, draining>>

HandleReadClient    == Handle("ReadClient")    /\ ReadClientStep(Head(work).c)
HandleWriteClient   == Handle("WriteClient")   /\ WriteClientStep(Head(work).c)
HandleWriteUpstream == Handle("WriteUpstream") /\ WriteUpstreamStep(Head(work).c)
HandleReadUpstream  == Handle("ReadUpstream")  /\ ReadUpstreamStep(Head(work).c)
HandleReconcile     == Handle("Reconcile")     /\ Becomes(ReconcileTransport(rt, Head(work).c))

(* cleanup_closed ends the turn *)
StartCleanup ==
    /\ turn = "events" /\ events = {} /\ work = <<>>
    /\ turn' = "cleanup"
    /\ todo' = {c \in Connections : Removable(rt.conn[c])}
    /\ UNCHANGED <<rt, events, work, draining>>

Cleanup(c) ==
    /\ turn = "cleanup" /\ c \in todo
    /\ Becomes(CleanupClosed(rt, c))
    /\ todo' = todo \ {c}
    /\ UNCHANGED <<turn, events, work, draining>>

EndCleanup ==
    /\ turn = "cleanup" /\ todo = {}
    /\ turn' = "accept"
    /\ Becomes(Enforce(rt))
    /\ UNCHANGED <<todo, events, work, draining>>

(* The loop has returned, in order or with an error.                       *)
Returned == turn = "stopped" \/ rt.halted
Stopped == Returned /\ UNCHANGED vars

(* A step of the loop's own thread, and a step that something outside      *)
(* decides on: a client connecting, an operator's command.                 *)
LoopStep ==
    \/ \E c \in Owners : Drive(c) \/ Expire(c) \/ Cleanup(c)
    \/ StopDrained \/ StartDrive \/ StartExpire \/ EndExpire
    \/ Poll \/ PollInterrupted \/ Deliver
    \/ HandleReadClient \/ HandleWriteClient \/ HandleWriteUpstream
    \/ HandleReadUpstream \/ HandleReconcile \/ StartCleanup \/ EndCleanup
OutsideStep == BeginDrain \/ Shutdown \/ \E c \in Owners : Accept(c)

Next == (~rt.halted /\ (LoopStep \/ OutsideStep)) \/ Stopped

Spec == Init /\ [][Next]_vars

(* The thread is never blocked: poll returns within ten milliseconds while *)
(* draining.  The drain deadline passes, so a loop that keeps coming back  *)
(* to the top of its turn finds it passed.                                 *)
FairSpec ==
    Spec /\ WF_vars(~rt.halted /\ LoopStep) /\ SF_vars(~rt.halted /\ StopDrained)

-----------------------------------------------------------------------------
(* Properties.                                                             *)

Reading(x) == x.io.state = "ReadingUpstreamResponse"
InUpstream(x) == x.io.state \in {"ConnectingUpstream", "HandshakingUpstreamTls",
                                 "WritingUpstreamRequest", "ReadingUpstreamResponse"}


(* No charge outlives its connection: whatever path removed a connection   *)
(* (close, error, timeout, cleanup), the budget holds nothing for it, and  *)
(* the total is exactly what the live connections own.                     *)
NoOrphanCharges ==
    /\ BudgetBalanced(rt.budget)
    /\ \A c \in Owners \ Connections : rt.budget.held[c] = EmptySlots

(* The attempt failed after part of its response had been taken.           *)
Cut(x) == x.io.attempt.started /\ x.io.attempt.terminal \notin {"None", "Succeeded"}

(* The response charge of a connection is exactly the response bytes it    *)
(* owns, what is buffered and the batch handed to the transport, however   *)
(* reads, partial writes, pauses and failures interleave.  A cut response  *)
(* is excepted: write_upstream replaces the buffer and its charge under a  *)
(* batch that is still being written (see NeverSplicedResponse).           *)
ResponseExactlyCharged ==
    \A c \in Connections : LET x == rt.conn[c] IN
        Cut(x) \/ rt.budget.held[c]["response"] = x.io.clientWrite + x.batch

(* A drain reference is held for exactly the connections that name the     *)
(* upstream: an upstream removed from the configuration is drained when    *)
(* its last connection is gone, not before and not never.                  *)
LeasesMatchConnections ==
    \A u \in Upstreams :
        rt.leases[u] = Cardinality({c \in Connections : rt.conn[c].lease = u})

(* A request is handed to at most one upstream, in whole or in part: a     *)
(* retry only follows an attempt that was handed nothing.                  *)
AtMostOneUpstream == \A c \in Connections : Cardinality(rt.conn[c].sent) <= 1

(* The socket a request is sent on leads to the upstream that was selected *)
(* for it, whether it is new, reused from an earlier request or the        *)
(* socket of a retry; and the drain reference is on that same upstream.    *)
SocketIsSelectedUpstream ==
    \A c \in Connections : LET x == rt.conn[c] IN
        InUpstream(x) =>
            /\ x.up \in {NoUpstream, x.lease} /\ x.lease \in x.attempted
            /\ Cardinality(x.attempted) = x.used + 1

(* The loop drives every connection within the protocol for which          *)
(* ConnectionLifecycle is proved: the state and the progress of the attempt *)
(* agree, and evaluate_retry decides from true facts.                      *)
AttemptsFollowState == \A c \in Connections : Coherent(rt.conn[c].io)

(* One request, one upstream: it reaches at most one, over a socket that   *)
(* leads to the one selected and leased for it, across reuse and retries.  *)
OneUpstreamPerRequest == AtMostOneUpstream /\ SocketIsSelectedUpstream /\ AttemptsFollowState

(* When the loop goes to sleep, an upstream response is read exactly when  *)
(* the budget is not under pressure and the client's buffer has room, for  *)
(* every connection, whichever of them changed the pressure.               *)
ReadsFollowPressure ==
    turn = "poll" => \A c \in Connections : LET x == rt.conn[c] IN
        Reading(x) /\ x.up # NoUpstream =>
            ((x.upReg # {}) <=> ~ReadMustPause(rt.budget.pressure, Buffered(x), MaxResponseBuffer))

(* The payload budget is enforced both ways: nothing is charged for a      *)
(* connection that is gone, and the connections that are there read        *)
(* exactly while the budget allows.                                        *)
PayloadIsControlled == NoOrphanCharges /\ ReadsFollowPressure

(* A connection that is not being closed always has a deadline: nobody it  *)
(* waits for can make it wait for ever.                                    *)
DeadlineArmed ==
    \A c \in Connections : rt.conn[c].deadline \/ rt.conn[c].closeAfter

(* A drain ends: whatever the connections are doing, and even if one of    *)
(* them is stuck, the loop returns.                                        *)
DrainEnds == draining ~> Returned

-----------------------------------------------------------------------------
(* What the documents and tests say and the code does not do.              *)

(* A connection the loop still owns will be looked at again: it has a      *)
(* deadline, a registered socket, or cleanup will remove it.               *)
NoStrandedConnection ==
    turn = "poll" => \A c \in Connections : LET x == rt.conn[c] IN
        x.deadline \/ x.clReg # {} \/ x.upReg # {} \/ Removable(x)

(* Whatever clients and upstreams do, no handler ends the event loop.      *)
LoopSurvives == ~rt.halted

(* The bytes of well-formed requests and responses never fail admission    *)
(* closed for the whole process.                                           *)
NeverFailsClosed == rt.budget.pressure # "FailedClosed"

(* A response that is not being read because of backpressure does not run  *)
(* into the read timeout.                                                  *)
PausedReadNeverDue ==
    turn \in {"expire", "expire2"} => \A c \in todo \cap Connections : LET x == rt.conn[c] IN
        ~(Reading(x) /\ x.up # NoUpstream /\ x.upReg = {})

(* Once response bytes were taken from an upstream, the client never gets  *)
(* another response to that request behind them: the response is finished  *)
(* or the connection is closed.                                            *)
NeverSplicedResponse ==
    \A c \in Connections :
        Cut(rt.conn[c]) => rt.conn[c].io.state # "WritingClientResponse"

=============================================================================

-------------------------- MODULE ConnectionLifecycle --------------------------
(***************************************************************************)
(* One HttpConnectionIo driven by any sequence of its operations, the way  *)
(* the event loop may call them: the loop does not consult the lifecycle   *)
(* before it calls, it relies on the refusals.  An attempt is only failed  *)
(* while the connection is in an upstream state, which is where every      *)
(* caller of fail_upstream_attempt is.  The bytes a caller reads, writes   *)
(* or queues are any number.  The lemmas about this machine carry the      *)
(* proofs about the event loop that drives it (DataPlane).                 *)
(***************************************************************************)
EXTENDS ConnectionIo

VARIABLE io

UpstreamStates == {"ConnectingUpstream", "HandshakingUpstreamTls",
                   "WritingUpstreamRequest", "ReadingUpstreamResponse"}

LifecycleInit == io = NewIo

Receive == \E outcome \in {"incomplete", "complete", "malformed"} :
    io' = ReceiveClientBytes(io, outcome).io
Connect == io' = BeginUpstreamConnect(io).io
StartTls == io' = HandleEvent(io, "UpstreamTlsHandshakeStarted").io
Connected == \E n \in Nat \ {0} : io' = UpstreamConnected(io, n).io
WriteRequest == \E n \in Nat \ {0} : io' = AdvanceUpstreamWrite(io, n).io
TakeResponse == \E n \in Nat : io' = ReceiveUpstreamBytes(io, n).io
EndResponse == io' = FinishUpstreamResponse(io).io
SettleFailed == /\ io.state \in UpstreamStates
               /\ \E f \in Failures : io' = FailUpstreamAttempt(io, f).io
Retry == io' = PrepareUpstreamRetry(io).io
Respond == \E n \in Nat \ {0} : io' = QueueResponse(io, n).io
DrainClient == \E n \in Nat \ {0} : io' = AdvanceClientWrite(io, n).io
FinishClient == \E keepAlive \in BOOLEAN : io' = FinishClientResponse(io, keepAlive).io
BreakOff == io' = HandleEvent(io, "IoError").io

LifecycleNext ==
    \/ Receive \/ Connect \/ StartTls \/ Connected \/ WriteRequest \/ TakeResponse
    \/ EndResponse \/ SettleFailed \/ Retry \/ Respond \/ DrainClient
    \/ FinishClient \/ BreakOff

LifecycleSpec == LifecycleInit /\ [][LifecycleNext]_io

-----------------------------------------------------------------------------

(* The fields of HttpConnectionIo have their types: no cursor of a buffer  *)
(* passes its end, whatever a caller reports as written.                   *)
IoTypeOK ==
    /\ io.state \in ConnectionStates
    /\ io.attempt.phase \in Phases
    /\ io.attempt.written \in Nat
    /\ io.attempt.started \in BOOLEAN
    /\ io.attempt.terminal \in Failures \cup {"None", "Succeeded"}
    /\ io.upstreamWrite \in Nat
    /\ io.clientWrite \in Nat

(* The lifecycle state and the attempt's progress never drift apart,       *)
(* whatever is called and refused in whatever order: before an upstream is *)
(* contacted the attempt is pristine (nothing of an earlier request or an  *)
(* earlier upstream is left in it), no request byte is recorded before the *)
(* request is being written, no response byte before it has been written   *)
(* whole.  evaluate_retry decides from these fields.                       *)
AttemptFollowsState == Coherent(io)

(* An attempt has one outcome: once it is terminal its outcome is never    *)
(* overwritten, it can only be replaced by a pristine attempt (a retry, or *)
(* the next request of a keep-alive connection).  A late failure of an     *)
(* attempt that was already settled is refused.                            *)
AttemptSettlesOnce ==
    [][io.attempt.terminal # "None" =>
           io'.attempt = io.attempt \/ io'.attempt = FreshAttempt]_io

=============================================================================

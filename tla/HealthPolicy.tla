---------------------------- MODULE HealthPolicy ----------------------------
(***************************************************************************)
(* How an upstream is judged: the state machines of active and passive     *)
(* health, the eligibility that combines them, and what one probe of an    *)
(* upstream concludes from the way the upstream behaves.                   *)
(*                                                                         *)
(* Source: crates/edge-domain/src/lib.rs (upstream health, passive health, *)
(* effective eligibility), crates/edge-adapters/src/                       *)
(* health_probe_transport.rs and health_probe_tls_registry.rs.             *)
(***************************************************************************)
EXTENDS Naturals

CONSTANTS HealthyThreshold, UnhealthyThreshold, FailureThreshold

ASSUME ThresholdAssumption ==
    {HealthyThreshold, UnhealthyThreshold, FailureThreshold} \subseteq 1..10

(* UpstreamHealthState: the availability ("Disabled", "Unknown", "Healthy" *)
(* or "Unhealthy") and the consecutive successes and failures that count   *)
(* towards leaving it.                                                     *)
HealthState(a) == [a |-> a, s |-> 0, f |-> 0]

(* UpstreamHealthState::for_policy *)
HealthForPolicy(checked) == HealthState(IF checked THEN "Unknown" ELSE "Disabled")

(* transition_upstream_health *)
TransitionUpstreamHealth(h, ok) ==
    CASE h.a = "Disabled" -> h
      [] ok /\ (h.a = "Healthy" \/ h.s + 1 >= HealthyThreshold) -> HealthState("Healthy")
      [] ok -> [h EXCEPT !.s = @ + 1, !.f = 0]
      [] ~ok /\ (h.a = "Unhealthy" \/ h.f + 1 >= UnhealthyThreshold) -> HealthState("Unhealthy")
      [] OTHER -> [h EXCEPT !.s = 0, !.f = @ + 1]

-----------------------------------------------------------------------------
(* Passive health.                                                         *)

(* PassiveHealthState.  An ejection lasts until the age of the connection  *)
(* that failed plus ejection_ms, which is compared with the age of the     *)
(* health thread: two unrelated clocks, so the moment is not kept and an   *)
(* ejection may end at any later turn of the thread.                       *)
Passive(st) == [st |-> st, failures |-> 0]
Observing == Passive("Observing")

(* transition_passive_health: Succeeded and Failed, then CooldownElapsed   *)
PassiveObserve(p, ok) ==
    CASE p.st # "Observing" -> p
      [] ok -> Observing
      [] p.failures + 1 >= FailureThreshold -> Passive("Ejected")
      [] OTHER -> [p EXCEPT !.failures = @ + 1]
PassiveCooldown(p, elapsed) == IF p.st = "Ejected" /\ elapsed THEN Observing ELSE p

-----------------------------------------------------------------------------
(* effective_eligibility: the reasons, in the order they are tried *)
EffectiveEligibility(present, draining, activeHealth, passive) ==
    CASE ~present -> "Removed"
      [] draining -> "Draining"
      [] activeHealth = "Unhealthy" -> "ActiveUnhealthy"
      [] passive.st = "Ejected" -> "PassiveEjected"
      [] OTHER -> "Eligible"

-----------------------------------------------------------------------------
(* HttpHealthProbeTransport: what an upstream may do to a probe, and what  *)
(* the probe makes of it.                                                  *)

ConnectOutcomes == {"Ok", "Timeout", "Refused"}
HandshakeOutcomes == {"None", "Established", "NoFactory", "Alert", "Stalled"}
ResponseOutcomes == {"Expected", "OtherStatus", "Garbled", "Stalled", "TooLarge", "Unwritable"}
PeerBehaviour ==
    [connect : ConnectOutcomes, handshake : HandshakeOutcomes, response : ResponseOutcomes]

(* classify_connect_failure *)
ConnectFailure(c) == IF c = "Timeout" THEN "ConnectTimeout" ELSE "ConnectError"

(* create_session and drive_health_tls_handshake *)
HandshakeFailure(h) ==
    CASE h = "NoFactory" -> "TlsProfile"
      [] h = "Stalled" -> "TlsHandshakeTimeout"
      [] OTHER -> "TlsHandshake"

(* read_health_status, read_tls_health_status, parse_health_status_line *)
ReadHealthStatus(r) ==
    CASE r = "Garbled" -> "MalformedResponse"
      [] r = "Stalled" -> "ReadTimeout"
      [] r = "TooLarge" -> "ResponseTooLarge"
      [] OTHER -> r

(* execute, then the status range of probe *)
ProbeOutcome(b) ==
    CASE b.connect # "Ok" -> ConnectFailure(b.connect)
      [] b.handshake \notin {"None", "Established"} -> HandshakeFailure(b.handshake)
      [] b.response = "Unwritable" -> "WriteError"
      [] ReadHealthStatus(b.response) = "Expected" -> "Succeeded"
      [] b.response = "OtherStatus" -> "StatusMismatch"
      [] OTHER -> ReadHealthStatus(b.response)
=============================================================================

--------------------------- MODULE PayloadPressure ---------------------------
(***************************************************************************)
(* The pressure state of the payload budget and the two pure policies that *)
(* read it: connection admission and response-read interest.               *)
(*                                                                         *)
(* Source: crates/edge-core/src/payload_budget_ledger.rs (watermarks) and  *)
(* crates/edge-core/src/resource_admission_policy.rs.  A "byte" of the     *)
(* model is one unit of logical payload; only sums and comparisons of      *)
(* units are observed.                                                     *)
(***************************************************************************)
EXTENDS Integers

CONSTANT
    Limit   \* max_inflight_payload_bytes of the RuntimeResourcePolicy

(* The smallest limit the domain accepts is 16 MiB.  What the hysteresis   *)
(* needs of it is that the two watermarks are distinct and positive, which *)
(* holds from five units on.                                               *)
ASSUME LimitAssumption == Limit \in Nat /\ Limit >= 5

PressureStates == {"Normal", "Pressured", "Exhausted", "FailedClosed"}

HighWatermark == (Limit * 80) \div 100
LowWatermark  == (Limit * 60) \div 100


(* refresh_pressure_after_usage_change: FailedClosed is sticky, Normal is  *)
(* left at the high watermark, and pressure is only cleared at the low one.*)
RefreshPressure(p, used) ==
    CASE p = "FailedClosed"                                     -> p
      [] p = "Normal" /\ used < HighWatermark                   -> "Normal"
      [] p \in {"Pressured", "Exhausted"} /\ used <= LowWatermark -> "Normal"
      [] OTHER                                                  -> "Pressured"

(* connection_admission_decision *)
AdmissionDecision(p, active, maxConnections) ==
    CASE p = "FailedClosed"                -> "RejectedFailedClosed"
      [] p \in {"Pressured", "Exhausted"}  -> "RejectedPayloadPressure"
      [] p = "Normal" /\ active >= maxConnections -> "RejectedConnectionLimit"
      [] OTHER                             -> "Accepted"

(* The condition under which an upstream response read must be paused.     *)
ReadMustPause(p, buffered, maxBuffer) ==
    p # "Normal" \/ buffered >= maxBuffer

(* response_read_interest_action *)
ResponseReadAction(p, state, registered, buffered, maxBuffer) ==
    IF state # "ReadingUpstreamResponse" THEN "Keep"
    ELSE CASE registered /\ ReadMustPause(p, buffered, maxBuffer)   -> "Pause"
           [] ~registered /\ ~ReadMustPause(p, buffered, maxBuffer) -> "Resume"
           [] OTHER -> "Keep"
=============================================================================

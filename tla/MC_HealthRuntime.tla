-------------------------- MODULE MC_HealthRuntime --------------------------
(* The second revision moves the upstream, and watches it passively too.   *)
EXTENDS HealthRuntime, TLC

CONSTANTS u1, r1, r2, w1

T(what, passive) == [what |-> what, checked |-> TRUE, passive |-> passive, draining |-> FALSE]
TwoRevisions == (r1 :> (u1 :> T(1, FALSE)))
             @@ (r2 :> (u1 :> T(3, TRUE)))
=============================================================================

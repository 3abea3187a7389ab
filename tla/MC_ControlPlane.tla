--------------------------- MODULE MC_ControlPlane ---------------------------
(* A configuration to apply that needs a restart; the edits of the proxy   *)
(* host need none.                                                         *)
EXTENDS ControlPlane

OneContent == {[host |-> 1, listen |-> 1]}
=============================================================================

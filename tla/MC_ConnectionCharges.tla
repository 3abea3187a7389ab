------------------------ MODULE MC_ConnectionCharges ------------------------
(* The charge transactions of two connections for TLC.                     *)
EXTENDS ConnectionCharges, TLC
AllClasses == {ClassOf[k] : k \in Slots}
OwnerSymmetry == Permutations(Owners)
=============================================================================

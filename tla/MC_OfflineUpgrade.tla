------------------------- MODULE MC_OfflineUpgrade -------------------------
(* A small instance of OfflineUpgrade for TLC.                             *)
EXTENDS OfflineUpgrade, TLC

\* Two upgrades do the same things, and so do two recoveries.
Permuted == Permutations(Upgrades) \cup Permutations(Recovers)
=============================================================================

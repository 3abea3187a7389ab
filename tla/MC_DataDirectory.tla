------------------------- MODULE MC_DataDirectory -------------------------
(* A small instance of DataDirectory for TLC.                              *)
EXTENDS DataDirectory, TLC

\* Two replacements do the same things, and so do two recoveries.
Permuted == Permutations(Replaces) \cup Permutations(Recoveries)

\* The properties of the passing run speak of the time before the first
\* upset; what follows one need not be explored.
BeforeUpset == upsets = {}
=============================================================================

--------------------------- MODULE MC_TlsMaterial ---------------------------
(* Two certificates that may claim the same host name; the second revision *)
(* uses both, and a trust bundle.                                          *)
EXTENDS TlsMaterial, TLC

CONSTANTS a, b, h1, h2, m1, m2, t, v1, v2

TwoNames == (m1 :> {h1}) @@ (m2 :> {h1, h2})
TwoUses == (v1 :> {a}) @@ (v2 :> {a, b})
OneTrust == (v1 :> {}) @@ (v2 :> {t})
OneStored == [r \in Refs |->
    IF r = a THEN [dir |-> TRUE, chain |-> m1, key |-> m1, meta |-> TRUE, domains |-> {h1}]
             ELSE NoDirectory]
=============================================================================

----------------------------- MODULE MC_DataPlane -----------------------------
(* The event loop with a few connections and upstreams.                    *)
EXTENDS DataPlane, TLC

CONSTANTS c1, c2, u1, u2, u3, none

OneClient   == {c1}
TwoClients  == {c1, c2}
OneUpstream == {u1}
ThreeUpstreams == {u1, u2, u3}
NoTls == {}
ThirdTls == {u3}
ClientSymmetry == Permutations(Owners)
=============================================================================

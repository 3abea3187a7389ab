--------------------------- MODULE MC_UpstreamDrain ---------------------------
(* Two upstreams, two connections, and revisions that drain, remove and    *)
(* bring back one of the upstreams.                                        *)
EXTENDS UpstreamDrain, TLC

CONSTANTS c1, c2, k1, k2

MCKeys == {k1, k2}
MCConnections == {c1, c2}
MCRevisions == {"both", "drain", "remove"}
MCConfigOf ==
    [both   |-> [k \in MCKeys |-> "Active"],
     drain  |-> (k1 :> "Active" @@ k2 :> "Draining"),
     remove |-> (k1 :> "Active" @@ k2 :> "Absent")]
ConnectionSymmetry == Permutations(MCConnections)
=============================================================================

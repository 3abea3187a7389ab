--------------------------- MODULE MC_Observability ---------------------------
(* A small instance of the observability paths: two connections, channels   *)
(* of one or two places, a sampler that remembers one key.                  *)
EXTENDS Observability

CONSTANTS k1, k2, w1, w2

MC_Capacity == [c \in {"access", "error", "metric", "product", "tls"} |->
                    IF c = "metric" THEN 3 ELSE 1]
==============================================================================

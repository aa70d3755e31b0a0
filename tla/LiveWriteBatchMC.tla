--------------------------- MODULE LiveWriteBatchMC ---------------------------
(* A batch of three writes: two to the same target of one asset, one to    *)
(* another asset.  When the packages hold v1 to begin with, the first and  *)
(* the last are no-ops.                                                    *)
EXTENDS LiveWriteBatch

CONSTANTS a, b, x, v0, v1

MCBatch == <<[asset |-> a, target |-> x, value |-> v1],
             [asset |-> a, target |-> x, value |-> v0],
             [asset |-> b, target |-> x, value |-> v1]>>
=============================================================================

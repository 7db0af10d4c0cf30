--------------------------- MODULE MCSyncSession ---------------------------
(* Model-checking instance of SyncSession: a Merkle tree of depth 3 with  *)
(* one key under the leftmost leaf and one under the left leaf of the     *)
(* right subtree, so that a session takes LEFT -> LEFT, LEFT -> RIGHT,    *)
(* RIGHT -> LEFT and both kinds of DB_OBJECT_PUSH.                         *)
EXTENDS SyncSession, TLC

CONSTANTS n1, n2, k1, k2

MCLeafOf == (k1 :> 4) @@ (k2 :> 6)

\* Both nodes replicate the bucket with the Shared policy.
MCSharedPolicy == (n1 :> "shared") @@ (n2 :> "shared")

=============================================================================

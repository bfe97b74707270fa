--------------------------- MODULE MCPendingQueue ---------------------------
(***************************************************************************)
(* Values for model checking PendingQueue.                                 *)
(***************************************************************************)
EXTENDS PendingQueue, TLC

Symmetry == Permutations(Requests)
=============================================================================

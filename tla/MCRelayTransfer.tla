-------------------------- MODULE MCRelayTransfer --------------------------
(***************************************************************************)
(* Values for model checking RelayTransfer.                                *)
(***************************************************************************)
EXTENDS RelayTransfer, TLC

(* Chunks of two, one and one blocks.                                      *)
MCCut == (0 :> 0) @@ (1 :> 2) @@ (2 :> 3) @@ (3 :> 4)

(* A single chunk of two blocks.                                           *)
MCCutOne == (0 :> 0) @@ (1 :> 2)

Symmetry == Permutations(Posts) \cup Permutations(Gets)
=============================================================================

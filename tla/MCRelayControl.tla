--------------------------- MODULE MCRelayControl ---------------------------
(***************************************************************************)
(* Instances of RelayControl.                                              *)
(***************************************************************************)
EXTENDS RelayControl, TLC

Symmetry == Permutations(Conns)
=============================================================================

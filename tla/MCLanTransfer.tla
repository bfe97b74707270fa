--------------------------- MODULE MCLanTransfer ---------------------------
(***************************************************************************)
(* Values for model checking LanTransfer.                                  *)
(***************************************************************************)
EXTENDS LanTransfer, TLC

CONSTANT n

(* All files have one name.                                                *)
MCSameName == [o \in Offers |-> n]

(* For offers of one name.                                                 *)
Symmetry == Permutations(Sends) \cup Permutations(Offers)
=============================================================================

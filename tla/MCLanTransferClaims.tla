------------------------ MODULE MCLanTransferClaims -------------------------
(***************************************************************************)
(* Values for model checking LanTransferClaims.                            *)
(***************************************************************************)
EXTENDS LanTransferClaims

CONSTANT n

(* All files have one name.                                                *)
MCSameName == [o \in Offers |-> n]
=============================================================================

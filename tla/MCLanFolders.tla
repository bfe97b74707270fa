---------------------------- MODULE MCLanFolders ----------------------------
(***************************************************************************)
(* Values for model checking LanFolders.                                   *)
(***************************************************************************)
EXTENDS LanFolders, TLC

CONSTANTS o1, o2, n

(* All folders have one name; they share an entry, and one has another.    *)
MCSameName == [o \in Offers |-> n]
MCContent == [o \in Offers |-> IF o = o1 THEN <<"a", "b">> ELSE <<"b">>]

Symmetry == Permutations(Sends)
=============================================================================

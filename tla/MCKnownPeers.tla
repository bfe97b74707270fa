---------------------------- MODULE MCKnownPeers ----------------------------
(***************************************************************************)
(* Instances of KnownPeers: two machines announce one name, the second     *)
(* without a key at first; there is one key for one of them to change to.  *)
(***************************************************************************)
EXTENDS KnownPeers, TLC

CONSTANTS n, m1, m2, k1, k2

MCFirstKey == m1 :> k1 @@ m2 :> NoKey

MCSameName == [m \in Machines |-> n]
=============================================================================

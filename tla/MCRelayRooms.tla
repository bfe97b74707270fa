---------------------------- MODULE MCRelayRooms ----------------------------
(***************************************************************************)
(* Values for model checking RelayRooms.                                   *)
(***************************************************************************)
EXTENDS RelayRooms, TLC

CONSTANTS c1, c2, c3, home, cafe

(* One connection comes from elsewhere.                                    *)
MCTwoAddrs == [c \in Conns |-> IF c = c3 THEN cafe ELSE home]
=============================================================================

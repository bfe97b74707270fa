------------------------- MODULE LanTransferClaims --------------------------
(***************************************************************************)
(* What the tests and comments say of transfers that the code does not     *)
(* keep.                                                                   *)
(***************************************************************************)
EXTENDS LanTransfer

(* TestApproveAllRequestsAndReceivesAllPendingFilesThroughHandler          *)
(* (queue_commands_test.go:343) says by its title that all pending files   *)
(* are received, and asserts it for two files of two names: a payload that *)
(* was verified and acknowledged is there, whole.  Here two files have one *)
(* name, which the title includes and the test's files do not.             *)
AllReceived ==
  \A s \in Sends : recvAt[s] = "stored" => files[path[s]] = {s}
=============================================================================

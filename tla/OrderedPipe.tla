---------------------------- MODULE OrderedPipe ----------------------------
(***************************************************************************)
(* What a relayed transfer promises its two ends, without handlers, locks, *)
(* chunks or clocks (internal/relay/rendezvous.go): the payload reaches    *)
(* the receiver block after block from its start, the pipe closes once and *)
(* always does, and the sender is told that it ended well only when all of *)
(* it has gone through.                                                    *)
(***************************************************************************)
EXTENDS Naturals, Sequences

CONSTANT Total   \* the declared size, in blocks

VARIABLES
  passed,  \* the blocks handed to the receiver
  closed,  \* the transfer is over
  told     \* what the sender heard about the end

pipeVars == <<passed, closed, told>>

Init == passed = <<>> /\ closed = FALSE /\ told = "nothing"

Pass ==
  /\ Len(passed) < Total
  /\ passed' = Append(passed, Len(passed) + 1)
  /\ UNCHANGED <<closed, told>>

Close == closed' = TRUE /\ UNCHANGED <<passed, told>>

(* The sender's own word that it has sent everything also closes the pipe. *)
TellOk ==
  /\ told = "nothing" /\ Len(passed) = Total
  /\ told' = "ok" /\ closed' = TRUE
  /\ UNCHANGED passed

TellFailed ==
  /\ told = "nothing"
  /\ told' = "failed" /\ closed' = TRUE
  /\ UNCHANGED passed

(* The transfer is forgotten: the sender cannot be told anything any more. *)
TellGone ==
  /\ told = "nothing" /\ closed
  /\ told' = "failed"
  /\ UNCHANGED <<passed, closed>>

Next == Pass \/ Close \/ TellOk \/ TellFailed \/ TellGone

Spec == Init /\ [][Next]_pipeVars

FairSpec == Spec /\ WF_pipeVars(Close)
=============================================================================

---------------------------- MODULE DurableQueue ----------------------------
(***************************************************************************)
(* What the approval queue is to the rest of the program: the offers that  *)
(* wait for an answer, and those a restart would find again.               *)
(***************************************************************************)
CONSTANT Requests

VARIABLES
  pending,  \* the offers that wait for an answer
  kept,     \* those that a restart would bring back
  up        \* the program runs

queueVars == <<pending, kept, up>>

Init == pending = {} /\ kept = {} /\ up = FALSE

(* An offer is queued, on disk too unless the disk failed.                 *)
Add(r) ==
  /\ up /\ r \notin pending
  /\ pending' = pending \cup {r}
  /\ kept' \in {pending', kept}
  /\ UNCHANGED up

(* An offer is answered only together with the file that forgets it.       *)
Remove(r) ==
  /\ up /\ r \in pending
  /\ pending' = pending \ {r} /\ kept' = pending'
  /\ UNCHANGED up

Flush ==
  /\ up
  /\ pending' = {} /\ kept' \in {pending', kept}
  /\ UNCHANGED up

Save == up /\ kept' = pending /\ UNCHANGED <<pending, up>>

(* The file is gone.  Nothing in the program repairs that by itself.       *)
Forget == kept' = {} /\ UNCHANGED <<pending, up>>

Crash == pending' = {} /\ up' = FALSE /\ kept' \in {kept, {}}

Load == ~up /\ up' = TRUE /\ pending' = kept /\ UNCHANGED kept

Next ==
  \/ \E r \in Requests : Add(r) \/ Remove(r)
  \/ Flush \/ Save \/ Forget \/ Crash \/ Load

Spec == Init /\ [][Next]_queueVars
=============================================================================

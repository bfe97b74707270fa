--------------------------- MODULE MCReplayGuard ----------------------------
(***************************************************************************)
(* An instance of ReplayGuard: one sender, whose ten minutes are two ticks *)
(* and whose minute is one.                                                *)
(***************************************************************************)
EXTENDS ReplayGuard, TLC

CONSTANT k1

MCOneSender == [e \in Envelopes |-> k1]

Symmetry == Permutations(Handlers) \cup Permutations(Envelopes)
=============================================================================

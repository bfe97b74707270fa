---------------------------- MODULE MCWebSession ----------------------------
(***************************************************************************)
(* WebSession for model checking: WebSession.cfg gives the bounds, which   *)
(* are numbers.                                                            *)
(***************************************************************************)
EXTENDS WebSession, TLC
=============================================================================

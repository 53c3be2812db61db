------------------------- MODULE MCSessionLifecycle -------------------------
(***************************************************************************)
(* SessionLifecycle for TLC: two turns, two takeovers and a reuse that     *)
(* overlap in every way.                                                   *)
(***************************************************************************)
EXTENDS SessionLifecycle
=============================================================================

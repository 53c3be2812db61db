---------------------------- MODULE MCEventStream ----------------------------
(***************************************************************************)
(* EventStream for TLC: two clients of one session.                        *)
(***************************************************************************)
EXTENDS EventStream
=============================================================================

------------------------- MODULE MCEventStreamMemory -------------------------
(***************************************************************************)
(* EventStreamMemory for TLC: two clients of one session.                  *)
(***************************************************************************)
EXTENDS EventStreamMemory
=============================================================================

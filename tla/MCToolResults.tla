---------------------------- MODULE MCToolResults ----------------------------
(***************************************************************************)
(* ToolResults for TLC: two calls of one round, or of two rounds in which  *)
(* the provider uses an id again.                                          *)
(***************************************************************************)
EXTENDS ToolResults

OneRound == [id |-> <<"a", "b">>, round |-> <<1, 1>>]
ReusedId == [id |-> <<"a", "a">>, round |-> <<1, 2>>]
AllScripts == {OneRound, ReusedId}
AllFaults == {"redis", "listener"}
=============================================================================

----------------------------- MODULE MCTurnState -----------------------------
(***************************************************************************)
(* TurnState for TLC: three submissions with two request ids, so that a    *)
(* retry and a conflicting message race with the turn of the first one.    *)
(***************************************************************************)
EXTENDS TurnState

ResendSet == {"SET"}
ResendBoth == {"SET", "DEL"}
=============================================================================

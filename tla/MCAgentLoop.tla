----------------------------- MODULE MCAgentLoop -----------------------------
(***************************************************************************)
(* AgentLoop for TLC.  A session starts empty, with an answered turn, or   *)
(* with the two calls of a turn that failed after the first result.        *)
(***************************************************************************)
EXTENDS AgentLoop

Earlier(calls) == Message("tool_call", 2, calls, NoCall)
Answered == <<Message("user", 1, <<>>, NoCall), Earlier(<<<<-1, 1>>>>),
              Message("tool_result", 3, <<>>, <<-1, 1>>)>>
Abandoned == <<Message("user", 1, <<>>, NoCall), Earlier(<<<<-1, 1>>, <<-1, 2>>>>),
               Message("tool_result", 3, <<>>, <<-1, 1>>)>>
Histories == {<<>>, Answered, Abandoned}

AllKinds == {"kb", "sdk", "unknown", "escalate"}
SmallAndLarge == {4, 20}
=============================================================================

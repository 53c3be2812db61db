------------------------------ MODULE AgentLoop ------------------------------
(***************************************************************************)
(* One turn of the agent (run_agent_loop in agent/services/orchestrator.py *)
(* under _run_turn in agent/routers/chat_events.py): the messages it       *)
(* stores, the events it sends and the conversation it shows to the model, *)
(* while a human agent may reply to the same session                       *)
(* (post_human_message).                                                   *)
(*                                                                         *)
(* A message is stored in two steps, get_next_sequence and the commit, and *)
(* others may commit in between.  What the model answers, and how a tool   *)
(* call ends (result, timeout, error), is arbitrary.                       *)
(***************************************************************************)
EXTENDS Integers, FiniteSets, Sequences, SequencesExt

CONSTANTS
  Kinds,          \* kinds of tool calls: subset of {"kb", "sdk", "unknown", "escalate"}
  MaxCalls,       \* bound on the tool calls of one answer
  MaxRounds,      \* config.max_tool_rounds
  Windows,        \* values of config.max_context_messages
  History,        \* logs that earlier turns, one at a time, may have left
  Humans,         \* human replies
  MaxFaults       \* bound on exceptions

ASSUME BoundsAssumption ==
  /\ MaxCalls \in Nat /\ MaxRounds \in Nat /\ MaxFaults \in Nat
  /\ Windows \subseteq Nat \ {0}
  /\ Kinds \subseteq {"kb", "sdk", "unknown", "escalate"}

\* Calls are named by round and position; -1 is the round of every earlier turn.
CallIds == Int \X Nat
NoCall == <<>>
Roles == {"none", "user", "assistant", "tool_call", "tool_result", "human_agent"}

\* Messages: who, number, the calls of a tool_call, the call of a tool_result.
Messages == [role : Roles, seq : Nat, calls : Seq(CallIds), call : CallIds \cup {NoCall}]
Message(role, seq, calls, call) == [role |-> role, seq |-> seq, calls |-> calls, call |-> call]

\* A number is one more than one that was taken, so at most the number of
\* messages; only a human's reply can take the number of another message.
ASSUME HistoryAssumption ==
  \A past \in History :
    /\ past \in Seq(Messages)
    /\ \A m \in ToSet(past) :
         /\ m.seq \in 1..Len(past)
         /\ IsInjective(m.calls) /\ \A id \in ToSet(m.calls) : id[1] = -1
    /\ (\A m \in ToSet(past) : m.role # "human_agent") =>
         \A i, j \in DOMAIN past : i < j => past[i].seq < past[j].seq

VARIABLES
  window,         \* config.max_context_messages of this app
  log,            \* the session's messages, in the order of their commits
  pc,             \* what the turn does next
  draft,          \* the message being stored and what follows its commit
  context,        \* the messages loaded for the model
  plan,           \* what is left to do about the model's tool calls
  round,          \* tool_round
  events,         \* the events the turn has sent
  reply,          \* reply[h]: 0, the sequence number it took, or -1 when stored
  faults

vars == <<window, log, pc, draft, context, plan, round, events, reply, faults>>

NoDraft == <<Message("none", 0, <<>>, NoCall), "none">>

Terminal == {"turn_complete", "error", "session_escalated"}

MaxSeq == Max({0} \cup {m.seq : m \in ToSet(log)})

\* The elements of a finite set, in the order that a relation puts them.
InOrder(S, before) ==
  [k \in 1..Cardinality(S) |->
     CHOOSE i \in S : Cardinality({j \in S : <<j, i>> \in before}) = k - 1]

-----------------------------------------------------------------------------
\* load_context_messages: the last messages by sequence number.  The database
\* may return equal numbers in either order.
Before(newestFirst) ==
  {p \in (DOMAIN log) \X (DOMAIN log) :
     \/ log[p[1]].seq < log[p[2]].seq
     \/ log[p[1]].seq = log[p[2]].seq /\ (IF newestFirst THEN p[1] > p[2] ELSE p[1] < p[2])}

LoadContext(newestFirst) ==
  LET order == InOrder(DOMAIN log, Before(newestFirst))
      from  == IF Len(log) > window THEN Len(log) - window + 1 ELSE 1
  IN  [k \in 1..(Len(log) - from + 1) |-> log[order[from + k - 1]]]

\* _append_llm_messages_from_context: a tool_call is shown once all its results
\* follow it, with the results in between; anything else drops it.
NoBlock == [call |-> NoDraft[1], results |-> <<>>]

CloseBlock(out, block) ==
  IF {r.call : r \in ToSet(block.results)} = ToSet(block.call.calls)
  THEN [out |-> out \o <<block.call>> \o block.results, block |-> NoBlock]
  ELSE [out |-> out, block |-> block]

\* defect: an incomplete block is shown when another message follows it.
MutantShow(state, m) ==
  CASE m.role = "tool_call" ->
         [out |-> state.out, block |-> [call |-> m, results |-> <<>>]]
    [] m.role = "tool_result" /\ m.call \in ToSet(state.block.call.calls) ->
         CloseBlock(state.out, [state.block EXCEPT !.results = Append(@, m)])
    [] m.role = "tool_result" /\ m.call \notin ToSet(state.block.call.calls) -> state
    [] OTHER ->
         [out |-> state.out \o (IF state.block = NoBlock THEN <<>> ELSE <<state.block.call>>)
                            \o state.block.results \o <<m>>, block |-> NoBlock]

Show(state, m) ==
  LET block == state.block IN
  CASE m.role = "tool_call" ->
         [out |-> state.out, block |-> [call |-> m, results |-> <<>>]]
    [] m.role = "tool_result" ->
         IF m.call \notin ToSet(block.call.calls) THEN [state EXCEPT !.block = NoBlock]
         ELSE IF m.call \in {r.call : r \in ToSet(block.results)} THEN state
         ELSE CloseBlock(state.out, [block EXCEPT !.results = Append(@, m)])
    [] OTHER -> [out |-> Append(state.out, m), block |-> NoBlock]

Shown(messages) ==
  LET shown[k \in 0..Len(messages)] ==
        IF k = 0 THEN [out |-> <<>>, block |-> NoBlock] ELSE Show(shown[k - 1], messages[k])
  IN  shown[Len(messages)]
Prompt(messages) == Shown(messages).out

-----------------------------------------------------------------------------
Init ==
  /\ window \in Windows
  /\ log \in History
  /\ pc = "start"
  /\ draft = NoDraft
  /\ context = <<>>
  /\ plan = <<>>
  /\ round = 0
  /\ events = <<>>
  /\ reply = [h \in Humans |-> 0]
  /\ faults = 0

GoTo(from, to) ==
  /\ pc = from
  /\ pc' = to

Send(type) == events' = Append(events, type)

\* get_next_sequence for a new message of the turn.
Store(role, calls, call, then) ==
  /\ pc' = "commit"
  /\ draft' = <<Message(role, MaxSeq + 1, calls, call), then>>

Commit ==
  /\ GoTo("commit", draft[2])
  /\ log' = Append(log, draft[1])
  /\ draft' = NoDraft
  /\ UNCHANGED <<window, context, plan, round, events, reply, faults>>

\* _run_turn finds the session, app, configuration or profile gone.
Vanish ==
  /\ GoTo("start", "silent")
  /\ UNCHANGED <<window, log, draft, context, plan, round, events, reply, faults>>

Start ==
  /\ pc = "start"
  /\ Store("user", <<>>, NoCall, "load")
  /\ UNCHANGED <<window, log, context, plan, round, events, reply, faults>>

\* Before the first round the router sees the context, too.
Load ==
  /\ GoTo("load", IF round = 0 THEN "route" ELSE "model")
  /\ \E newestFirst \in BOOLEAN : context' = LoadContext(newestFirst)
  /\ UNCHANGED <<window, log, draft, plan, round, events, reply, faults>>

\* Out of scope in strict mode, the turn ends with a rejection.
Route ==
  /\ \/ /\ GoTo("route", IF round < MaxRounds THEN "model" ELSE "exhausted")
        /\ UNCHANGED draft
     \/ /\ pc = "route"
        /\ Store("assistant", <<>>, NoCall, "completeOnly")
  /\ UNCHANGED <<window, log, context, plan, round, events, reply, faults>>

\* The model's answer: an error ...
ModelFails ==
  /\ GoTo("model", "over")
  /\ Send("error")
  /\ context' = <<>>
  /\ UNCHANGED <<window, log, draft, plan, round, reply, faults>>

\* ... text ...
Answer ==
  /\ pc = "model"
  /\ Store("assistant", <<>>, NoCall, "complete")
  /\ context' = <<>>
  /\ UNCHANGED <<window, log, plan, round, events, reply, faults>>

\* ... nothing ...
AnswerNothing ==
  /\ GoTo("model", "silent")
  /\ context' = <<>>
  /\ UNCHANGED <<window, log, draft, plan, round, events, reply, faults>>

\* ... or tool calls: first the knowledge base's are run, then an escalation
\* ends the turn, or every SDK call is sent and then every one is awaited.
Positions(kinds, set) ==
  InOrder({i \in DOMAIN kinds : kinds[i] \in set}, {p \in (DOMAIN kinds) \X (DOMAIN kinds) : p[1] < p[2]})
Plan(op, positions) == [k \in DOMAIN positions |-> <<op, positions[k]>>]
SendAll(kinds, positions) ==
  [k \in DOMAIN positions |->
     <<IF kinds[positions[k]] = "unknown" THEN "answer" ELSE "send", positions[k]>>]

MutantPlanFor(kinds) ==            \* defect: the last awaited call is skipped
  IF \E i \in DOMAIN kinds : kinds[i] = "escalate"
  THEN Plan("answer", Positions(kinds, {"kb"})) \o <<<<"escalate", Head(Positions(kinds, {"escalate"}))>>>>
  ELSE Plan("answer", Positions(kinds, {"kb"}))
         \o SendAll(kinds, Positions(kinds, {"sdk", "unknown"}))
         \o Plan("answer", Positions([i \in DOMAIN kinds \ {MaxCalls} |-> kinds[i]], {"sdk"}))

PlanFor(kinds) ==
  Plan("answer", Positions(kinds, {"kb"}))
    \o IF \E i \in DOMAIN kinds : kinds[i] = "escalate"
       THEN <<<<"escalate", Head(Positions(kinds, {"escalate"}))>>>>
       ELSE SendAll(kinds, Positions(kinds, {"sdk", "unknown"}))
              \o Plan("answer", Positions(kinds, {"sdk"}))

CallTools ==
  /\ pc = "model"
  /\ \E n \in 1..MaxCalls : \E kinds \in [1..n -> Kinds] :
       /\ Store("tool_call", [i \in 1..n |-> <<round, i>>], NoCall, "tools")
       /\ plan' = PlanFor(kinds)
  /\ context' = <<>>
  /\ UNCHANGED <<window, log, round, events, reply, faults>>

ToolResult(i, then) == Store("tool_result", <<>>, <<round, i>>, then)

\* A result, a timeout, a failed wait, a knowledge base answer, an unknown
\* function: one tool_result each.
AnswerCall ==
  /\ pc = "tools" /\ plan # <<>> /\ Head(plan)[1] = "answer"
  /\ ToolResult(Head(plan)[2], "tools")
  /\ plan' = Tail(plan)
  /\ UNCHANGED <<window, log, context, round, events, reply, faults>>

SendCall ==
  /\ pc = "tools" /\ plan # <<>> /\ Head(plan)[1] = "send"
  /\ Send("tool_call_request")
  /\ plan' = Tail(plan)
  /\ UNCHANGED <<window, log, pc, draft, context, round, reply, faults>>

EscalateCall ==
  /\ pc = "tools" /\ plan # <<>> /\ Head(plan)[1] = "escalate"
  /\ ToolResult(Head(plan)[2], "escalated")
  /\ plan' = Tail(plan)
  /\ UNCHANGED <<window, log, context, round, events, reply, faults>>

NextRound ==
  /\ plan = <<>>
  /\ GoTo("tools", IF round + 1 < MaxRounds THEN "load" ELSE "exhausted")
  /\ round' = round + 1
  /\ UNCHANGED <<window, log, draft, context, plan, events, reply, faults>>

\* The ends: no rounds left, an escalation, a rejection, an answer.
MutantExhausted ==                 \* defect: nobody is told
  /\ GoTo("exhausted", "over")
  /\ UNCHANGED <<window, log, draft, context, plan, round, events, reply, faults>>

Exhausted ==
  /\ GoTo("exhausted", "escalated")
  /\ context' = <<>>
  /\ UNCHANGED <<window, log, draft, plan, round, events, reply, faults>>

Escalated ==
  /\ GoTo("escalated", "over")
  /\ Send("session_escalated")
  /\ UNCHANGED <<window, log, draft, context, plan, round, reply, faults>>

MutantReject ==                    \* defect: a rejection goes on to the model
  /\ GoTo("completeOnly", "model")
  /\ Send("turn_complete")
  /\ UNCHANGED <<window, log, draft, context, plan, round, reply, faults>>

Reject ==
  /\ GoTo("completeOnly", "over")
  /\ Send("turn_complete")
  /\ UNCHANGED <<window, log, draft, context, plan, round, reply, faults>>

Complete ==
  /\ GoTo("complete", "feedback")
  /\ Send("turn_complete")
  /\ UNCHANGED <<window, log, draft, context, plan, round, reply, faults>>

Feedback ==
  /\ GoTo("feedback", "over")
  /\ Send("feedback_requested")
  /\ UNCHANGED <<window, log, draft, context, plan, round, reply, faults>>

\* An exception anywhere is caught by _run_turn; reporting it may fail as well.
Fail ==
  /\ pc \notin {"report", "over", "silent"}
  /\ faults < MaxFaults
  /\ pc' = "report"
  /\ draft' = NoDraft
  /\ context' = <<>>
  /\ plan' = <<>>
  /\ faults' = faults + 1
  /\ UNCHANGED <<window, log, round, events, reply>>

Report ==
  /\ GoTo("report", "over")
  /\ \/ Send("error") /\ UNCHANGED faults
     \/ faults < MaxFaults /\ faults' = faults + 1 /\ UNCHANGED events
  /\ UNCHANGED <<window, log, draft, context, plan, round, reply>>

-----------------------------------------------------------------------------
\* post_human_message, in a session of its own.
HumanNumber(h) ==
  /\ reply[h] = 0
  /\ reply' = [reply EXCEPT ![h] = MaxSeq + 1]
  /\ UNCHANGED <<window, log, pc, draft, context, plan, round, events, faults>>

HumanCommit(h) ==
  /\ reply[h] > 0
  /\ log' = Append(log, Message("human_agent", reply[h], <<>>, NoCall))
  /\ reply' = [reply EXCEPT ![h] = -1]
  /\ UNCHANGED <<window, pc, draft, context, plan, round, events, faults>>

TurnStep ==
  \/ Vanish \/ Start \/ Commit \/ Load \/ Route
  \/ ModelFails \/ Answer \/ AnswerNothing \/ CallTools
  \/ AnswerCall \/ SendCall \/ EscalateCall \/ NextRound
  \/ Exhausted \/ Escalated \/ Reject \/ Complete \/ Feedback \/ Report

Next ==
  \/ TurnStep
  \/ Fail
  \/ \E h \in Humans : HumanNumber(h) \/ HumanCommit(h)

Spec == Init /\ [][Next]_vars

-----------------------------------------------------------------------------
TypeOK ==
  /\ pc \in {"start", "commit", "load", "route", "model", "tools", "exhausted", "escalated",
             "completeOnly", "complete", "feedback", "report", "over", "silent"}
  /\ window \in Windows
  /\ \A m \in ToSet(log) : m.seq \in 1..Len(log)
  /\ Len(context) <= window
  /\ round \in 0..MaxRounds
  /\ ToSet(events) \subseteq Terminal \cup {"tool_call_request", "feedback_requested"}
  /\ reply \in [Humans -> -1..(Len(log) + 1)]
  /\ faults \in 0..MaxFaults

\* The model never sees a tool call without exactly its results right after it,
\* nor a result without its call: providers reject such a conversation.  Holds
\* for every window, interleaved human reply and call an earlier turn abandoned.
WellFormedPrompt ==
  pc = "model" =>
    LET p == Prompt(context)
        Block(k) == {p[j].call : j \in (k + 1)..(k + Len(p[k].calls))}
    IN  /\ \A k \in DOMAIN p : p[k].role = "tool_call" =>
             /\ k + Len(p[k].calls) <= Len(p)
             /\ Block(k) = ToSet(p[k].calls)
        /\ \A j \in DOMAIN p : p[j].role = "tool_result" =>
             \E k \in 1..(j - 1) : p[k].role = "tool_call" /\ p[j].call \in Block(k)
                                   /\ j <= k + Len(p[k].calls)

HumanReplied == \E m \in ToSet(log) : m.role = "human_agent"

\* From the second round on the model sees every call of this turn with its
\* results, or it would ask for the same tools again.  A window too small for the
\* turn, or a human reply among the results, hides them.
PromptShowsResults ==
  pc = "model" /\ Len(log) <= window /\ ~HumanReplied =>
    \A r \in 0..(round - 1) : \E m \in ToSet(Prompt(context)) :
      m.role = "tool_call" /\ m.calls # <<>> /\ \A id \in ToSet(m.calls) : id[1] = r

TerminalEvents == {i \in DOMAIN events : events[i] \in Terminal}

\* A turn in which nothing fails never reports two ends, and sends no tool call
\* after its end.  (An exception after the end, in the feedback step, is reported
\* as an error of the turn.)
OneEnd ==
  faults = 0 =>
    \A i \in TerminalEvents : \A j \in (i + 1)..Len(events) : events[j] = "feedback_requested"

\* A turn that is over has told the client how it ended ("Persist final
\* assistant output and emit `turn_complete`").  Two ends are silent: the model
\* answers nothing, and the session or its app is gone before the loop starts.
EveryTurnReports == pc = "over" /\ faults < 2 => TerminalEvents # {}
=============================================================================

---------------------------- MODULE SessionProofs ----------------------------
(***************************************************************************)
(* Proofs about a session.  SessionLifecycle, for any number of turns,     *)
(* takeovers and reuses: what becomes of its status.  AgentLoop, for every *)
(* number of rounds, calls, replies and exceptions, every window and every *)
(* log that earlier turns have left: what the client is told of a turn,    *)
(* and what its agent is shown of the session.                             *)
(***************************************************************************)
EXTENDS AgentLoop, SessionLifecycle, SequenceTheorems, FiniteSetTheorems, TLAPS

-----------------------------------------------------------------------------
(* The status of the session. *)

\* Every reachable session is well typed.
THEOREM LifecycleTyped == LifecycleSpec => []LifecycleTypeOK
<1>1. LifecycleInit => LifecycleTypeOK
  <2> SUFFICES ASSUME LifecycleInit PROVE LifecycleTypeOK
    OBVIOUS
  <2>1. stale \in BOOLEAN
    BY DEF LifecycleInit
  <2> QED
    BY <2>1, Zenon DEF LifecycleInit, LifecycleTypeOK, Statuses
<1>2. LifecycleTypeOK /\ [LifecycleNext]_lifecycle => LifecycleTypeOK'
  <2> SUFFICES ASSUME LifecycleTypeOK, [LifecycleNext]_lifecycle PROVE LifecycleTypeOK'
    OBVIOUS
  <2> USE DEF LifecycleTypeOK, Statuses, session
  <2>1. ASSUME NEW t \in Turns, Accept(t) \/ BeginTurn(t) \/ EndTurn(t) \/ EscalateTurn(t)
        PROVE  LifecycleTypeOK'
    BY <2>1 DEF Accept, BeginTurn, EndTurn, EscalateTurn
  <2>2. ASSUME NEW d \in Takeovers, CheckTakeover(d) \/ TakeOver(d)
        PROVE  LifecycleTypeOK'
    BY <2>2 DEF CheckTakeover, TakeOver
  <2>3. ASSUME NEW u \in Reuses, FindReusable(u) \/ Reuse(u)
        PROVE  LifecycleTypeOK'
    BY <2>3 DEF FindReusable, Reuse
  <2>4. CASE PatchContext \/ GrowStale \/ Expire \/ Resolve
    BY <2>4 DEF PatchContext, GrowStale, Expire, Resolve
  <2>5. CASE UNCHANGED lifecycle
    BY <2>5 DEF lifecycle
  <2> QED
    BY <2>1, <2>2, <2>3, <2>4, <2>5 DEF LifecycleNext
<1> QED
  BY <1>1, <1>2, PTL DEF LifecycleSpec

\* A session that has been resolved, by a human or by expiring, is never active
\* again, whatever turns, takeovers and reuses are under way.
THEOREM ResolvedIsNeverActive == LifecycleSpec => []ActiveIsUnresolved
<1>1. LifecycleInit => ActiveIsUnresolved
  BY DEF LifecycleInit, ActiveIsUnresolved
<1>2. ActiveIsUnresolved /\ [LifecycleNext]_lifecycle => ActiveIsUnresolved'
  <2> SUFFICES ASSUME ActiveIsUnresolved, [LifecycleNext]_lifecycle PROVE ActiveIsUnresolved'
    OBVIOUS
  <2> USE DEF ActiveIsUnresolved, session
  <2>1. ASSUME NEW t \in Turns, Accept(t) \/ BeginTurn(t) \/ EndTurn(t) \/ EscalateTurn(t)
        PROVE  ActiveIsUnresolved'
    BY <2>1 DEF Accept, BeginTurn, EndTurn, EscalateTurn
  <2>2. ASSUME NEW d \in Takeovers, CheckTakeover(d) \/ TakeOver(d)
        PROVE  ActiveIsUnresolved'
    BY <2>2 DEF CheckTakeover, TakeOver
  <2>3. ASSUME NEW u \in Reuses, FindReusable(u) \/ Reuse(u)
        PROVE  ActiveIsUnresolved'
    BY <2>3 DEF FindReusable, Reuse
  <2>4. CASE PatchContext \/ GrowStale \/ Expire \/ Resolve
    BY <2>4 DEF PatchContext, GrowStale, Expire, Resolve
  <2>5. CASE UNCHANGED lifecycle
    BY <2>5 DEF lifecycle
  <2> QED
    BY <2>1, <2>2, <2>3, <2>4, <2>5 DEF LifecycleNext
<1> QED
  BY <1>1, <1>2, PTL DEF LifecycleSpec

\* No step opens a closed session, or starts what could open it later.
LEMMA ClosedStep ==
  ASSUME LifecycleTypeOK, [LifecycleNext]_lifecycle, status = "closed", ~EscalationInFlight
  PROVE  status' = "closed" /\ ~EscalationInFlight'
<1> USE DEF LifecycleTypeOK, EscalationInFlight, session
<1>1. ASSUME NEW t \in Turns, Accept(t) \/ BeginTurn(t) \/ EndTurn(t) \/ EscalateTurn(t)
      PROVE  FALSE
  BY <1>1 DEF Accept, BeginTurn, EndTurn, EscalateTurn, Usable
<1>2. ASSUME NEW d \in Takeovers, CheckTakeover(d) \/ TakeOver(d)
      PROVE  FALSE
  BY <1>2 DEF CheckTakeover, TakeOver
<1>3. ASSUME NEW u \in Reuses, FindReusable(u) \/ Reuse(u)
      PROVE  status' = "closed" /\ ~EscalationInFlight'
  BY <1>3 DEF FindReusable, Reuse
<1>4. CASE PatchContext \/ GrowStale \/ Expire \/ Resolve
  BY <1>4 DEF PatchContext, GrowStale, Expire, Resolve
<1>5. CASE UNCHANGED lifecycle
  BY <1>5 DEF lifecycle
<1> QED
  BY <1>1, <1>2, <1>3, <1>4, <1>5 DEF LifecycleNext

\* A session closed while no escalation is under way is closed for good.
THEOREM ClosedForGood == LifecycleSpec => ClosedIsFinal
<1>1. LifecycleTypeOK /\ [LifecycleNext]_lifecycle =>
        [status = "closed" /\ ~EscalationInFlight => status' = "closed" /\ ~EscalationInFlight']_lifecycle
  BY ClosedStep
<1> QED
  BY <1>1, LifecycleTyped, PTL DEF LifecycleSpec, ClosedIsFinal

-----------------------------------------------------------------------------
(* A turn of its agent. *)

\* Where a turn may go after the commit of a message.
AfterCommit == {"load", "tools", "escalated", "completeOnly", "complete"}

\* Before its end: nothing of it was reported yet.
Unfinished == {"start", "commit", "load", "route", "model", "tools", "exhausted", "escalated",
               "completeOnly", "complete", "silent"}

\* What a turn sends.
Event == Terminal \union {"tool_call_request", "feedback_requested"}

EndInv ==
  /\ events \in Seq(Event)
  /\ faults \in Nat
  /\ pc \in Unfinished \union {"feedback", "report", "over"}
  /\ pc = "commit" => draft[2] \in AfterCommit
  /\ pc = "report" => faults > 0
  /\ pc = "feedback" => TerminalEvents # {}
  /\ faults = 0 /\ pc \in Unfinished => TerminalEvents = {}
  /\ OneEnd
  /\ EveryTurnReports

\* An event after the others: what ended before has ended, and the event may be an end.
LEMMA SendAppends ==
  ASSUME NEW type \in Event, events \in Seq(Event), Send(type)
  PROVE  /\ events' \in Seq(Event)
         /\ Len(events') = Len(events) + 1
         /\ \A i \in 1..Len(events) : events'[i] = events[i]
         /\ events'[Len(events) + 1] = type
         /\ TerminalEvents' = TerminalEvents \union
              (IF type \in Terminal THEN {Len(events) + 1} ELSE {})
<1>1. /\ events' \in Seq(Event)
      /\ Len(events') = Len(events) + 1
      /\ \A i \in 1..Len(events) : events'[i] = events[i]
      /\ events'[Len(events) + 1] = type
  BY AppendProperties DEF Send
<1>2. DOMAIN events = 1..Len(events) /\ DOMAIN events' = 1..(Len(events) + 1)
  BY <1>1
<1>3. ASSUME NEW i \in Int
      PROVE  i \in TerminalEvents' <=>
               i \in TerminalEvents \/ (i = Len(events) + 1 /\ type \in Terminal)
  BY <1>1, <1>2 DEF TerminalEvents, Terminal
<1>4. TerminalEvents \subseteq Int /\ TerminalEvents' \subseteq Int
  BY <1>2 DEF TerminalEvents
<1>5. Len(events) + 1 \in Int
  OBVIOUS
<1>6. CASE type \in Terminal
  BY <1>1, <1>3, <1>4, <1>5, <1>6
<1>7. CASE type \notin Terminal
  BY <1>1, <1>3, <1>4, <1>5, <1>7
<1>8. QED
  BY <1>1, <1>6, <1>7

\* An event that is no end leaves the ends as they are.
LEMMA SendQuietly ==
  ASSUME NEW type \in Event \ Terminal, events \in Seq(Event), Send(type)
  PROVE  TerminalEvents' = TerminalEvents
<1>1. TerminalEvents' = TerminalEvents \union {}
  BY SendAppends
<1>2. QED
  BY <1>1

\* A turn that has not ended ends with an event.
LEMMA EndsOnce ==
  ASSUME EndInv, NEW type \in Terminal, Send(type), pc \in Unfinished, faults' = faults
  PROVE  events' \in Seq(Event) /\ OneEnd' /\ TerminalEvents' # {}
<1>1. type \in Event
  BY DEF Event
<1>2. /\ events' \in Seq(Event)
      /\ Len(events') = Len(events) + 1
      /\ TerminalEvents' = TerminalEvents \union {Len(events) + 1}
  BY <1>1, SendAppends DEF EndInv
<1>3. faults = 0 => TerminalEvents' = {Len(events')}
  BY <1>2 DEF EndInv
<1>4. OneEnd'
  BY <1>2, <1>3 DEF OneEnd
<1>5. QED
  BY <1>2, <1>4

\* Every step of the turn, and of the humans beside it.
LEMMA EndStep ==
  ASSUME EndInv, [Next]_vars
  PROVE  EndInv'
<1>1. ASSUME UNCHANGED <<events, faults>>,
             pc' \in Unfinished \union {"feedback", "report", "over"},
             pc' = "commit" => draft'[2] \in AfterCommit,
             pc' = "report" => pc = "report",
             pc' = "feedback" => pc = "feedback",
             faults = 0 /\ pc' \in Unfinished => pc \in Unfinished,
             pc' = "over" => pc \in {"feedback", "over"}
      PROVE  EndInv'
  <2>1. TerminalEvents' = TerminalEvents /\ OneEnd'
    BY <1>1 DEF EndInv, OneEnd, TerminalEvents
  <2>2. EveryTurnReports'
    BY <1>1, <2>1 DEF EndInv, EveryTurnReports
  <2>3. QED
    BY <1>1, <2>1, <2>2 DEF EndInv
<1>2. CASE \/ Start \/ Commit \/ Load \/ Route \/ Answer \/ CallTools \/ AnswerCall
           \/ EscalateCall \/ NextRound \/ Exhausted \/ Vanish \/ AnswerNothing
  <2>1. pc \in Unfinished
    BY <1>2 DEF Start, Commit, Load, Route, Answer, CallTools, AnswerCall, EscalateCall, NextRound,
                Exhausted, Vanish, AnswerNothing, GoTo, Unfinished
  <2>2. UNCHANGED <<events, faults>>
    BY <1>2 DEF Start, Commit, Load, Route, Answer, CallTools, AnswerCall, EscalateCall, NextRound,
                Exhausted, Vanish, AnswerNothing
  <2>3. pc' \in Unfinished /\ (pc' = "commit" => draft'[2] \in AfterCommit)
    <3>1. CASE Commit
      BY <3>1 DEF Commit, GoTo, EndInv, AfterCommit, Unfinished
    <3>2. CASE Start \/ Answer \/ AnswerCall \/ EscalateCall \/ CallTools
      <4>1. \E role, calls, call : \E then \in AfterCommit : Store(role, calls, call, then)
        BY <3>2 DEF Start, Answer, AnswerCall, EscalateCall, CallTools, ToolResult, AfterCommit
      <4>2. QED
        BY <4>1 DEF Store, Unfinished
    <3>3. CASE Route
      BY <3>3 DEF Route, GoTo, Store, AfterCommit, Unfinished
    <3>4. CASE Load \/ NextRound \/ Exhausted \/ Vanish \/ AnswerNothing
      BY <3>4 DEF Load, NextRound, Exhausted, Vanish, AnswerNothing, GoTo, Unfinished
    <3>5. QED
      BY <1>2, <3>1, <3>2, <3>3, <3>4
  <2>4. pc' \notin {"report", "feedback", "over"}
    BY <2>3 DEF Unfinished
  <2>5. QED
    BY <1>1, <2>1, <2>2, <2>3, <2>4
<1>3. CASE ModelFails \/ Escalated \/ Reject \/ Complete
  <2>1. /\ pc \in Unfinished
        /\ pc' \in {"over", "feedback"}
        /\ faults' = faults
        /\ \E type \in Terminal : Send(type)
    BY <1>3 DEF ModelFails, Escalated, Reject, Complete, GoTo, Unfinished, Terminal
  <2>2. events' \in Seq(Event) /\ OneEnd' /\ TerminalEvents' # {}
    BY <2>1, EndsOnce
  <2>3. QED
    BY <2>1, <2>2 DEF EndInv, EveryTurnReports, Unfinished
<1>4. CASE SendCall
  <2>1. pc = "tools" /\ pc' = "tools" /\ faults' = faults /\ Send("tool_call_request")
    BY <1>4 DEF SendCall
  <2>2. events' \in Seq(Event) /\ TerminalEvents' = TerminalEvents
    <3>1. "tool_call_request" \in Event \ Terminal
      BY DEF Event, Terminal
    <3>2. QED
      BY <2>1, <3>1, SendAppends, SendQuietly DEF EndInv
  <2>3. OneEnd'
    BY <2>1, <2>2 DEF OneEnd, EndInv, Unfinished
  <2>4. QED
    BY <2>1, <2>2, <2>3 DEF EndInv, EveryTurnReports, Unfinished
<1>5. CASE Feedback
  <2>1. pc = "feedback" /\ pc' = "over" /\ faults' = faults /\ Send("feedback_requested")
    BY <1>5 DEF Feedback, GoTo
  <2>2. /\ events' \in Seq(Event) /\ TerminalEvents' = TerminalEvents
        /\ Len(events') = Len(events) + 1
        /\ \A i \in 1..Len(events) : events'[i] = events[i]
        /\ events'[Len(events) + 1] = "feedback_requested"
    <3>1. "feedback_requested" \in Event \ Terminal
      BY DEF Event, Terminal
    <3>2. QED
      BY <2>1, <3>1, SendAppends, SendQuietly DEF EndInv
  <2>3. OneEnd'
    BY <2>1, <2>2 DEF OneEnd, EndInv, TerminalEvents
  <2>4. QED
    BY <2>1, <2>2, <2>3 DEF EndInv, EveryTurnReports, Unfinished
<1>6. CASE Fail
  <2>1. pc' = "report" /\ faults' = faults + 1 /\ events' = events
    BY <1>6 DEF Fail
  <2>2. QED
    BY <2>1 DEF EndInv, OneEnd, EveryTurnReports, Unfinished
<1>7. CASE Report
  <2>1. pc = "report" /\ pc' = "over" /\ faults > 0
    BY <1>7 DEF Report, GoTo, EndInv
  <2>2. CASE Send("error") /\ UNCHANGED faults
    <3>1. events' \in Seq(Event) /\ TerminalEvents' = TerminalEvents \union {Len(events) + 1}
      <4>1. "error" \in Event /\ "error" \in Terminal
        BY DEF Event, Terminal
      <4>2. QED
        BY <2>2, <4>1, SendAppends DEF EndInv
    <3>2. QED
      BY <2>1, <2>2, <3>1 DEF EndInv, OneEnd, EveryTurnReports, Unfinished
  <2>3. CASE faults' = faults + 1 /\ UNCHANGED events
    BY <2>1, <2>3 DEF EndInv, OneEnd, EveryTurnReports, Unfinished
  <2>4. QED
    BY <1>7, <2>2, <2>3 DEF Report
<1>8. CASE (\E h \in Humans : HumanNumber(h) \/ HumanCommit(h)) \/ UNCHANGED vars
  <2>1. UNCHANGED <<pc, draft, events, faults>>
    BY <1>8 DEF HumanNumber, HumanCommit, vars
  <2>2. TerminalEvents' = TerminalEvents
    BY <2>1 DEF TerminalEvents
  <2>3. QED
    BY <2>1, <2>2 DEF EndInv, OneEnd, EveryTurnReports
<1>9. QED
  BY <1>2, <1>3, <1>4, <1>5, <1>6, <1>7, <1>8 DEF Next, TurnStep

\* The turn, its failures and its events keep EndInv.
LEMMA EndInvariant == Spec => []EndInv
<1>1. Init => EndInv
  BY DEF Init, EndInv, Unfinished, OneEnd, EveryTurnReports, TerminalEvents
<1>2. EndInv /\ [Next]_vars => EndInv'
  BY EndStep
<1>3. QED
  BY <1>1, <1>2, PTL DEF Spec

\* A turn in which nothing fails reports at most one end and sends no tool call
\* after it, whatever the router, the model and the tools answer.
THEOREM EndsOnlyOnce == Spec => []OneEnd
<1>1. EndInv => OneEnd
  BY DEF EndInv
<1>2. QED
  BY <1>1, EndInvariant, PTL

\* A turn that is over has told its client how it ended, unless reporting a
\* failure failed as well.
THEOREM TurnsReport == Spec => []EveryTurnReports
<1>1. EndInv => EveryTurnReports
  BY DEF EndInv
<1>2. QED
  BY <1>1, EndInvariant, PTL

-----------------------------------------------------------------------------
(* What its agent is shown. *)

\* Induction over the numbers, with a set for the property.
LEMMA Upwards ==
  ASSUME NEW P, 0 \in P, \A n \in Nat : n \in P => n + 1 \in P
  PROVE  Nat \subseteq P
<1>1. SUFFICES ASSUME Nat \ P # {} PROVE FALSE
  OBVIOUS
<1>2. PICK n \in Nat \ P : \A k \in Nat \ P : <<k, n>> \notin OpToRel(<, Nat)
  <2>1. PICK T : T = Nat \ P
    OBVIOUS
  <2>2. T \subseteq Nat /\ T # {}
    BY <1>1, <2>1
  <2>3. \E n \in T : \A k \in T : <<k, n>> \notin OpToRel(<, Nat)
    BY ONLY <2>2, WFMin, NatLessThanWellFounded
  <2>4. QED
    BY <2>1, <2>3
<1>3. n - 1 \in Nat
  <2>1. n # 0 /\ n \in Nat
    BY <1>2
  <2>2. QED
    BY <2>1
<1>4. <<n - 1, n>> \in OpToRel(<, Nat)
  BY <1>3 DEF OpToRel
<1>5. n - 1 \in P
  BY <1>2, <1>3, <1>4
<1>6. n \in P
  BY <1>3, <1>5
<1>7. QED
  BY <1>2, <1>6

\* The order of InOrder is the relation's: every element has its own place.
LEMMA InOrderPlaces ==
  ASSUME NEW S, IsFiniteSet(S), NEW before,
         \A i, j \in S : i # j => <<i, j>> \in before \/ <<j, i>> \in before,
         \A i, j \in S : ~(<<i, j>> \in before /\ <<j, i>> \in before),
         \A i, j, k \in S : <<i, j>> \in before /\ <<j, k>> \in before => <<i, k>> \in before
  PROVE  /\ Cardinality(S) \in Nat
         /\ InOrder(S, before) \in [1..Cardinality(S) -> S]
         /\ \A i \in S : \E k \in 1..Cardinality(S) : InOrder(S, before)[k] = i
         /\ \A k \in 1..Cardinality(S) :
              Cardinality({j \in S : <<j, InOrder(S, before)[k]>> \in before}) = k - 1
<1> DEFINE n == Cardinality(S)
           Earlier(i) == {j \in S : <<j, i>> \in before}
           rank == [i \in S |-> Cardinality(Earlier(i)) + 1]
<1>1. n \in Nat
  BY FS_CardinalityType
<1>2. ASSUME NEW i \in S
      PROVE  rank[i] \in 1..n /\ Cardinality(Earlier(i)) \in Nat /\ IsFiniteSet(Earlier(i))
  <2>1. Earlier(i) \subseteq S \ {i}
    OBVIOUS
  <2>2. IsFiniteSet(S \ {i}) /\ Cardinality(S \ {i}) = n - 1
    BY FS_RemoveElement
  <2>3. IsFiniteSet(Earlier(i)) /\ Cardinality(Earlier(i)) <= n - 1
    <3>1. PICK T : T = Earlier(i)
      OBVIOUS
    <3>2. T \in SUBSET (S \ {i})
      BY <2>1, <3>1
    <3>3. IsFiniteSet(T) /\ Cardinality(T) <= n - 1
      BY <2>2, <3>2, FS_Subset
    <3>4. QED
      BY <3>1, <3>3
  <2>4. Cardinality(Earlier(i)) \in Nat
    BY <2>3, FS_CardinalityType
  <2>5. QED
    BY <1>1, <2>3, <2>4
<1>3. ASSUME NEW i \in S, NEW j \in S, <<i, j>> \in before
      PROVE  rank[i] < rank[j]
  <2>1. Earlier(i) \subseteq Earlier(j) /\ i \in Earlier(j) /\ i \notin Earlier(i)
    BY <1>3
  <2>2. Cardinality(Earlier(i)) <= Cardinality(Earlier(j))
        /\ Cardinality(Earlier(i)) # Cardinality(Earlier(j))
    BY <1>2, <2>1, FS_Subset
  <2>3. QED
    BY <1>2, <2>2
<1>4. rank \in Injection(S, 1..n)
  <2>1. rank \in [S -> 1..n]
    BY <1>2
  <2>2. ASSUME NEW i \in S, NEW j \in S, rank[i] = rank[j] PROVE i = j
    <3>1. rank[i] \in Int /\ rank[j] \in Int
      BY <1>2
    <3>2. ~(<<i, j>> \in before) /\ ~(<<j, i>> \in before)
      BY <1>3, <2>2, <3>1
    <3>3. QED
      BY <3>2
  <2>3. IsInjective(rank)
    BY <2>1, <2>2 DEF IsInjective
  <2>4. QED
    BY <2>1, <2>3 DEF Injection
<1>5. IsFiniteSet(1..n) /\ Cardinality(1..n) = n
  BY <1>1, FS_Interval
<1>6. rank \in Surjection(S, 1..n)
  BY <1>4, <1>5, FS_Injection
<1>7. \A k \in 1..n : \E i \in S : rank[i] = k
  BY <1>6 DEF Surjection
<1>8. ASSUME NEW k \in 1..n
      PROVE  InOrder(S, before)[k] \in S /\ rank[InOrder(S, before)[k]] = k
  <2>1. PICK i \in S : rank[i] = k
    BY <1>7
  <2>2. Cardinality(Earlier(i)) = k - 1
    BY <1>1, <1>2, <2>1
  <2>3. PICK x : x = InOrder(S, before)[k]
    OBVIOUS
  <2>4. x = CHOOSE y \in S : Cardinality(Earlier(y)) = k - 1
    BY <2>3 DEF InOrder
  <2>5. x \in S /\ Cardinality(Earlier(x)) = k - 1
    <3> HIDE DEF Earlier, n, rank
    <3>1. \E y \in S : Cardinality(Earlier(y)) = k - 1
      BY <2>2
    <3>2. QED
      BY <2>4, <3>1, Zenon
  <2>6. rank[x] = (k - 1) + 1 /\ k \in Int
    BY <1>1, <2>5
  <2>7. QED
    BY <2>3, <2>5, <2>6
<1>9. ASSUME NEW i \in S PROVE InOrder(S, before)[rank[i]] = i
  <2>1. rank[i] \in 1..n
    BY <1>2
  <2>2. InOrder(S, before)[rank[i]] \in S /\ rank[InOrder(S, before)[rank[i]]] = rank[i]
    BY <1>8, <2>1
  <2>3. QED
    BY <1>4, <2>2 DEF Injection, IsInjective
<1>10. ASSUME NEW k \in 1..n
       PROVE  Cardinality(Earlier(InOrder(S, before)[k])) = k - 1
  <2>1. PICK x : x = InOrder(S, before)[k]
    OBVIOUS
  <2>2. x \in S /\ rank[x] = k
    BY <1>8, <2>1
  <2>3. Cardinality(Earlier(x)) \in Nat /\ rank[x] = Cardinality(Earlier(x)) + 1
    BY <1>2, <2>2
  <2>4. Cardinality(Earlier(x)) = k - 1
    BY <1>1, <2>2, <2>3
  <2>5. QED
    BY <2>1, <2>4
<1>11. QED
  BY <1>1, <1>2, <1>8, <1>9, <1>10 DEF InOrder

\* Two lists of the same calls without repetitions are equally long.
LEMMA SameLength ==
  ASSUME NEW S, NEW s \in Seq(S), NEW t \in Seq(S), IsInjective(s), IsInjective(t), ToSet(s) = ToSet(t)
  PROVE  Len(s) = Len(t)
<1>1. ASSUME NEW u \in Seq(S), IsInjective(u) PROVE Cardinality(ToSet(u)) = Len(u)
  <2>1. u \in Bijection(1..Len(u), ToSet(u))
    BY <1>1 DEF ToSet, Bijection, Injection, Surjection
  <2>2. ExistsBijection(1..Len(u), ToSet(u))
    BY <2>1 DEF ExistsBijection
  <2>3. QED
    BY <2>2, FS_CountingElements
<1>2. QED
  BY <1>1

Good == {m \in Messages : IsInjective(m.calls)}

\* The steps of Shown.
Start0 == [out |-> <<>>, block |-> NoBlock]
Steps(s) ==
  CHOOSE shown : shown = [k \in 0..Len(s) |-> IF k = 0 THEN Start0 ELSE Show(shown[k - 1], s[k])]

\* Shown is the last of its steps: each step is Show of the one before it.
LEMMA ShownSteps ==
  ASSUME NEW s, Len(s) \in Nat
  PROVE  /\ Shown(s) = Steps(s)[Len(s)]
         /\ Steps(s)[0] = Start0
         /\ \A k \in 1..Len(s) : Steps(s)[k] = Show(Steps(s)[k - 1], s[k])
<1> DEFINE Next1(f, k) == IF k = 0 THEN Start0 ELSE Show(f[k - 1], s[k])
           Good1(f, n) == f = [k \in 0..n |-> Next1(f, k)]
           P == {n \in Nat : \E f : Good1(f, n)}
<1>1. 0 \in P
  <2>1. [k \in 0..0 |-> Start0] = [k \in 0..0 |-> Next1([j \in 0..0 |-> Start0], k)]
    OBVIOUS
  <2>2. QED
    BY <2>1
<1>2. ASSUME NEW n \in Nat, n \in P PROVE n + 1 \in P
  <2>1. PICK f : Good1(f, n)
    BY <1>2
  <2>2. PICK x : x = Next1(f, n + 1)
    OBVIOUS
  <2> DEFINE g == [k \in 0..(n + 1) |-> IF k = n + 1 THEN x ELSE f[k]]
  <2>3. ASSUME NEW k \in 0..(n + 1) PROVE Next1(g, k) = g[k]
    <3>1. CASE k = n + 1
      <4>1. n + 1 # 0 /\ g[n] = f[n] /\ (n + 1) - 1 = n
        OBVIOUS
      <4>2. Next1(g, n + 1) = Next1(f, n + 1)
        BY <4>1
      <4>3. QED
        BY <2>2, <3>1, <4>2
    <3>2. CASE k # n + 1
      <4>1. k \in 0..n
        BY <3>2
      <4>2. Next1(g, k) = Next1(f, k)
        <5>1. CASE k = 0
          BY <5>1
        <5>2. CASE k # 0
          <6>1. g[k - 1] = f[k - 1]
            BY <4>1, <5>2
          <6>2. QED
            BY <5>2, <6>1
        <5>3. QED
          BY <5>1, <5>2
      <4>3. f[k] = Next1(f, k)
        BY <2>1, <4>1
      <4>4. QED
        BY <3>2, <4>2, <4>3
    <3>3. QED
      BY <3>1, <3>2
  <2>4. Good1(g, n + 1)
    <3> HIDE DEF Next1
    <3>1. [k \in 0..(n + 1) |-> Next1(g, k)] = [k \in 0..(n + 1) |-> g[k]]
      BY <2>3
    <3>2. QED
      BY <3>1
  <2>5. (\E h : Good1(h, n + 1)) /\ n + 1 \in Nat
    <3> HIDE DEF Good1
    <3> QED
      BY <2>4
  <2>6. QED
    BY <2>5
<1>3. Nat \subseteq P
  <2> HIDE DEF P
  <2> QED
    BY <1>1, <1>2, Upwards
<1>4. \E h : Good1(h, Len(s))
  BY <1>3
<1>5. Good1(Steps(s), Len(s))
  BY <1>4 DEF Steps
<1>6. Shown(s) = Steps(s)[Len(s)]
  BY DEF Shown, Steps, Start0
<1>7. QED
  BY <1>5, <1>6

\* Showing one message more is one more step of Show.
LEMMA ShownAppend ==
  ASSUME NEW S, NEW s \in Seq(S), NEW m \in S
  PROVE  Shown(Append(s, m)) = Show(Shown(s), m)
<1> DEFINE t == Append(s, m)
<1>1. /\ Len(t) = Len(s) + 1 /\ Len(s) \in Nat
      /\ \A k \in 1..Len(s) : t[k] = s[k]
      /\ t[Len(s) + 1] = m
  BY AppendProperties
<1> HIDE DEF t
<1> DEFINE P == {n \in Nat : n <= Len(s) => Steps(t)[n] = Steps(s)[n]}
<1>2. 0 \in P
  BY <1>1, ShownSteps
<1>3. ASSUME NEW n \in Nat, n \in P PROVE n + 1 \in P
  <2>1. SUFFICES ASSUME n + 1 <= Len(s) PROVE Steps(t)[n + 1] = Steps(s)[n + 1]
    OBVIOUS
  <2>2. n + 1 \in 1..Len(s) /\ n + 1 \in 1..Len(t) /\ (n + 1) - 1 = n
    BY <1>1, <2>1
  <2>3. Steps(t)[n + 1] = Show(Steps(t)[n], t[n + 1]) /\ Steps(s)[n + 1] = Show(Steps(s)[n], s[n + 1])
    <3>1. PICK k : k = n + 1
      OBVIOUS
    <3>2. k \in 1..Len(s) /\ k \in 1..Len(t) /\ k - 1 = n /\ Len(s) \in Nat /\ Len(t) \in Nat
      BY <1>1, <2>2, <3>1
    <3>3. Steps(t)[k] = Show(Steps(t)[k - 1], t[k]) /\ Steps(s)[k] = Show(Steps(s)[k - 1], s[k])
      BY <3>2, ShownSteps
    <3>4. QED
      BY <3>1, <3>2, <3>3
  <2>4. Steps(t)[n] = Steps(s)[n] /\ t[n + 1] = s[n + 1]
    BY <1>1, <1>3, <2>1, <2>2
  <2>5. QED
    BY <2>3, <2>4
<1>4. Nat \subseteq P
  <2> HIDE DEF P
  <2> QED
    BY <1>2, <1>3, Upwards
<1>5. Steps(t)[Len(s)] = Steps(s)[Len(s)]
  BY <1>1, <1>4
<1>6. Shown(t) = Show(Steps(t)[Len(s)], m)
  <2>1. Len(t) \in Nat /\ Len(t) \in 1..Len(t) /\ Len(t) - 1 = Len(s) /\ t[Len(t)] = m
    BY <1>1
  <2>2. Shown(t) = Steps(t)[Len(t)] /\ Steps(t)[Len(t)] = Show(Steps(t)[Len(t) - 1], t[Len(t)])
    BY <2>1, ShownSteps
  <2>3. QED
    BY <2>1, <2>2
<1>7. Shown(s) = Steps(s)[Len(s)]
  BY <1>1, ShownSteps
<1>8. QED
  BY <1>5, <1>6, <1>7 DEF t

-----------------------------------------------------------------------------
\* The calls of the messages that follow the tool_call at k.
Block(p, k) == {p[j].call : j \in (k + 1)..(k + Len(p[k].calls))}

WellFormed(p) ==
  /\ \A k \in DOMAIN p : p[k].role = "tool_call" =>
       /\ k + Len(p[k].calls) <= Len(p)
       /\ Block(p, k) = ToSet(p[k].calls)
  /\ \A j \in DOMAIN p : p[j].role = "tool_result" =>
       \E k \in 1..(j - 1) : p[k].role = "tool_call" /\ p[j].call \in Block(p, k)
                             /\ j <= k + Len(p[k].calls)

\* A longer conversation keeps the blocks of a shorter one.
LEMMA BlocksStay ==
  ASSUME NEW p \in Seq(Good), NEW q \in Seq(Good), Len(p) <= Len(q),
         \A i \in 1..Len(p) : q[i] = p[i],
         WellFormed(p)
  PROVE  /\ \A k \in 1..Len(p) : p[k].role = "tool_call" =>
              /\ k + Len(q[k].calls) <= Len(p)
              /\ Block(q, k) = ToSet(q[k].calls)
         /\ \A j \in 1..Len(p) : p[j].role = "tool_result" =>
              \E k \in 1..(j - 1) : q[k].role = "tool_call" /\ q[j].call \in Block(q, k)
                                    /\ j <= k + Len(q[k].calls)
<1>1. DOMAIN p = 1..Len(p) /\ Len(p) \in Nat
  OBVIOUS
<1>2. \A k \in 1..Len(p) : Len(p[k].calls) \in Nat
  BY DEF Good, Messages
<1>3. ASSUME NEW k \in 1..Len(p), p[k].role = "tool_call"
      PROVE  /\ k + Len(q[k].calls) <= Len(p)
             /\ Block(q, k) = ToSet(q[k].calls)
             /\ Block(q, k) = Block(p, k)
  <2>1. q[k] = p[k] /\ k + Len(p[k].calls) <= Len(p) /\ Block(p, k) = ToSet(p[k].calls)
    BY <1>1, <1>3 DEF WellFormed
  <2>2. \A j \in (k + 1)..(k + Len(p[k].calls)) : q[j] = p[j]
    BY <1>2, <2>1
  <2>3. Block(q, k) = Block(p, k)
    BY <2>1, <2>2 DEF Block
  <2>4. QED
    BY <2>1, <2>3
<1>4. ASSUME NEW j \in 1..Len(p), p[j].role = "tool_result"
      PROVE  \E k \in 1..(j - 1) : q[k].role = "tool_call" /\ q[j].call \in Block(q, k)
                                   /\ j <= k + Len(q[k].calls)
  <2>1. PICK k \in 1..(j - 1) : p[k].role = "tool_call" /\ p[j].call \in Block(p, k)
                                /\ j <= k + Len(p[k].calls)
    BY <1>1, <1>4 DEF WellFormed
  <2>2. k \in 1..Len(p)
    BY <1>1
  <2>3. q[k] = p[k] /\ q[j] = p[j] /\ Block(q, k) = Block(p, k)
    BY <1>3, <2>1, <2>2
  <2>4. QED
    BY <2>1, <2>3
<1>5. QED
  BY <1>3, <1>4

\* Any other message may follow.
LEMMA WellFormedAppend ==
  ASSUME NEW p \in Seq(Good), WellFormed(p), NEW m \in Good, m.role \notin {"tool_call", "tool_result"}
  PROVE  Append(p, m) \in Seq(Good) /\ WellFormed(Append(p, m))
<1>1. PICK q : q = Append(p, m)
  OBVIOUS
<1>2. /\ q \in Seq(Good) /\ Len(q) = Len(p) + 1 /\ Len(p) \in Nat
      /\ \A i \in 1..Len(p) : q[i] = p[i]
      /\ q[Len(p) + 1] = m
  BY <1>1, AppendProperties
<1>3. DOMAIN q = 1..(Len(p) + 1)
  BY <1>2
<1>4. /\ \A k \in 1..Len(p) : p[k].role = "tool_call" =>
           /\ k + Len(q[k].calls) <= Len(p)
           /\ Block(q, k) = ToSet(q[k].calls)
      /\ \A j \in 1..Len(p) : p[j].role = "tool_result" =>
           \E k \in 1..(j - 1) : q[k].role = "tool_call" /\ q[j].call \in Block(q, k)
                                 /\ j <= k + Len(q[k].calls)
  <2>1. Len(p) <= Len(q)
    BY <1>2
  <2>2. QED
    BY <1>2, <2>1, BlocksStay
<1>5. ASSUME NEW k \in DOMAIN q, q[k].role \in {"tool_call", "tool_result"}
      PROVE  k \in 1..Len(p) /\ p[k] = q[k]
  BY <1>2, <1>3, <1>5
<1>6. ASSUME NEW k \in DOMAIN q, q[k].role = "tool_call"
      PROVE  k + Len(q[k].calls) <= Len(q) /\ Block(q, k) = ToSet(q[k].calls)
  <2>1. k \in 1..Len(p) /\ p[k] = q[k]
    BY <1>5, <1>6
  <2>2. Len(q[k].calls) \in Nat
    BY <1>2 DEF Good, Messages
  <2>3. QED
    BY <1>2, <1>4, <1>6, <2>1, <2>2
<1>7. WellFormed(q)
  BY <1>4, <1>5, <1>6 DEF WellFormed
<1>8. QED
  BY <1>1, <1>2, <1>7

\* The block of a tool_call that is being collected: results of it, one per call.
Blocks == [call : Good, results : Seq(Good)]
Collected(b) == {b.results[i].call : i \in 1..Len(b.results)}
Collecting(b) ==
  /\ b \in Blocks
  /\ b.call.role = "tool_call" \/ b = NoBlock
  /\ \A i \in 1..Len(b.results) : b.results[i].role = "tool_result"
  /\ Collected(b) \subseteq ToSet(b.call.calls)
  /\ \A i, j \in 1..Len(b.results) : b.results[i].call = b.results[j].call => i = j

\* A complete block may follow.
LEMMA WellFormedBlock ==
  ASSUME NEW p \in Seq(Good), WellFormed(p), NEW b, Collecting(b), b.call.role = "tool_call",
         Collected(b) = ToSet(b.call.calls)
  PROVE  LET q == p \o <<b.call>> \o b.results IN q \in Seq(Good) /\ WellFormed(q)
<1> DEFINE c == b.call
           rs == b.results
           n == Len(p)
           l == Len(rs)
<1>1. /\ Collected(b) = {rs[i].call : i \in 1..l}
      /\ \A i \in 1..l : rs[i].role = "tool_result"
      /\ Collected(b) = ToSet(c.calls)
      /\ \A i, j \in 1..l : rs[i].call = rs[j].call => i = j
  BY DEF Collecting, Collected
<1>2. c \in Good /\ rs \in Seq(Good) /\ n \in Nat /\ l \in Nat /\ c.role = "tool_call"
  BY DEF Collecting, Blocks
<1>14. n = Len(p) /\ l = Len(rs)
  OBVIOUS
<1> HIDE DEF c, rs, n, l
<1>3. PICK q : q = p \o <<c>> \o rs
  OBVIOUS
<1>4. /\ q \in Seq(Good) /\ Len(q) = n + 1 + l
      /\ \A i \in 1..n : q[i] = p[i]
      /\ q[n + 1] = c
      /\ \A i \in 1..l : q[n + 1 + i] = rs[i]
  <2>1. PICK s : s = p \o <<c>>
    OBVIOUS
  <2>2. <<c>> \in Seq(Good) /\ Len(<<c>>) = 1 /\ <<c>>[1] = c
    BY <1>2
  <2>3. s \in Seq(Good) /\ Len(s) = n + 1 /\ (\A i \in 1..n : s[i] = p[i]) /\ s[n + 1] = c
    BY <1>14, <1>2, <2>1, <2>2, ConcatProperties
  <2>4. /\ q \in Seq(Good) /\ Len(q) = n + 1 + l
        /\ \A i \in 1..(n + 1 + l) : q[i] = IF i <= n + 1 THEN s[i] ELSE rs[i - (n + 1)]
    <3>1. q = s \o rs
      BY <1>3, <2>1
    <3>2. /\ s \o rs \in Seq(Good) /\ Len(s \o rs) = Len(s) + Len(rs)
          /\ \A i \in 1..(Len(s) + Len(rs)) :
               (s \o rs)[i] = IF i <= Len(s) THEN s[i] ELSE rs[i - Len(s)]
      BY ONLY <1>2, <2>3, ConcatProperties
    <3>3. Len(s) + Len(rs) = n + 1 + l
      BY <1>14, <1>2, <2>3
    <3>4. QED
      BY <2>3, <3>1, <3>2, <3>3
  <2>5. ASSUME NEW i \in 1..l PROVE q[n + 1 + i] = rs[i]
    <3>1. PICK j : j = n + 1 + i
      OBVIOUS
    <3>2. j \in 1..(n + 1 + l) /\ ~(j <= n + 1) /\ j - (n + 1) = i
      BY <1>2, <3>1
    <3>3. QED
      BY <2>4, <3>1, <3>2
  <2>6. QED
    BY <1>2, <2>3, <2>4, <2>5
<1>5. l = Len(c.calls) /\ c.calls \in Seq(CallIds)
  <2>1. c.calls \in Seq(CallIds) /\ IsInjective(c.calls)
    BY <1>2 DEF Good, Messages
  <2> DEFINE ids == [i \in 1..l |-> rs[i].call]
  <2>2. ids \in Seq(CallIds \union {NoCall}) /\ Len(ids) = l
    <3>1. \A i \in 1..l : rs[i].call \in CallIds \union {NoCall}
      BY <1>14, <1>2 DEF Good, Messages
    <3>2. QED
      BY <1>2, <3>1
  <2>3. IsInjective(ids)
    BY <1>1, <1>2 DEF IsInjective
  <2>4. ToSet(ids) = ToSet(c.calls)
    <3>1. DOMAIN ids = 1..l /\ \A i \in 1..l : ids[i] = rs[i].call
      OBVIOUS
    <3>2. ToSet(ids) = {rs[i].call : i \in 1..l}
      <4> HIDE DEF ids
      <4> QED
        BY <3>1 DEF ToSet
    <3>3. QED
      BY <1>1, <3>2
  <2>5. c.calls \in Seq(CallIds \union {NoCall})
    BY <2>1
  <2>6. Len(ids) = Len(c.calls)
    <3> HIDE DEF ids
    <3> QED
      BY <2>1, <2>2, <2>3, <2>4, <2>5, SameLength
  <2>7. QED
    BY <2>1, <2>2, <2>6
<1>6. Block(q, n + 1) = ToSet(c.calls)
  <2>1. \A i \in 1..l : q[n + 1 + i].call = rs[i].call
    BY <1>4
  <2>2. ASSUME NEW id PROVE id \in Block(q, n + 1) <=> \E i \in 1..l : id = rs[i].call
    <3>1. id \in Block(q, n + 1) <=> \E j \in (n + 2)..(n + 1 + l) : id = q[j].call
      BY <1>2, <1>4, <1>5 DEF Block
    <3>2. ASSUME NEW j \in (n + 2)..(n + 1 + l) PROVE \E i \in 1..l : q[j].call = rs[i].call
      <4>1. j - (n + 1) \in 1..l /\ n + 1 + (j - (n + 1)) = j
        BY <1>2
      <4>2. QED
        BY <2>1, <4>1
    <3>3. ASSUME NEW i \in 1..l PROVE \E j \in (n + 2)..(n + 1 + l) : q[j].call = rs[i].call
      <4>1. n + 1 + i \in (n + 2)..(n + 1 + l)
        BY <1>2
      <4>2. QED
        BY <2>1, <4>1
    <3>4. QED
      BY <3>1, <3>2, <3>3
  <2>3. Block(q, n + 1) = Collected(b)
    BY <1>1, <2>2
  <2>4. QED
    BY <1>1, <2>3
<1>7. /\ \A k \in 1..n : p[k].role = "tool_call" =>
           /\ k + Len(q[k].calls) <= n
           /\ Block(q, k) = ToSet(q[k].calls)
      /\ \A j \in 1..n : p[j].role = "tool_result" =>
           \E k \in 1..(j - 1) : q[k].role = "tool_call" /\ q[j].call \in Block(q, k)
                                 /\ j <= k + Len(q[k].calls)
  <2>1. Len(p) <= Len(q)
    <3>1. Len(p) = n /\ Len(q) = n + 1 + l /\ n <= n + 1 + l
      BY ONLY <1>14, <1>2, <1>4
    <3>2. QED
      BY <3>1
  <2>2. QED
    BY <1>14, <1>4, <2>1, BlocksStay
<1>8. DOMAIN q = 1..(n + 1 + l)
  BY <1>4
<1>9. ASSUME NEW i \in 1..l
      PROVE  q[n + 1 + i].role = "tool_result" /\ q[n + 1 + i].call \in Block(q, n + 1)
  <2>1. q[n + 1 + i] = rs[i] /\ rs[i].role = "tool_result" /\ rs[i].call \in ToSet(c.calls)
    BY <1>1, <1>4
  <2>2. QED
    BY <1>6, <2>1
<1>10. ASSUME NEW k \in DOMAIN q, q[k].role = "tool_call"
       PROVE  k + Len(q[k].calls) <= Len(q) /\ Block(q, k) = ToSet(q[k].calls)
  <2>1. CASE k \in 1..n
    <3>1. Len(q[k].calls) \in Nat
      BY <1>4 DEF Good, Messages
    <3>2. QED
      BY <1>2, <1>4, <1>7, <1>10, <2>1, <3>1
  <2>2. CASE k = n + 1
    BY <1>2, <1>4, <1>5, <1>6, <2>2
  <2>3. CASE k \notin 1..n /\ k # n + 1
    <3>1. k - (n + 1) \in 1..l /\ n + 1 + (k - (n + 1)) = k
      BY <1>2, <1>8, <2>3
    <3>2. QED
      BY <1>9, <1>10, <3>1
  <2>4. QED
    BY <2>1, <2>2, <2>3
<1>11. ASSUME NEW j \in DOMAIN q, q[j].role = "tool_result"
       PROVE  \E k \in 1..(j - 1) : q[k].role = "tool_call" /\ q[j].call \in Block(q, k)
                                    /\ j <= k + Len(q[k].calls)
  <2>1. CASE j \in 1..n
    BY <1>4, <1>7, <1>11, <2>1
  <2>2. CASE j = n + 1
    BY <1>2, <1>4, <1>11, <2>2
  <2>3. CASE j \notin 1..n /\ j # n + 1
    <3>1. j - (n + 1) \in 1..l /\ n + 1 + (j - (n + 1)) = j /\ n + 1 \in 1..(j - 1)
          /\ j <= n + 1 + l
      BY <1>2, <1>8, <2>3
    <3>2. q[j].call \in Block(q, n + 1)
      BY <1>9, <3>1
    <3>3. QED
      BY <1>2, <1>4, <1>5, <3>1, <3>2
  <2>4. QED
    BY <2>1, <2>2, <2>3
<1>12. WellFormed(q)
  BY <1>10, <1>11 DEF WellFormed
<1>13. QED
  BY <1>3, <1>4, <1>12 DEF c, rs

\* What Shown keeps from message to message.
ShowInv(state) ==
  /\ state \in [out : Seq(Good), block : Blocks]
  /\ WellFormed(state.out)
  /\ Collecting(state.block)

\* Where no block is open, nothing is collected.
LEMMA NoBlockIsGood == NoBlock \in Blocks /\ Collecting(NoBlock) /\ Collected(NoBlock) = {}
                       /\ NoBlock.call.calls = <<>> /\ NoBlock.results = <<>>
                       /\ NoBlock.call.role = "none"
<1>1. NoBlock = [call |-> Message("none", 0, <<>>, NoCall), results |-> <<>>]
  BY DEF NoBlock, NoDraft
<1>2. Message("none", 0, <<>>, NoCall) \in Good
  BY DEF Message, Good, Messages, Roles, IsInjective
<1>3. NoBlock \in Blocks
  BY <1>1, <1>2 DEF Blocks
<1>4. NoBlock.results = <<>> /\ NoBlock.call = Message("none", 0, <<>>, NoCall)
  BY <1>1
<1>5. Len(NoBlock.results) = 0
  BY <1>4
<1>6. QED
  BY <1>3, <1>4, <1>5 DEF Collecting, Collected, Message

\* The calls collected, as the code compares them.
LEMMA CollectedIds ==
  ASSUME NEW b \in Blocks
  PROVE  {r.call : r \in ToSet(b.results)} = Collected(b)
<1>1. b.results \in Seq(Good) /\ DOMAIN b.results = 1..Len(b.results)
  BY DEF Blocks
<1>2. ToSet(b.results) = {b.results[i] : i \in 1..Len(b.results)}
  BY <1>1 DEF ToSet
<1>3. QED
  BY <1>2 DEF Collected

\* One more result.
LEMMA CollectOne ==
  ASSUME NEW b, Collecting(b), NEW m \in Good, m.role = "tool_result",
         m.call \in ToSet(b.call.calls), m.call \notin Collected(b)
  PROVE  LET more == [b EXCEPT !.results = Append(@, m)]
         IN  /\ more \in Blocks /\ Collecting(more)
             /\ more.call = b.call /\ b.call.role = "tool_call"
             /\ Collected(more) = Collected(b) \union {m.call}
<1>1. b \in Blocks /\ b.results \in Seq(Good) /\ b.call \in Good /\ Len(b.results) \in Nat
  BY DEF Collecting, Blocks
<1>2. PICK rs : rs = Append(b.results, m)
  OBVIOUS
<1>3. PICK more : more = [b EXCEPT !.results = Append(@, m)]
  OBVIOUS
<1>4. more = [call |-> b.call, results |-> rs]
  BY <1>1, <1>2, <1>3 DEF Blocks
<1>5. /\ rs \in Seq(Good) /\ Len(rs) = Len(b.results) + 1
      /\ \A i \in 1..Len(b.results) : rs[i] = b.results[i]
      /\ rs[Len(b.results) + 1] = m
  BY <1>1, <1>2, AppendProperties
<1>6. more \in Blocks /\ more.call = b.call /\ more.results = rs
  BY <1>1, <1>4, <1>5 DEF Blocks
<1>7. b.call.role = "tool_call"
  <2>1. b # NoBlock
    BY NoBlockIsGood DEF ToSet
  <2>2. QED
    BY <2>1 DEF Collecting
<1>8. Collected(more) = Collected(b) \union {m.call}
  <2>1. ASSUME NEW i \in 1..Len(rs) PROVE rs[i].call \in Collected(b) \union {m.call}
    <3>1. i \in 1..Len(b.results) \/ i = Len(b.results) + 1
      BY <1>1, <1>5
    <3>2. QED
      BY <1>5, <3>1 DEF Collected
  <2>2. ASSUME NEW i \in 1..Len(b.results)
        PROVE  i \in 1..Len(rs) /\ b.results[i].call = rs[i].call
    BY <1>1, <1>5
  <2>3. Len(b.results) + 1 \in 1..Len(rs) /\ rs[Len(b.results) + 1].call = m.call
    BY <1>1, <1>5
  <2>4. Collected(more) = {rs[i].call : i \in 1..Len(rs)}
    BY <1>6 DEF Collected
  <2>5. Collected(more) \subseteq Collected(b) \union {m.call}
    BY <2>1, <2>4
  <2>6. ASSUME NEW i \in 1..Len(b.results) PROVE b.results[i].call \in Collected(more)
    BY <2>2, <2>4
  <2>7. Collected(b) \subseteq Collected(more)
    BY <2>6 DEF Collected
  <2>8. m.call \in Collected(more)
    BY <2>3, <2>4
  <2>9. QED
    BY <2>5, <2>7, <2>8
<1>9. \A i \in 1..Len(rs) : rs[i].role = "tool_result"
  BY <1>1, <1>5 DEF Collecting
<1>10. ASSUME NEW i \in 1..Len(rs), NEW j \in 1..Len(rs), rs[i].call = rs[j].call PROVE i = j
  <2>1. /\ i \in 1..Len(b.results) \/ i = Len(b.results) + 1
        /\ j \in 1..Len(b.results) \/ j = Len(b.results) + 1
    BY <1>1, <1>5
  <2>2. \A k \in 1..Len(b.results) : rs[k].call = b.results[k].call /\ rs[k].call # m.call
    BY <1>5 DEF Collected
  <2>3. \A k, l \in 1..Len(b.results) : b.results[k].call = b.results[l].call => k = l
    BY DEF Collecting
  <2>4. rs[Len(b.results) + 1].call = m.call
    BY <1>5
  <2>5. QED
    BY <1>10, <2>1, <2>2, <2>3, <2>4
<1>11. Collecting(more)
  <2>1. Collected(more) \subseteq ToSet(more.call.calls)
    BY <1>6, <1>8 DEF Collecting
  <2>2. QED
    BY <1>6, <1>7, <1>9, <1>10, <2>1 DEF Collecting
<1>12. QED
  BY <1>3, <1>6, <1>7, <1>8, <1>11

\* Every message keeps what is shown well formed.
LEMMA ShowKeeps ==
  ASSUME NEW state, ShowInv(state), NEW m \in Good
  PROVE  ShowInv(Show(state, m))
<1> DEFINE b == state.block
<1>1. /\ state = [out |-> state.out, block |-> b]
      /\ state.out \in Seq(Good) /\ b \in Blocks /\ WellFormed(state.out) /\ Collecting(b)
  BY DEF ShowInv
<1>2. ASSUME NEW out \in Seq(Good), WellFormed(out), NEW block, Collecting(block)
      PROVE  ShowInv([out |-> out, block |-> block])
  BY <1>2 DEF ShowInv, Collecting
<1>3. CASE m.role = "tool_call"
  <2>1. Show(state, m) = [out |-> state.out, block |-> [call |-> m, results |-> <<>>]]
    BY <1>3 DEF Show
  <2>2. PICK block : block = [call |-> m, results |-> <<>>]
    OBVIOUS
  <2>3. block \in Blocks /\ block.call = m /\ block.results = <<>> /\ Len(block.results) = 0
    BY <2>2 DEF Blocks
  <2>4. Collecting(block)
    BY <1>3, <2>3 DEF Collecting, Collected
  <2>5. QED
    BY <1>1, <1>2, <2>1, <2>2, <2>4
<1>4. CASE m.role = "tool_result" /\ m.call \notin ToSet(b.call.calls)
  <2>1. Show(state, m) = [state EXCEPT !.block = NoBlock]
    BY <1>4 DEF Show
  <2>2. Show(state, m) = [out |-> state.out, block |-> NoBlock]
    BY <1>1, <2>1
  <2>3. QED
    BY <1>1, <1>2, <2>2, NoBlockIsGood
<1>5. CASE m.role = "tool_result" /\ m.call \in ToSet(b.call.calls) /\ m.call \in Collected(b)
  <2>1. {r.call : r \in ToSet(b.results)} = Collected(b)
    BY <1>1, CollectedIds
  <2>2. Show(state, m) = state
    BY <1>5, <2>1 DEF Show
  <2>3. QED
    BY <2>2
<1>6. CASE m.role = "tool_result" /\ m.call \in ToSet(b.call.calls) /\ m.call \notin Collected(b)
  <2>1. {r.call : r \in ToSet(b.results)} = Collected(b)
    BY <1>1, CollectedIds
  <2>2. PICK more : more = [b EXCEPT !.results = Append(@, m)]
    OBVIOUS
  <2>3. Show(state, m) = CloseBlock(state.out, more)
    BY <1>6, <2>1, <2>2 DEF Show
  <2>4. more \in Blocks /\ Collecting(more) /\ more.call = b.call /\ b.call.role = "tool_call"
    BY <1>1, <1>6, <2>2, CollectOne
  <2>5. {r.call : r \in ToSet(more.results)} = Collected(more)
    BY <2>4, CollectedIds
  <2>6. CASE Collected(more) = ToSet(more.call.calls)
    <3>1. PICK q : q = state.out \o <<more.call>> \o more.results
      OBVIOUS
    <3>2. q \in Seq(Good) /\ WellFormed(q)
      BY <1>1, <2>4, <2>6, <3>1, WellFormedBlock
    <3>3. Show(state, m) = [out |-> q, block |-> NoBlock]
      BY <2>3, <2>5, <2>6, <3>1 DEF CloseBlock
    <3>4. QED
      BY <1>2, <3>2, <3>3, NoBlockIsGood
  <2>7. CASE Collected(more) # ToSet(more.call.calls)
    <3>1. Show(state, m) = [out |-> state.out, block |-> more]
      BY <2>3, <2>5, <2>7 DEF CloseBlock
    <3>2. QED
      BY <1>1, <1>2, <2>4, <3>1
  <2>8. QED
    BY <2>6, <2>7
<1>7. CASE m.role \notin {"tool_call", "tool_result"}
  <2>1. Show(state, m) = [out |-> Append(state.out, m), block |-> NoBlock]
    BY <1>7 DEF Show
  <2>2. Append(state.out, m) \in Seq(Good) /\ WellFormed(Append(state.out, m))
    BY <1>1, <1>7, WellFormedAppend
  <2>3. QED
    BY <1>2, <2>1, <2>2, NoBlockIsGood
<1>8. QED
  BY <1>3, <1>4, <1>5, <1>6, <1>7

\* Whatever was stored, what is shown of it is well formed.
LEMMA ShownKeeps ==
  ASSUME NEW s \in Seq(Good)
  PROVE  ShowInv(Shown(s))
<1>1. Len(s) \in Nat /\ \A i \in 1..Len(s) : s[i] \in Good
  OBVIOUS
<1> DEFINE P == {n \in Nat : n <= Len(s) => ShowInv(Steps(s)[n])}
<1>2. 0 \in P
  <2>1. WellFormed(<<>>)
    BY DEF WellFormed
  <2>2. Start0.out = <<>> /\ Start0.block = NoBlock /\ Start0 \in [out : Seq(Good), block : Blocks]
    BY NoBlockIsGood DEF Start0
  <2>3. ShowInv(Start0)
    BY <2>1, <2>2, NoBlockIsGood DEF ShowInv
  <2>4. QED
    BY <1>1, <2>3, ShownSteps
<1>3. ASSUME NEW n \in Nat, n \in P PROVE n + 1 \in P
  <2>1. SUFFICES ASSUME n + 1 <= Len(s) PROVE ShowInv(Steps(s)[n + 1])
    OBVIOUS
  <2>2. PICK k : k = n + 1
    OBVIOUS
  <2>3. k \in 1..Len(s) /\ k - 1 = n /\ n <= Len(s)
    BY <1>1, <2>1, <2>2
  <2>4. Steps(s)[k] = Show(Steps(s)[n], s[k])
    BY <1>1, <2>3, ShownSteps
  <2>5. ShowInv(Steps(s)[n]) /\ s[k] \in Good
    BY <1>1, <1>3, <2>3
  <2>6. QED
    BY <2>2, <2>4, <2>5, ShowKeeps
<1>4. Nat \subseteq P
  <2> HIDE DEF P
  <2> QED
    BY <1>2, <1>3, Upwards
<1>5. ShowInv(Steps(s)[Len(s)])
  BY <1>1, <1>4
<1>6. QED
  BY <1>1, <1>5, ShownSteps

-----------------------------------------------------------------------------
\* The greatest of some numbers.
LEMMA MaxIsOne ==
  ASSUME NEW n \in Nat, NEW S, S \subseteq 0..n, S # {}
  PROVE  Max(S) \in S /\ \A y \in S : y <= Max(S)
<1>1. PICK T : T = {u \in Nat : \A x \in S : x <= u}
  OBVIOUS
<1>2. n \in T /\ T \subseteq Nat
  BY <1>1
<1>3. PICK u \in T : \A v \in T : <<v, u>> \notin OpToRel(<, Nat)
  BY ONLY <1>2, WFMin, NatLessThanWellFounded
<1>4. u \in Nat /\ \A x \in S : x <= u
  BY <1>1
<1>5. u \in S
  <2>1. SUFFICES ASSUME u \notin S PROVE FALSE
    OBVIOUS
  <2>2. \A x \in S : x \in Nat /\ x < u
    BY <1>4, <2>1
  <2>3. u - 1 \in Nat
    <3>1. PICK x \in S : TRUE
      OBVIOUS
    <3>2. x \in Nat /\ x < u
      BY <2>2
    <3>3. QED
      BY <1>4, <3>2
  <2>4. u - 1 \in T
    BY <1>1, <1>4, <2>2, <2>3
  <2>5. <<u - 1, u>> \in OpToRel(<, Nat)
    BY <1>4, <2>3 DEF OpToRel
  <2>6. QED
    BY <1>3, <2>4, <2>5
<1>6. \E x \in S : \A y \in S : x >= y
  BY <1>4, <1>5
<1>7. Max(S) \in S /\ \A y \in S : Max(S) >= y
  BY <1>6 DEF Max
<1>8. QED
  BY <1>7

\* Numbers count the messages at most.
Numbered == \A i \in 1..Len(log) : log[i].seq \in 1..Len(log)

\* The highest number is at most the length of the log, and no message exceeds it.
LEMMA MaxSeqBounds ==
  ASSUME log \in Seq(Good), Numbered
  PROVE  MaxSeq \in 0..Len(log) /\ \A i \in 1..Len(log) : log[i].seq <= MaxSeq
<1>1. PICK S : S = {0} \cup {m.seq : m \in ToSet(log)}
  OBVIOUS
<1>2. MaxSeq = Max(S)
  BY <1>1 DEF MaxSeq
<1>3. Len(log) \in Nat /\ DOMAIN log = 1..Len(log)
  OBVIOUS
<1>4. S = {0} \cup {log[i].seq : i \in 1..Len(log)}
  BY <1>1, <1>3 DEF ToSet
<1>5. S \subseteq 0..Len(log) /\ S # {}
  BY <1>3, <1>4 DEF Numbered
<1>6. Max(S) \in S /\ \A y \in S : y <= Max(S)
  BY ONLY <1>3, <1>5, MaxIsOne
<1>7. QED
  BY <1>2, <1>4, <1>5, <1>6

\* The order of the messages: a strict total order of their positions.
LEMMA BeforeOrders ==
  ASSUME log \in Seq(Good), NEW f \in BOOLEAN
  PROVE  /\ \A i, j \in 1..Len(log) :
              <<i, j>> \in Before(f) <=>
                \/ log[i].seq < log[j].seq
                \/ log[i].seq = log[j].seq /\ (IF f THEN i > j ELSE i < j)
         /\ \A i, j \in 1..Len(log) : i # j => <<i, j>> \in Before(f) \/ <<j, i>> \in Before(f)
         /\ \A i, j \in 1..Len(log) : ~(<<i, j>> \in Before(f) /\ <<j, i>> \in Before(f))
         /\ \A i, j, k \in 1..Len(log) :
              <<i, j>> \in Before(f) /\ <<j, k>> \in Before(f) => <<i, k>> \in Before(f)
<1>1. DOMAIN log = 1..Len(log)
  OBVIOUS
<1>2. ASSUME NEW i \in 1..Len(log), NEW j \in 1..Len(log)
      PROVE  <<i, j>> \in Before(f) <=>
               \/ log[i].seq < log[j].seq
               \/ log[i].seq = log[j].seq /\ (IF f THEN i > j ELSE i < j)
  BY <1>1 DEF Before
<1>3. \A i \in 1..Len(log) : log[i].seq \in Nat
  BY DEF Good, Messages
<1>4. ASSUME NEW i \in 1..Len(log), NEW j \in 1..Len(log), i # j
      PROVE  <<i, j>> \in Before(f) \/ <<j, i>> \in Before(f)
  BY <1>2, <1>3, <1>4
<1>5. ASSUME NEW i \in 1..Len(log), NEW j \in 1..Len(log)
      PROVE  ~(<<i, j>> \in Before(f) /\ <<j, i>> \in Before(f))
  BY <1>2, <1>3
<1>6. ASSUME NEW i \in 1..Len(log), NEW j \in 1..Len(log), NEW k \in 1..Len(log),
             <<i, j>> \in Before(f), <<j, k>> \in Before(f)
      PROVE  <<i, k>> \in Before(f)
  <2>1. PICK a, b, c : a = log[i].seq /\ b = log[j].seq /\ c = log[k].seq
    OBVIOUS
  <2>2. a \in Nat /\ b \in Nat /\ c \in Nat
    BY <1>3, <2>1
  <2>3. /\ a < b \/ (a = b /\ (IF f THEN i > j ELSE i < j))
        /\ b < c \/ (b = c /\ (IF f THEN j > k ELSE j < k))
    BY <1>2, <1>6, <2>1
  <2>4. a < c \/ (a = c /\ (IF f THEN i > k ELSE i < k))
    BY <2>2, <2>3
  <2>5. QED
    BY <1>2, <2>1, <2>4
<1>7. QED
  BY <1>2, <1>4, <1>5, <1>6

\* Sorting the log by number permutes its positions, and leaves them alone when the
\* numbers increase already.
LEMMA LoadedOrder ==
  ASSUME log \in Seq(Good), NEW f \in BOOLEAN
  PROVE  /\ InOrder(DOMAIN log, Before(f)) \in [1..Len(log) -> 1..Len(log)]
         /\ (\A i, j \in 1..Len(log) : i < j => log[i].seq < log[j].seq) =>
               \A k \in 1..Len(log) : InOrder(DOMAIN log, Before(f))[k] = k
<1> DEFINE n == Len(log)
<1>1. DOMAIN log = 1..n /\ n \in Nat
  OBVIOUS
<1>2. IsFiniteSet(1..n) /\ Cardinality(1..n) = n
  <2>1. IsFiniteSet(1..n) /\ Cardinality(1..n) = IF 1 > n THEN 0 ELSE n - 1 + 1
    BY <1>1, FS_Interval
  <2>2. QED
    BY <1>1, <2>1
<1>3. PICK before : before = Before(f)
  OBVIOUS
<1>4. PICK order : order = InOrder(1..n, before)
  OBVIOUS
<1>5. /\ order \in [1..n -> 1..n]
      /\ \A k \in 1..n : Cardinality({j \in 1..n : <<j, order[k]>> \in before}) = k - 1
  <2>1. /\ \A i, j \in 1..n : i # j => <<i, j>> \in before \/ <<j, i>> \in before
        /\ \A i, j \in 1..n : ~(<<i, j>> \in before /\ <<j, i>> \in before)
        /\ \A i, j, k \in 1..n : <<i, j>> \in before /\ <<j, k>> \in before => <<i, k>> \in before
    BY <1>3, BeforeOrders
  <2>2. PICK S : S = 1..n
    OBVIOUS
  <2>3. /\ InOrder(S, before) \in [1..Cardinality(S) -> S]
        /\ \A k \in 1..Cardinality(S) :
             Cardinality({j \in S : <<j, InOrder(S, before)[k]>> \in before}) = k - 1
    <3>1. /\ IsFiniteSet(S)
          /\ \A i, j \in S : i # j => <<i, j>> \in before \/ <<j, i>> \in before
          /\ \A i, j \in S : ~(<<i, j>> \in before /\ <<j, i>> \in before)
          /\ \A i, j, k \in S : <<i, j>> \in before /\ <<j, k>> \in before => <<i, k>> \in before
      BY <1>2, <2>1, <2>2
    <3>2. QED
      BY ONLY <3>1, InOrderPlaces
  <2>4. QED
    BY <1>2, <1>4, <2>2, <2>3
<1>6. ASSUME \A i, j \in 1..n : i < j => log[i].seq < log[j].seq, NEW k \in 1..n
      PROVE  order[k] = k
  <2>1. PICK x : x = order[k]
    OBVIOUS
  <2>2. x \in 1..n
    BY <1>5, <2>1
  <2>3. \A i \in 1..n : log[i].seq \in Nat
    BY DEF Good, Messages
  <2>4. ASSUME NEW j \in 1..n PROVE <<j, x>> \in before <=> j < x
    BY <1>3, <1>6, <2>2, <2>3, BeforeOrders
  <2>5. {j \in 1..n : <<j, x>> \in before} = 1..(x - 1)
    <3> HIDE DEF n
    <3> QED
      BY <1>1, <2>2, <2>4
  <2>6. Cardinality(1..(x - 1)) = x - 1
    BY <1>1, <2>2, FS_Interval
  <2>7. x - 1 = k - 1
    BY <1>5, <2>1, <2>5, <2>6
  <2>8. QED
    BY <1>1, <2>1, <2>2, <2>7
<1>7. QED
  BY <1>1, <1>3, <1>4, <1>5, <1>6

\* The context is made of the log's messages, and is the log when that is in
\* order and fits.
LEMMA LoadContextIs ==
  ASSUME log \in Seq(Good), window \in Nat \ {0}, NEW f \in BOOLEAN
  PROVE  /\ LoadContext(f) \in Seq(Good)
         /\ Len(LoadContext(f)) <= window
         /\ (\A i, j \in 1..Len(log) : i < j => log[i].seq < log[j].seq) /\ Len(log) <= window =>
              LoadContext(f) = log
<1> DEFINE n == Len(log)
           from == IF n > window THEN n - window + 1 ELSE 1
<1>1. PICK order : order = InOrder(DOMAIN log, Before(f))
  OBVIOUS
<1>2. n \in Nat /\ from \in 1..(n + 1) /\ n - from + 1 \in Nat /\ n - from + 1 <= window
  OBVIOUS
<1>3. LoadContext(f) = [k \in 1..(n - from + 1) |-> log[order[from + k - 1]]]
  BY <1>1 DEF LoadContext
<1>4. order \in [1..n -> 1..n]
  BY <1>1, LoadedOrder
<1>5. \A k \in 1..(n - from + 1) : log[order[from + k - 1]] \in Good
  <2>1. \A k \in 1..(n - from + 1) : from + k - 1 \in 1..n
    BY <1>2
  <2>2. \A k \in 1..(n - from + 1) : order[from + k - 1] \in 1..n
    <3> HIDE DEF n, from
    <3> QED
      BY <1>4, <2>1
  <2>3. \A i \in 1..n : log[i] \in Good
    OBVIOUS
  <2>4. QED
    <3> HIDE DEF n, from
    <3> QED
      BY <2>2, <2>3
<1> HIDE DEF from
<1>6. LoadContext(f) \in Seq(Good) /\ Len(LoadContext(f)) = n - from + 1
  BY <1>2, <1>3, <1>5
<1>7. ASSUME \A i, j \in 1..n : i < j => log[i].seq < log[j].seq, n <= window
      PROVE  LoadContext(f) = log
  <2>1. from = 1
    BY <1>2, <1>7 DEF from
  <2>2. \A k \in 1..n : order[k] = k
    BY <1>1, <1>7, LoadedOrder
  <2>3. \A k \in 1..n : LoadContext(f)[k] = log[k]
    BY <1>2, <1>3, <2>1, <2>2
  <2>4. Len(LoadContext(f)) = Len(log)
    BY <1>2, <1>6, <2>1
  <2>5. QED
    BY <1>6, <2>3, <2>4, SeqEqual
<1>8. QED
  BY <1>2, <1>6, <1>7

-----------------------------------------------------------------------------
\* What is planned for n calls, and whether it is among the rest of a plan.
Ops(n) == {"answer", "send", "escalate"} \X (1..n)
Has(s, x) == \E k \in 1..Len(s) : s[k] = x

\* What one of two sequences has, their concatenation has.
LEMMA HasConcat ==
  ASSUME NEW S, NEW s \in Seq(S), NEW t \in Seq(S), NEW x, Has(s, x) \/ Has(t, x)
  PROVE  Has(s \o t, x)
<1>1. PICK u : u = s \o t
  OBVIOUS
<1>2. /\ Len(s) \in Nat /\ Len(t) \in Nat /\ Len(u) = Len(s) + Len(t)
      /\ \A i \in 1..(Len(s) + Len(t)) : u[i] = IF i <= Len(s) THEN s[i] ELSE t[i - Len(s)]
  BY <1>1, ConcatProperties
<1>3. CASE Has(s, x)
  <2>1. PICK k \in 1..Len(s) : s[k] = x
    BY <1>3 DEF Has
  <2>2. k \in 1..Len(u) /\ u[k] = x
    BY <1>2, <2>1
  <2>3. QED
    BY <1>1, <2>2 DEF Has
<1>4. CASE Has(t, x)
  <2>1. PICK k \in 1..Len(t) : t[k] = x
    BY <1>4 DEF Has
  <2>2. PICK j : j = Len(s) + k
    OBVIOUS
  <2>3. j \in 1..(Len(s) + Len(t)) /\ ~(j <= Len(s)) /\ j - Len(s) = k
    BY <1>2, <2>2
  <2>4. j \in 1..Len(u) /\ u[j] = x
    BY <1>2, <2>1, <2>3
  <2>5. QED
    BY <1>1, <2>4 DEF Has
<1>5. QED
  BY <1>3, <1>4

\* Positions lists every call of the kinds that it is asked for.
LEMMA PositionsAre ==
  ASSUME NEW n \in Nat, NEW K, NEW kinds \in [1..n -> K], NEW set
  PROVE  /\ Positions(kinds, set) \in Seq(1..n)
         /\ \A i \in 1..n : kinds[i] \in set => Has(Positions(kinds, set), i)
<1>1. PICK S : S = {i \in 1..n : kinds[i] \in set}
  OBVIOUS
<1>2. PICK before : before = {p \in (1..n) \X (1..n) : p[1] < p[2]}
  OBVIOUS
<1>3. IsFiniteSet(S)
  <2>1. IsFiniteSet(1..n) /\ S \in SUBSET (1..n)
    BY <1>1, FS_Interval
  <2>2. QED
    BY <2>1, FS_Subset
<1>4. \A i, j \in S : i \in Int /\ (<<i, j>> \in before <=> i < j)
  BY <1>1, <1>2
<1>5. /\ \A i, j \in S : i # j => <<i, j>> \in before \/ <<j, i>> \in before
      /\ \A i, j \in S : ~(<<i, j>> \in before /\ <<j, i>> \in before)
      /\ \A i, j, k \in S : <<i, j>> \in before /\ <<j, k>> \in before => <<i, k>> \in before
  <2>1. ASSUME NEW i \in S, NEW j \in S
        PROVE  /\ i # j => <<i, j>> \in before \/ <<j, i>> \in before
               /\ ~(<<i, j>> \in before /\ <<j, i>> \in before)
    BY <1>4
  <2>2. ASSUME NEW i \in S, NEW j \in S, NEW k \in S, <<i, j>> \in before, <<j, k>> \in before
        PROVE  <<i, k>> \in before
    <3>1. i \in Int /\ j \in Int /\ k \in Int /\ i < j /\ j < k
      BY <1>4, <2>2
    <3>2. i < k
      BY <3>1
    <3>3. QED
      BY <1>4, <3>2
  <2>3. QED
    BY <2>1, <2>2
<1>6. PICK s : s = InOrder(S, before)
  OBVIOUS
<1>7. /\ Cardinality(S) \in Nat /\ s \in [1..Cardinality(S) -> S]
      /\ \A i \in S : \E k \in 1..Cardinality(S) : s[k] = i
  BY ONLY <1>3, <1>5, <1>6, InOrderPlaces
<1>8. s = Positions(kinds, set)
  BY <1>1, <1>2, <1>6 DEF Positions
<1>9. s \in Seq(1..n) /\ Len(s) = Cardinality(S)
  <2>1. \A k \in 1..Cardinality(S) : s[k] \in 1..n
    BY <1>1, <1>7
  <2>2. s \in Seq(S) /\ Len(s) = Cardinality(S)
    BY <1>7
  <2>3. S \subseteq 1..n
    BY <1>1
  <2>4. QED
    BY <2>2, <2>3, SeqMonotonic
<1>10. QED
  BY <1>1, <1>7, <1>8, <1>9 DEF Has

\* A plan does its operation once for each position.
LEMMA PlanIs ==
  ASSUME NEW n \in Nat, NEW op \in {"answer", "send", "escalate"}, NEW s \in Seq(1..n)
  PROVE  /\ Plan(op, s) \in Seq(Ops(n))
         /\ \A i \in 1..n : Has(s, i) => Has(Plan(op, s), <<op, i>>)
<1>1. DOMAIN s = 1..Len(s) /\ Len(s) \in Nat /\ \A k \in 1..Len(s) : s[k] \in 1..n
  OBVIOUS
<1>2. PICK t : t = Plan(op, s)
  OBVIOUS
<1>3. t = [k \in 1..Len(s) |-> <<op, s[k]>>]
  BY <1>1, <1>2 DEF Plan
<1>4. t \in Seq(Ops(n)) /\ Len(t) = Len(s) /\ \A k \in 1..Len(s) : t[k] = <<op, s[k]>>
  <2>1. \A k \in 1..Len(s) : <<op, s[k]>> \in Ops(n)
    BY <1>1 DEF Ops
  <2>2. QED
    BY <1>1, <1>3, <2>1
<1>5. QED
  BY <1>2, <1>4 DEF Has

\* Of the calls sent in one go, those of an unknown name are answered instead.
LEMMA SendAllIs ==
  ASSUME NEW n \in Nat, NEW K, NEW kinds \in [1..n -> K], NEW s \in Seq(1..n)
  PROVE  /\ SendAll(kinds, s) \in Seq(Ops(n))
         /\ \A i \in 1..n : kinds[i] = "unknown" /\ Has(s, i) => Has(SendAll(kinds, s), <<"answer", i>>)
<1>1. DOMAIN s = 1..Len(s) /\ Len(s) \in Nat /\ \A k \in 1..Len(s) : s[k] \in 1..n
  OBVIOUS
<1>2. PICK t : t = SendAll(kinds, s)
  OBVIOUS
<1>3. t = [k \in 1..Len(s) |-> <<IF kinds[s[k]] = "unknown" THEN "answer" ELSE "send", s[k]>>]
  BY <1>1, <1>2 DEF SendAll
<1>4. /\ t \in Seq(Ops(n)) /\ Len(t) = Len(s)
      /\ \A k \in 1..Len(s) : t[k] = <<IF kinds[s[k]] = "unknown" THEN "answer" ELSE "send", s[k]>>
  <2>1. \A k \in 1..Len(s) : <<IF kinds[s[k]] = "unknown" THEN "answer" ELSE "send", s[k]>> \in Ops(n)
    BY <1>1 DEF Ops
  <2>2. QED
    BY <1>1, <1>3, <2>1
<1>5. ASSUME NEW i \in 1..n, kinds[i] = "unknown", Has(s, i)
      PROVE  Has(t, <<"answer", i>>)
  <2>1. PICK k \in 1..Len(s) : s[k] = i
    BY <1>5 DEF Has
  <2>2. t[k] = <<"answer", i>>
    BY <1>4, <1>5, <2>1
  <2>3. QED
    BY <1>4, <2>2 DEF Has
<1>6. QED
  BY <1>2, <1>4, <1>5

\* Unless it escalates, the plan answers every call of the model.
LEMMA PlanAnswersAll ==
  ASSUME NEW n \in Nat, NEW kinds \in [1..n -> Kinds]
  PROVE  /\ PlanFor(kinds) \in Seq(Ops(n))
         /\ \/ \E i \in 1..n : Has(PlanFor(kinds), <<"escalate", i>>)
            \/ \A i \in 1..n : Has(PlanFor(kinds), <<"answer", i>>)
<1>1. DOMAIN kinds = 1..n /\ \A i \in 1..n : kinds[i] \in {"kb", "sdk", "unknown", "escalate"}
  BY BoundsAssumption
<1>2. PICK a : a = Plan("answer", Positions(kinds, {"kb"}))
  OBVIOUS
<1>3. a \in Seq(Ops(n)) /\ \A i \in 1..n : kinds[i] = "kb" => Has(a, <<"answer", i>>)
  BY <1>2, PositionsAre, PlanIs
<1>4. CASE \E i \in 1..n : kinds[i] = "escalate"
  <2>1. PICK s : s = Positions(kinds, {"escalate"})
    OBVIOUS
  <2>2. PICK i \in 1..n : Has(s, i)
    BY <1>4, <2>1, PositionsAre
  <2>3. s \in Seq(1..n) /\ s # <<>>
    <3>1. s \in Seq(1..n)
      BY <2>1, PositionsAre
    <3>2. \E k \in 1..Len(s) : TRUE
      BY <2>2 DEF Has
    <3>3. QED
      BY <3>1, <3>2
  <2>4. Head(s) \in 1..n
    BY <2>3, HeadTailProperties
  <2>5. PICK b : b = <<<<"escalate", Head(s)>>>>
    OBVIOUS
  <2>6. b \in Seq(Ops(n)) /\ Has(b, <<"escalate", Head(s)>>)
    BY <2>4, <2>5 DEF Ops, Has
  <2>7. PlanFor(kinds) = a \o b
    BY <1>1, <1>2, <1>4, <2>1, <2>5 DEF PlanFor
  <2>8. a \o b \in Seq(Ops(n)) /\ Has(a \o b, <<"escalate", Head(s)>>)
    BY ONLY <1>3, <2>6, ConcatProperties, HasConcat
  <2>9. QED
    BY <2>4, <2>7, <2>8
<1>5. CASE ~\E i \in 1..n : kinds[i] = "escalate"
  <2>1. PICK b : b = SendAll(kinds, Positions(kinds, {"sdk", "unknown"}))
    OBVIOUS
  <2>2. b \in Seq(Ops(n)) /\ \A i \in 1..n : kinds[i] = "unknown" => Has(b, <<"answer", i>>)
    BY <2>1, PositionsAre, SendAllIs
  <2>3. PICK c : c = Plan("answer", Positions(kinds, {"sdk"}))
    OBVIOUS
  <2>4. c \in Seq(Ops(n)) /\ \A i \in 1..n : kinds[i] = "sdk" => Has(c, <<"answer", i>>)
    BY <2>3, PositionsAre, PlanIs
  <2>5. PlanFor(kinds) = a \o (b \o c)
    BY <1>1, <1>2, <1>5, <2>1, <2>3 DEF PlanFor
  <2>6. PICK d : d = b \o c
    OBVIOUS
  <2>7. d \in Seq(Ops(n)) /\ \A x : Has(b, x) \/ Has(c, x) => Has(d, x)
    BY ONLY <2>2, <2>4, <2>6, ConcatProperties, HasConcat
  <2>8. a \o d \in Seq(Ops(n)) /\ \A x : Has(a, x) \/ Has(d, x) => Has(a \o d, x)
    BY ONLY <1>3, <2>7, ConcatProperties, HasConcat
  <2>9. \A i \in 1..n : Has(a \o d, <<"answer", i>>)
    BY <1>1, <1>3, <1>5, <2>2, <2>4, <2>7, <2>8
  <2>10. QED
    BY <2>5, <2>6, <2>8, <2>9
<1>6. QED
  BY <1>4, <1>5

-----------------------------------------------------------------------------
\* What is stored and about to be.
StoreInv ==
  /\ log \in Seq(Good)
  /\ Numbered
  /\ draft[1] \in Good
  /\ pc = "commit" => draft[1].seq \in 1..(Len(log) + 1) /\ draft[2] \in AfterCommit
  /\ reply \in [Humans -> -1..(Len(log) + 1)]

\* What the model is shown.
ContextInv ==
  /\ window \in Windows
  /\ context \in Seq(Good)
  /\ Len(context) <= window

\* What is left to do about its calls.
PlanInv == \E n \in Nat : plan \in Seq(Ops(n))

\* Where the turn is.
RoundInv ==
  /\ pc \in {"start", "commit", "load", "route", "model", "tools", "exhausted", "escalated",
             "completeOnly", "complete", "feedback", "report", "over", "silent"}
  /\ round \in 0..MaxRounds
  /\ pc = "start" \/ (pc = "commit" /\ draft[2] = "load") => round = 0
  /\ pc \in {"model", "tools"} => round < MaxRounds
  /\ pc = "load" /\ round > 0 => round < MaxRounds
  /\ pc = "commit" /\ draft[2] = "tools" => round < MaxRounds
  /\ faults \in 0..MaxFaults

LoopInv == StoreInv /\ ContextInv /\ PlanInv /\ RoundInv

\* A message of the turn gets a number that no message in the log has.
LEMMA StoreGood ==
  ASSUME StoreInv, NEW role \in Roles, NEW calls \in Seq(CallIds), IsInjective(calls),
         NEW call \in CallIds \union {NoCall}, NEW then, Store(role, calls, call, then)
  PROVE  /\ pc' = "commit" /\ draft'[2] = then
         /\ draft'[1] \in Good
         /\ draft'[1].role = role /\ draft'[1].calls = calls /\ draft'[1].call = call
         /\ draft'[1].seq \in 1..(Len(log) + 1)
         /\ \A i \in 1..Len(log) : log[i].seq < draft'[1].seq
<1>1. MaxSeq \in 0..Len(log) /\ \A i \in 1..Len(log) : log[i].seq <= MaxSeq
  BY MaxSeqBounds DEF StoreInv
<1>2. PICK s : s = MaxSeq + 1
  OBVIOUS
<1>3. /\ s \in 1..(Len(log) + 1) /\ s \in Nat
      /\ \A i \in 1..Len(log) : log[i].seq < s
  BY <1>1, <1>2 DEF StoreInv, Numbered
<1>4. draft' = <<Message(role, s, calls, call), then>> /\ pc' = "commit"
  BY <1>2 DEF Store
<1>5. PICK m : m = Message(role, s, calls, call)
  OBVIOUS
<1>6. m \in Good /\ m.role = role /\ m.calls = calls /\ m.call = call /\ m.seq = s
  BY <1>3, <1>5 DEF Message, Good, Messages
<1>7. draft'[1] = m /\ draft'[2] = then
  BY <1>4, <1>5
<1>8. QED
  BY <1>3, <1>4, <1>6, <1>7

\* The first of the plan.
LEMMA HeadOfPlan ==
  ASSUME NEW n \in Nat, plan \in Seq(Ops(n)), plan # <<>>
  PROVE  /\ Head(plan) = plan[1] /\ Head(plan) = <<Head(plan)[1], Head(plan)[2]>>
         /\ Head(plan)[2] \in 1..n
         /\ Tail(plan) \in Seq(Ops(n))
         /\ \A x : Has(plan, x) => x = Head(plan) \/ Has(Tail(plan), x)
<1>1. /\ Head(plan) \in Ops(n) /\ Tail(plan) \in Seq(Ops(n)) /\ Len(Tail(plan)) = Len(plan) - 1
      /\ \A i \in 1..Len(Tail(plan)) : Tail(plan)[i] = plan[i + 1]
  BY HeadTailProperties
<1>2. Head(plan) = plan[1] /\ Len(plan) \in Nat
  OBVIOUS
<1>3. ASSUME NEW x, Has(plan, x), x # Head(plan) PROVE Has(Tail(plan), x)
  <2>1. PICK k \in 1..Len(plan) : plan[k] = x
    BY <1>3 DEF Has
  <2>2. PICK j : j = k - 1
    OBVIOUS
  <2>3. j \in 1..Len(Tail(plan)) /\ j + 1 = k
    BY <1>1, <1>2, <1>3, <2>1, <2>2
  <2>4. Tail(plan)[j] = x
    BY <1>1, <2>1, <2>3
  <2>5. QED
    BY <2>3, <2>4 DEF Has
<1>4. QED
  BY <1>1, <1>2, <1>3 DEF Ops

\* The call at the head of the plan is a call of this round.
LEMMA CallIsId ==
  ASSUME PlanInv, RoundInv, plan # <<>>
  PROVE  <<round, Head(plan)[2]>> \in CallIds
<1>1. PICK n \in Nat : plan \in Seq(Ops(n))
  BY DEF PlanInv
<1>2. Head(plan)[2] \in 1..n
  BY <1>1, HeadOfPlan
<1>3. QED
  BY <1>2, BoundsAssumption DEF RoundInv, CallIds

\* The calls of the current round.
CallsOf(n) == [i \in 1..n |-> <<round, i>>]

\* The calls of a round are different from each other.
LEMMA CallsOfAre ==
  ASSUME RoundInv, NEW n \in Nat
  PROVE  CallsOf(n) \in Seq(CallIds) /\ IsInjective(CallsOf(n))
<1>1. \A i \in 1..n : <<round, i>> \in CallIds
  BY BoundsAssumption DEF RoundInv, CallIds
<1>2. CallsOf(n) \in Seq(CallIds)
  BY <1>1 DEF CallsOf
<1>3. IsInjective(CallsOf(n))
  BY DEF CallsOf, IsInjective
<1>4. QED
  BY <1>2, <1>3

\* Which messages the turn stores.
LEMMA Stores ==
  ASSUME StoreInv, PlanInv, RoundInv,
         \/ Start \/ Answer \/ CallTools \/ AnswerCall \/ EscalateCall
         \/ (pc = "route" /\ Store("assistant", <<>>, NoCall, "completeOnly"))
  PROVE  /\ pc' = "commit" /\ draft'[1] \in Good /\ draft'[2] \in AfterCommit
         /\ draft'[1].seq \in 1..(Len(log) + 1)
         /\ draft'[1].role # "human_agent"
         /\ \A i \in 1..Len(log) : log[i].seq < draft'[1].seq
         /\ draft'[2] = "load" => pc = "start"
         /\ draft'[2] = "tools" => pc \in {"model", "tools"}
<1>1. <<>> \in Seq(CallIds) /\ IsInjective(<<>>) /\ NoCall \in CallIds \union {NoCall}
  BY DEF IsInjective
<1>3. ASSUME NEW role \in {"user", "assistant", "tool_call", "tool_result"},
             NEW calls \in Seq(CallIds), IsInjective(calls), NEW call \in CallIds \union {NoCall},
             NEW then \in AfterCommit, Store(role, calls, call, then),
             then = "load" => pc = "start", then = "tools" => pc \in {"model", "tools"}
      PROVE  /\ pc' = "commit" /\ draft'[1] \in Good /\ draft'[2] \in AfterCommit
             /\ draft'[1].seq \in 1..(Len(log) + 1)
             /\ draft'[1].role # "human_agent"
             /\ \A i \in 1..Len(log) : log[i].seq < draft'[1].seq
             /\ draft'[2] = "load" => pc = "start"
             /\ draft'[2] = "tools" => pc \in {"model", "tools"}
  <2>1. role \in Roles /\ role # "human_agent"
    BY DEF Roles
  <2>2. /\ pc' = "commit" /\ draft'[2] = then
        /\ draft'[1] \in Good /\ draft'[1].role = role
        /\ draft'[1].seq \in 1..(Len(log) + 1)
        /\ \A i \in 1..Len(log) : log[i].seq < draft'[1].seq
    BY <1>3, <2>1, StoreGood
  <2>3. QED
    BY <1>3, <2>1, <2>2
<1> HIDE DEF NoCall
<1>4. CASE Start \/ Answer \/ (pc = "route" /\ Store("assistant", <<>>, NoCall, "completeOnly"))
  <2>2. PICK role \in {"user", "assistant"} : \E then \in {"load", "complete", "completeOnly"} :
          Store(role, <<>>, NoCall, then) /\ (then = "load" => pc = "start")
    BY <1>4 DEF Start, Answer
  <2>3. PICK then \in {"load", "complete", "completeOnly"} :
          Store(role, <<>>, NoCall, then) /\ (then = "load" => pc = "start")
    BY <2>2
  <2>4. then \in AfterCommit /\ then # "tools" /\ (then = "load" => pc = "start")
    BY <2>3 DEF AfterCommit
  <2>5. role \in {"user", "assistant", "tool_call", "tool_result"}
    OBVIOUS
  <2>6. QED
    BY <1>1, <1>3, <2>3, <2>4, <2>5
<1>5. CASE CallTools
  <2>1. PICK n \in 1..MaxCalls : Store("tool_call", CallsOf(n), NoCall, "tools") /\ pc = "model"
    BY <1>5 DEF CallTools, CallsOf
  <2>2. CallsOf(n) \in Seq(CallIds) /\ IsInjective(CallsOf(n))
    BY CallsOfAre
  <2>3. "tools" \in AfterCommit /\ "tools" # "load" /\ "tool_call" \in {"user", "assistant", "tool_call", "tool_result"}
    BY DEF AfterCommit
  <2>4. QED
    BY <1>1, <1>3, <2>1, <2>2, <2>3
<1>6. CASE AnswerCall \/ EscalateCall
  <2>1. PICK then \in {"tools", "escalated"} :
          Store("tool_result", <<>>, <<round, Head(plan)[2]>>, then) /\ pc = "tools" /\ plan # <<>>
    BY <1>6 DEF AnswerCall, EscalateCall, ToolResult
  <2>2. <<round, Head(plan)[2]>> \in CallIds \union {NoCall}
    BY <2>1, CallIsId
  <2>3. then \in AfterCommit /\ then # "load" /\ "tool_result" \in {"user", "assistant", "tool_call", "tool_result"}
    BY DEF AfterCommit
  <2>4. QED
    BY <1>1, <1>3, <2>1, <2>2, <2>3
<1>7. QED
  BY <1>4, <1>5, <1>6

\* Who stores a message, and what the others leave alone.
Storing ==
  \/ Start \/ Answer \/ CallTools \/ AnswerCall \/ EscalateCall
  \/ (pc = "route" /\ Store("assistant", <<>>, NoCall, "completeOnly"))

\* What a step can do to the log, the draft and the numbers that humans hold: store a
\* message, commit one, or leave them alone.
LEMMA Frame ==
  ASSUME [Next]_vars
  PROVE  /\ window' = window
         /\ \/ Storing /\ UNCHANGED <<log, reply>>
            \/ Commit
            \/ (\E h \in Humans : HumanNumber(h) \/ HumanCommit(h)) /\ UNCHANGED <<pc, draft>>
            \/ UNCHANGED <<log, reply>> /\ (pc' = "commit" => pc = "commit")
               /\ (draft' = draft \/ (draft' = NoDraft /\ pc' # "commit"))
<1>1. window' = window
  BY DEF Next, TurnStep, Vanish, Start, Commit, Load, Route, ModelFails, Answer, AnswerNothing, CallTools,
         AnswerCall, SendCall, EscalateCall, NextRound, Exhausted, Escalated, Reject, Complete, Feedback,
         Report, Fail, HumanNumber, HumanCommit, vars
<1>2. CASE Start \/ Answer \/ CallTools \/ AnswerCall \/ EscalateCall
  BY <1>1, <1>2 DEF Storing, Start, Answer, CallTools, AnswerCall, EscalateCall
<1>3. CASE Route
  BY <1>1, <1>3 DEF Storing, Route, GoTo
<1>4. CASE Commit
  BY <1>1, <1>4
<1>5. CASE \E h \in Humans : HumanNumber(h) \/ HumanCommit(h)
  BY <1>1, <1>5 DEF HumanNumber, HumanCommit
<1>6. CASE Vanish \/ Load \/ ModelFails \/ AnswerNothing \/ SendCall \/ NextRound \/ Exhausted \/ Escalated
           \/ Reject \/ Complete \/ Feedback \/ Report
  BY <1>1, <1>6 DEF Vanish, Load, ModelFails, AnswerNothing, SendCall, NextRound, Exhausted, Escalated,
                    Reject, Complete, Feedback, Report, GoTo
<1>7. CASE Fail \/ UNCHANGED vars
  BY <1>1, <1>7 DEF Fail, vars
<1>8. QED
  BY <1>2, <1>3, <1>4, <1>5, <1>6, <1>7 DEF Next, TurnStep

\* A message at the end of the log keeps the others and their numbers.
LEMMA AppendToLog ==
  ASSUME StoreInv, NEW m \in Good, m.seq \in 1..(Len(log) + 1), log' = Append(log, m)
  PROVE  /\ log' \in Seq(Good) /\ Len(log') = Len(log) + 1 /\ Numbered'
         /\ \A i \in 1..Len(log) : log'[i] = log[i]
         /\ log'[Len(log) + 1] = m
<1>1. /\ log' \in Seq(Good) /\ Len(log') = Len(log) + 1 /\ Len(log) \in Nat
      /\ \A i \in 1..Len(log) : log'[i] = log[i]
      /\ log'[Len(log) + 1] = m
  BY AppendProperties DEF StoreInv
<1>2. ASSUME NEW i \in 1..Len(log') PROVE log'[i].seq \in 1..Len(log')
  <2>1. i \in 1..Len(log) \/ i = Len(log) + 1
    BY <1>1
  <2>2. QED
    BY <1>1, <2>1 DEF StoreInv, Numbered
<1>3. QED
  BY <1>1, <1>2 DEF Numbered

\* Every step keeps the numbering of the log and of what is about to enter it.
LEMMA StoreStep ==
  ASSUME LoopInv, [Next]_vars
  PROVE  StoreInv'
<1>1. Len(log) \in Nat
  BY DEF LoopInv, StoreInv
<1>2. CASE Storing /\ UNCHANGED <<log, reply>>
  <2>1. /\ draft'[1] \in Good /\ draft'[2] \in AfterCommit
        /\ draft'[1].seq \in 1..(Len(log) + 1)
    BY <1>2, Stores DEF LoopInv, Storing
  <2>2. QED
    BY <1>2, <2>1 DEF LoopInv, StoreInv, Numbered
<1>3. CASE Commit
  <2>1. /\ log' = Append(log, draft[1]) /\ draft' = NoDraft /\ reply' = reply
        /\ pc = "commit" /\ pc' = draft[2] /\ draft[2] # "commit"
    BY <1>3 DEF Commit, GoTo, LoopInv, StoreInv, AfterCommit
  <2>2. log' \in Seq(Good) /\ Len(log') = Len(log) + 1 /\ Numbered'
    BY <2>1, AppendToLog DEF LoopInv, StoreInv
  <2>3. draft'[1] \in Good
    BY <2>1, NoBlockIsGood DEF NoBlock, Blocks
  <2>4. reply' \in [Humans -> -1..(Len(log') + 1)]
    <3>1. -1..(Len(log) + 1) \subseteq -1..(Len(log') + 1)
      BY <1>1, <2>2
    <3>2. QED
      BY <2>1, <3>1 DEF LoopInv, StoreInv
  <2>5. QED
    BY <2>1, <2>2, <2>3, <2>4 DEF StoreInv
<1>4. ASSUME NEW h \in Humans, HumanNumber(h)
      PROVE  StoreInv'
  <2>1. reply' = [reply EXCEPT ![h] = MaxSeq + 1] /\ UNCHANGED <<log, pc, draft>>
    BY <1>4 DEF HumanNumber
  <2>2. MaxSeq + 1 \in -1..(Len(log) + 1)
    BY <1>1, MaxSeqBounds DEF LoopInv, StoreInv
  <2>3. QED
    BY <2>1, <2>2 DEF LoopInv, StoreInv, Numbered
<1>5. ASSUME NEW h \in Humans, HumanCommit(h)
      PROVE  StoreInv'
  <2>1. PICK m : m = Message("human_agent", reply[h], <<>>, NoCall)
    OBVIOUS
  <2>2. /\ log' = Append(log, m) /\ reply' = [reply EXCEPT ![h] = -1] /\ reply[h] > 0
        /\ UNCHANGED <<pc, draft>>
    BY <1>5, <2>1 DEF HumanCommit
  <2>3. reply[h] \in 1..(Len(log) + 1)
    BY <1>1, <2>2 DEF LoopInv, StoreInv
  <2>4. m \in Good /\ m.seq = reply[h]
    BY <1>1, <2>1, <2>3 DEF Message, Good, Messages, Roles, IsInjective
  <2>5. log' \in Seq(Good) /\ Len(log') = Len(log) + 1 /\ Numbered'
    BY <2>2, <2>3, <2>4, AppendToLog DEF LoopInv
  <2>6. reply' \in [Humans -> -1..(Len(log') + 1)]
    <3>1. -1..(Len(log) + 1) \subseteq -1..(Len(log') + 1) /\ -1 \in -1..(Len(log') + 1)
      BY <1>1, <2>5
    <3>2. QED
      BY <2>2, <3>1 DEF LoopInv, StoreInv
  <2>7. 1..(Len(log) + 1) \subseteq 1..(Len(log') + 1)
    BY <1>1, <2>5
  <2>8. QED
    BY <2>2, <2>5, <2>6, <2>7 DEF LoopInv, StoreInv
<1>6. CASE /\ UNCHANGED <<log, reply>> /\ (pc' = "commit" => pc = "commit")
           /\ draft' = draft \/ (draft' = NoDraft /\ pc' # "commit")
  <2>1. NoDraft[1] \in Good
    BY NoBlockIsGood DEF NoBlock, Blocks
  <2>2. QED
    BY <1>6, <2>1 DEF LoopInv, StoreInv, Numbered
<1>7. QED
  BY <1>2, <1>3, <1>4, <1>5, <1>6, Frame

\* Every step keeps the context well formed and within its window.
LEMMA ContextStep ==
  ASSUME LoopInv, [Next]_vars
  PROVE  ContextInv'
<1>1. window' = window /\ window \in Nat \ {0}
  BY Frame, BoundsAssumption DEF LoopInv, ContextInv
<1>2. CASE Load
  <2>1. PICK f \in BOOLEAN : context' = LoadContext(f)
    BY <1>2 DEF Load
  <2>2. context' \in Seq(Good) /\ Len(context') <= window
    BY <1>1, <2>1, LoadContextIs DEF LoopInv, StoreInv
  <2>3. QED
    BY <1>1, <2>2 DEF LoopInv, ContextInv
<1>3. CASE context' = context \/ context' = <<>>
  <2>1. <<>> \in Seq(Good) /\ Len(<<>>) <= window
    BY <1>1
  <2>2. context' \in Seq(Good) /\ Len(context') <= window
    BY <1>3, <2>1 DEF LoopInv, ContextInv
  <2>3. QED
    BY <1>1, <2>2 DEF LoopInv, ContextInv
<1>4. CASE Vanish \/ Start \/ Commit \/ Route \/ AnswerCall \/ SendCall \/ EscalateCall \/ NextRound
           \/ Escalated \/ Reject \/ Complete \/ Feedback \/ Report
           \/ (\E h \in Humans : HumanNumber(h) \/ HumanCommit(h))
  <2>1. context' = context
    BY <1>4 DEF Vanish, Start, Commit, Route, AnswerCall, SendCall, EscalateCall, NextRound, Escalated,
                Reject, Complete, Feedback, Report, HumanNumber, HumanCommit
  <2>2. QED
    BY <1>3, <2>1
<1>5. CASE ModelFails \/ Answer \/ AnswerNothing \/ CallTools \/ Exhausted \/ Fail \/ UNCHANGED vars
  <2>1. context' = context \/ context' = <<>>
    BY <1>5 DEF ModelFails, Answer, AnswerNothing, CallTools, Exhausted, Fail, vars
  <2>2. QED
    BY <1>3, <2>1
<1>6. QED
  BY <1>2, <1>4, <1>5 DEF Next, TurnStep

\* Every step leaves a plan of operations on positions.
LEMMA PlanStep ==
  ASSUME LoopInv, [Next]_vars
  PROVE  PlanInv'
<1>1. PICK n \in Nat : plan \in Seq(Ops(n))
  BY DEF LoopInv, PlanInv
<1>2. CASE CallTools
  <2>1. PICK k \in 1..MaxCalls : \E kinds \in [1..k -> Kinds] : plan' = PlanFor(kinds)
    BY <1>2 DEF CallTools
  <2>2. k \in Nat
    BY BoundsAssumption
  <2>3. plan' \in Seq(Ops(k))
    BY <2>1, <2>2, PlanAnswersAll
  <2>4. QED
    BY <2>2, <2>3 DEF PlanInv
<1>3. CASE AnswerCall \/ SendCall \/ EscalateCall
  <2>1. plan # <<>> /\ plan' = Tail(plan)
    BY <1>3 DEF AnswerCall, SendCall, EscalateCall
  <2>2. plan' \in Seq(Ops(n))
    BY <1>1, <2>1, HeadOfPlan
  <2>3. QED
    BY <2>2 DEF PlanInv
<1>4. CASE Vanish \/ Start \/ Commit \/ Load \/ Route \/ ModelFails \/ Answer \/ AnswerNothing \/ NextRound
           \/ Exhausted \/ Escalated \/ Reject \/ Complete \/ Feedback \/ Report
           \/ (\E h \in Humans : HumanNumber(h) \/ HumanCommit(h)) \/ UNCHANGED vars
  <2>1. plan' = plan
    BY <1>4 DEF Vanish, Start, Commit, Load, Route, ModelFails, Answer, AnswerNothing, NextRound, Exhausted,
                Escalated, Reject, Complete, Feedback, Report, HumanNumber, HumanCommit, vars
  <2>2. QED
    BY <1>1, <2>1 DEF PlanInv
<1>5. CASE Fail
  <2>1. plan' = <<>>
    BY <1>5 DEF Fail
  <2>2. plan' \in Seq(Ops(n))
    BY <2>1
  <2>3. QED
    BY <2>2 DEF PlanInv
<1>6. QED
  BY <1>2, <1>3, <1>4, <1>5 DEF Next, TurnStep

\* Every step keeps the rounds and the place of the turn.
LEMMA RoundStep ==
  ASSUME LoopInv, [Next]_vars
  PROVE  RoundInv'
<1>1. round \in Nat /\ MaxRounds \in Nat /\ faults \in Nat /\ MaxFaults \in Nat
  BY BoundsAssumption DEF LoopInv, RoundInv
<1>2. CASE Storing /\ round' = round /\ faults' = faults
  <2>1. /\ pc' = "commit"
        /\ draft'[2] = "load" => pc = "start"
        /\ draft'[2] = "tools" => pc \in {"model", "tools"}
    BY <1>2, Stores DEF LoopInv, Storing
  <2>2. draft'[2] = "load" => round = 0
    BY <2>1 DEF LoopInv, RoundInv
  <2>3. draft'[2] = "tools" => round < MaxRounds
    BY <2>1 DEF LoopInv, RoundInv
  <2>4. round' \in 0..MaxRounds /\ faults' \in 0..MaxFaults
    BY <1>2 DEF LoopInv, RoundInv
  <2>5. QED
    BY <1>2, <2>1, <2>2, <2>3, <2>4 DEF RoundInv
<1>3. CASE Start \/ Answer \/ CallTools \/ AnswerCall \/ EscalateCall \/ Route
  <2>1. round' = round /\ faults' = faults
    BY <1>3 DEF Start, Answer, CallTools, AnswerCall, EscalateCall, Route
  <2>2. CASE Storing
    BY <1>2, <2>1, <2>2
  <2>3. CASE ~Storing
    <3>1. GoTo("route", IF round < MaxRounds THEN "model" ELSE "exhausted") /\ UNCHANGED draft
      BY <1>3, <2>3 DEF Storing, Route
    <3>2. QED
      BY <1>1, <2>1, <3>1 DEF GoTo, LoopInv, RoundInv
  <2>4. QED
    BY <2>2, <2>3
<1>4. CASE Commit
  BY <1>1, <1>4 DEF Commit, GoTo, LoopInv, RoundInv, StoreInv, AfterCommit
<1>5. CASE Load
  BY <1>1, <1>5 DEF Load, GoTo, LoopInv, RoundInv
<1>6. CASE NextRound
  <2>1. /\ pc = "tools" /\ round' = round + 1 /\ faults' = faults
        /\ pc' = (IF round + 1 < MaxRounds THEN "load" ELSE "exhausted")
    BY <1>6 DEF NextRound, GoTo
  <2>2. round < MaxRounds /\ faults \in 0..MaxFaults
    BY <2>1 DEF LoopInv, RoundInv
  <2>3. round' \in 0..MaxRounds /\ (pc' = "load" => round' < MaxRounds)
    BY <1>1, <2>1, <2>2
  <2>4. pc' \in {"load", "exhausted"} /\ faults' \in 0..MaxFaults
    BY <2>1, <2>2
  <2>5. QED
    BY <2>3, <2>4 DEF RoundInv
<1>7. CASE SendCall
  BY <1>1, <1>7 DEF SendCall, LoopInv, RoundInv
<1>8. CASE Vanish \/ ModelFails \/ AnswerNothing \/ Exhausted \/ Escalated \/ Reject \/ Complete \/ Feedback
  BY <1>1, <1>8 DEF Vanish, ModelFails, AnswerNothing, Exhausted, Escalated, Reject, Complete, Feedback,
                    GoTo, LoopInv, RoundInv
<1>9. CASE Report \/ Fail
  BY <1>1, <1>9 DEF Report, Fail, GoTo, LoopInv, RoundInv
<1>10. CASE (\E h \in Humans : HumanNumber(h) \/ HumanCommit(h)) \/ UNCHANGED vars
  BY <1>10 DEF HumanNumber, HumanCommit, vars, LoopInv, RoundInv
<1>11. QED
  BY <1>3, <1>4, <1>5, <1>6, <1>7, <1>8, <1>9, <1>10 DEF Next, TurnStep

\* The turn, the messages it stores and the calls it makes keep LoopInv.
LEMMA LoopInvariant == Spec => []LoopInv
<1>1. Init => LoopInv
  <2> SUFFICES ASSUME Init PROVE LoopInv
    OBVIOUS
  <2>1. log \in Seq(Messages) /\ \A m \in ToSet(log) : m.seq \in 1..Len(log) /\ IsInjective(m.calls)
    BY HistoryAssumption DEF Init
  <2>2. DOMAIN log = 1..Len(log) /\ Len(log) \in Nat /\ \A i \in 1..Len(log) : log[i] \in Messages
    BY <2>1
  <2>3. \A i \in 1..Len(log) : log[i] \in Good /\ log[i].seq \in 1..Len(log)
    BY <2>1, <2>2 DEF Good, ToSet
  <2>4. log \in Seq(Good) /\ Numbered
    BY <2>1, <2>2, <2>3 DEF Numbered
  <2>5. draft[1] \in Good
    BY NoBlockIsGood DEF Init, NoBlock, Blocks
  <2>6. reply \in [Humans -> -1..(Len(log) + 1)]
    BY <2>2 DEF Init
  <2>7. StoreInv
    BY <2>4, <2>5, <2>6 DEF StoreInv, Init
  <2>8. ContextInv
    BY BoundsAssumption DEF ContextInv, Init
  <2>9. PlanInv
    <3>1. <<>> \in Seq(Ops(0)) /\ 0 \in Nat
      OBVIOUS
    <3>2. QED
      BY <3>1 DEF PlanInv, Init
  <2>10. RoundInv
    BY BoundsAssumption DEF RoundInv, Init
  <2>11. QED
    BY <2>7, <2>8, <2>9, <2>10 DEF LoopInv
<1>2. LoopInv /\ [Next]_vars => LoopInv'
  BY StoreStep, ContextStep, PlanStep, RoundStep DEF LoopInv
<1>3. QED
  BY <1>1, <1>2, PTL DEF Spec

\* Whatever is interleaved, abandoned or cut off by the window, the model is shown
\* a conversation that providers accept: every tool call is followed by exactly its
\* results, and no result stands alone.
THEOREM PromptsAreWellFormed == Spec => []WellFormedPrompt
<1>1. LoopInv => WellFormedPrompt
  <2>1. SUFFICES ASSUME LoopInv PROVE WellFormedPrompt
    OBVIOUS
  <2>2. WellFormed(Prompt(context))
    BY <2>1, ShownKeeps DEF LoopInv, ContextInv, Prompt, ShowInv
  <2>3. QED
    BY <2>2 DEF WellFormedPrompt, WellFormed, Block
<1>2. QED
  BY <1>1, LoopInvariant, PTL

-----------------------------------------------------------------------------
\* A call of the round r is shown with its results.
ShownRound(r) ==
  \E m \in ToSet(Shown(log).out) :
    m.role = "tool_call" /\ m.calls # <<>> /\ \A id \in ToSet(m.calls) : id[1] = r

Increasing == \A i, j \in 1..Len(log) : i < j => log[i].seq < log[j].seq

\* The block of the current round misses some of its n results, and each of those
\* will be answered, or is being stored.
Open(n) ==
  LET b == Shown(log).block
  IN  /\ b.call.role = "tool_call" /\ b.call.calls = CallsOf(n)
      /\ Collected(b) # ToSet(CallsOf(n))
      /\ plan \in Seq(Ops(n))
      /\ pc = "commit" => draft[1].call \in ToSet(CallsOf(n))
      /\ \A i \in 1..n : \/ <<round, i>> \in Collected(b)
                         \/ Has(plan, <<"answer", i>>)
                         \/ pc = "commit" /\ draft[1].call = <<round, i>>

Escalating == \E i \in Nat : Has(plan, <<"escalate", i>>)

\* The tool_call of the round is being stored; then the turn waits for results.
Calling == pc = "commit" /\ draft[2] = "tools" /\ draft[1].role = "tool_call"
Waiting == pc = "tools" \/ (pc = "commit" /\ draft[2] = "tools" /\ draft[1].role = "tool_result")

ResultsInv ==
  ~HumanReplied =>
    /\ Increasing
    /\ pc = "commit" => draft[1].role # "human_agent" /\ \A i \in 1..Len(log) : log[i].seq < draft[1].seq
    /\ pc = "commit" /\ draft[2] = "tools" => draft[1].role \in {"tool_call", "tool_result"}
    /\ \A r \in 0..(round - 1) : ShownRound(r)
    /\ Waiting => Escalating \/ ShownRound(round) \/ \E n \in Nat : Open(n)
    /\ Calling => \E n \in Nat \ {0} : /\ draft[1].calls = CallsOf(n)
                                       /\ plan \in Seq(Ops(n))
                                       /\ Escalating \/ \A i \in 1..n : Has(plan, <<"answer", i>>)
    /\ pc \in {"route", "model"} /\ Len(log) <= window => context = log

\* What was shown stays shown.
LEMMA ShowGrows ==
  ASSUME NEW state, ShowInv(state), NEW m \in Good
  PROVE  ToSet(state.out) \subseteq ToSet(Show(state, m).out)
<1> DEFINE b == state.block
           out == state.out
<1>1. out \in Seq(Good) /\ b \in Blocks /\ state = [out |-> out, block |-> b] /\ Collecting(b)
  BY DEF ShowInv
<1>2. ASSUME NEW q \in Seq(Good), Len(out) <= Len(q), \A i \in 1..Len(out) : q[i] = out[i]
      PROVE  ToSet(out) \subseteq ToSet(q)
  <2>1. DOMAIN out = 1..Len(out) /\ DOMAIN q = 1..Len(q) /\ Len(out) \in Nat /\ Len(q) \in Nat
    BY <1>1
  <2>2. \A i \in 1..Len(out) : i \in 1..Len(q) /\ out[i] = q[i]
    BY <1>2, <2>1
  <2>3. QED
    BY <2>1, <2>2 DEF ToSet
<1>3. ASSUME NEW more \in Blocks
      PROVE  ToSet(out) \subseteq ToSet(CloseBlock(out, more).out)
  <2>1. CloseBlock(out, more).out = out \/ CloseBlock(out, more).out = out \o <<more.call>> \o more.results
    BY DEF CloseBlock
  <2>2. PICK s : s = out \o <<more.call>>
    OBVIOUS
  <2>3. <<more.call>> \in Seq(Good) /\ more.results \in Seq(Good)
    BY DEF Blocks
  <2>4. /\ s \in Seq(Good) /\ Len(s) = Len(out) + Len(<<more.call>>)
        /\ \A i \in 1..(Len(out) + Len(<<more.call>>)) :
             s[i] = IF i <= Len(out) THEN out[i] ELSE <<more.call>>[i - Len(out)]
    BY <1>1, <2>2, <2>3, ConcatProperties
  <2>5. Len(<<more.call>>) = 1 /\ Len(out) \in Nat
    BY <1>1
  <2>6. s \in Seq(Good) /\ Len(out) <= Len(s) /\ \A i \in 1..Len(out) : s[i] = out[i]
    BY <2>4, <2>5
  <2>7. PICK q : q = s \o more.results
    OBVIOUS
  <2>8. /\ q \in Seq(Good) /\ Len(q) = Len(s) + Len(more.results)
        /\ \A i \in 1..(Len(s) + Len(more.results)) :
             q[i] = IF i <= Len(s) THEN s[i] ELSE more.results[i - Len(s)]
    BY ONLY <2>3, <2>6, <2>7, ConcatProperties
  <2>9. Len(more.results) \in Nat /\ Len(s) \in Nat
    BY <2>3, <2>6
  <2>10. Len(out) <= Len(q) /\ \A i \in 1..Len(out) : q[i] = out[i]
    BY <2>5, <2>6, <2>8, <2>9
  <2>11. ToSet(out) \subseteq ToSet(q)
    BY <1>2, <2>8, <2>10
  <2>12. QED
    BY <2>1, <2>2, <2>7, <2>11
<1>4. CASE m.role = "tool_call"
  BY <1>4 DEF Show
<1>5. CASE m.role = "tool_result" /\ m.call \notin ToSet(b.call.calls)
  <2>1. Show(state, m) = [state EXCEPT !.block = NoBlock]
    BY <1>5 DEF Show
  <2>2. Show(state, m) = [out |-> out, block |-> NoBlock]
    BY <1>1, <2>1
  <2>3. QED
    BY <2>2
<1>6. CASE m.role = "tool_result" /\ m.call \in ToSet(b.call.calls) /\ m.call \in Collected(b)
  <2>1. {r.call : r \in ToSet(b.results)} = Collected(b)
    BY <1>1, CollectedIds
  <2>2. Show(state, m) = state
    BY <1>6, <2>1 DEF Show
  <2>3. QED
    BY <2>2
<1>7. CASE m.role = "tool_result" /\ m.call \in ToSet(b.call.calls) /\ m.call \notin Collected(b)
  <2>1. {r.call : r \in ToSet(b.results)} = Collected(b)
    BY <1>1, CollectedIds
  <2>2. PICK more : more = [b EXCEPT !.results = Append(@, m)]
    OBVIOUS
  <2>3. Show(state, m) = CloseBlock(out, more)
    BY <1>7, <2>1, <2>2 DEF Show
  <2>4. more \in Blocks
    BY <1>1, <1>7, <2>2, CollectOne
  <2>5. QED
    BY <1>3, <2>3, <2>4
<1>8. CASE m.role \notin {"tool_call", "tool_result"}
  <2>1. Show(state, m).out = Append(out, m)
    BY <1>8 DEF Show
  <2>2. PICK q : q = Append(out, m)
    OBVIOUS
  <2>3. q \in Seq(Good) /\ Len(q) = Len(out) + 1 /\ \A i \in 1..Len(out) : q[i] = out[i]
    BY <1>1, <2>2, AppendProperties
  <2>4. Len(out) <= Len(q)
    BY <1>1, <2>3
  <2>5. QED
    BY <1>2, <2>1, <2>2, <2>3, <2>4
<1>9. QED
  BY <1>4, <1>5, <1>6, <1>7, <1>8

\* A result of the open block closes it, is a second one, or brings it forward.
LEMMA ShowResult ==
  ASSUME NEW state, ShowInv(state), NEW m \in Good, m.role = "tool_result",
         state.block.call.role = "tool_call", m.call \in ToSet(state.block.call.calls),
         Collected(state.block) # ToSet(state.block.call.calls)
  PROVE  \/ state.block.call \in ToSet(Show(state, m).out)
         \/ /\ Show(state, m).block.call = state.block.call
            /\ Collected(Show(state, m).block) = Collected(state.block) \union {m.call}
            /\ Collected(Show(state, m).block) # ToSet(state.block.call.calls)
<1> DEFINE b == state.block
           out == state.out
<1>1. out \in Seq(Good) /\ b \in Blocks /\ Collecting(b)
  BY DEF ShowInv
<1>2. {r.call : r \in ToSet(b.results)} = Collected(b)
  BY <1>1, CollectedIds
<1>3. CASE m.call \in Collected(b)
  <2>1. Show(state, m) = state
    BY <1>2, <1>3 DEF Show
  <2>2. Collected(b) = Collected(b) \union {m.call}
    BY <1>3
  <2>3. QED
    BY <2>1, <2>2
<1>4. CASE m.call \notin Collected(b)
  <2>1. PICK more : more = [b EXCEPT !.results = Append(@, m)]
    OBVIOUS
  <2>2. Show(state, m) = CloseBlock(out, more)
    BY <1>2, <1>4, <2>1 DEF Show
  <2>3. more \in Blocks /\ more.call = b.call /\ Collected(more) = Collected(b) \union {m.call}
    BY <1>1, <1>4, <2>1, CollectOne
  <2>4. {r.call : r \in ToSet(more.results)} = Collected(more)
    BY <2>3, CollectedIds
  <2>5. CASE Collected(more) = ToSet(more.call.calls)
    <3>1. Show(state, m) = [out |-> out \o <<more.call>> \o more.results, block |-> NoBlock]
      BY <2>2, <2>4, <2>5 DEF CloseBlock
    <3>2. PICK s, q : s = out \o <<more.call>> /\ q = s \o more.results
      OBVIOUS
    <3>3. <<more.call>> \in Seq(Good) /\ more.results \in Seq(Good) /\ Has(<<more.call>>, more.call)
      BY <2>3 DEF Blocks, Has
    <3>4. s \in Seq(Good) /\ Has(s, more.call)
      BY ONLY <1>1, <3>2, <3>3, ConcatProperties, HasConcat
    <3>5. q \in Seq(Good) /\ Has(q, more.call)
      BY ONLY <3>2, <3>3, <3>4, ConcatProperties, HasConcat
    <3>6. more.call \in ToSet(q)
      BY <3>5 DEF Has, ToSet
    <3>7. QED
      BY <2>3, <3>1, <3>2, <3>6
  <2>6. CASE Collected(more) # ToSet(more.call.calls)
    <3>1. Show(state, m) = [out |-> out, block |-> more]
      BY <2>2, <2>4, <2>6 DEF CloseBlock
    <3>2. QED
      BY <2>3, <2>6, <3>1
  <2>7. QED
    BY <2>5, <2>6
<1>5. QED
  BY <1>3, <1>4

\* What depends on the log and the round alone.
LEMMA SameLog ==
  ASSUME log' = log, round' = round
  PROVE  /\ HumanReplied' <=> HumanReplied
         /\ Increasing' <=> Increasing
         /\ \A r : ShownRound(r)' <=> ShownRound(r)
         /\ \A n : CallsOf(n)' = CallsOf(n)
         /\ Shown(log)' = Shown(log)
  BY DEF HumanReplied, Increasing, ShownRound, CallsOf

\* A step that stores nothing and waits for nothing.
LEMMA QuietStep ==
  ASSUME LoopInv, ResultsInv, UNCHANGED <<window, log, round>>, pc' \notin {"commit", "tools"},
         pc' \in {"route", "model"} => \/ pc = "route" /\ context' = context
                                       \/ \E f \in BOOLEAN : context' = LoadContext(f)
  PROVE  ResultsInv'
<1> SUFFICES ASSUME ~HumanReplied' PROVE ResultsInv'
  BY DEF ResultsInv
<1>1. /\ ~HumanReplied /\ Increasing'
      /\ \A r \in 0..(round' - 1) : ShownRound(r)'
  BY SameLog DEF ResultsInv
<1>2. ~Waiting' /\ ~Calling'
  BY DEF Waiting, Calling
<1>3. ASSUME pc' \in {"route", "model"}, Len(log') <= window' PROVE context' = log'
  <2>1. CASE pc = "route" /\ context' = context
    BY <1>1, <1>3, <2>1 DEF ResultsInv
  <2>2. CASE \E f \in BOOLEAN : context' = LoadContext(f)
    <3>1. window \in Nat \ {0} /\ log \in Seq(Good)
      BY BoundsAssumption DEF LoopInv, ContextInv, StoreInv
    <3>2. \A i, j \in 1..Len(log) : i < j => log[i].seq < log[j].seq
      BY <1>1, SameLog DEF Increasing
    <3>3. QED
      BY <1>3, <2>2, <3>1, <3>2, LoadContextIs
  <2>3. QED
    BY <1>3, <2>1, <2>2
<1>4. QED
  BY <1>1, <1>2, <1>3 DEF ResultsInv

\* A message is about to be stored that does not belong to a round.
LEMMA StoreOtherStep ==
  ASSUME LoopInv, ResultsInv, Storing, UNCHANGED <<window, log, round>>, draft'[2] # "tools"
  PROVE  ResultsInv'
<1> SUFFICES ASSUME ~HumanReplied' PROVE ResultsInv'
  BY DEF ResultsInv
<1>1. /\ ~HumanReplied /\ Increasing'
      /\ \A r \in 0..(round' - 1) : ShownRound(r)'
  BY SameLog DEF ResultsInv
<1>2. /\ pc' = "commit" /\ draft'[1].role # "human_agent"
      /\ \A i \in 1..Len(log) : log[i].seq < draft'[1].seq
  BY Stores DEF LoopInv, Storing
<1>3. ~Waiting' /\ ~Calling'
  BY <1>2 DEF Waiting, Calling
<1>4. QED
  BY <1>1, <1>2, <1>3 DEF ResultsInv

\* A round of calls starts with everything about it still to be answered.
LEMMA CallToolsStep ==
  ASSUME LoopInv, ResultsInv, CallTools
  PROVE  ResultsInv'
<1> SUFFICES ASSUME ~HumanReplied' PROVE ResultsInv'
  BY DEF ResultsInv
<1>1. UNCHANGED <<window, log, round>>
  BY DEF CallTools
<1>2. /\ ~HumanReplied /\ Increasing'
      /\ \A r \in 0..(round' - 1) : ShownRound(r)'
  BY <1>1, SameLog DEF ResultsInv
<1>3. /\ pc' = "commit" /\ draft'[1].role # "human_agent"
      /\ \A i \in 1..Len(log) : log[i].seq < draft'[1].seq
  BY Stores DEF LoopInv
<1>4. PICK n \in 1..MaxCalls :
        /\ Store("tool_call", CallsOf(n), NoCall, "tools")
        /\ \E kinds \in [1..n -> Kinds] : plan' = PlanFor(kinds)
  BY DEF CallTools, CallsOf
<1>5. n \in Nat /\ n # 0
  BY BoundsAssumption
<1>6. draft'[2] = "tools" /\ draft'[1].role = "tool_call" /\ draft'[1].calls = CallsOf(n)
  <2>1. "tool_call" \in Roles /\ CallsOf(n) \in Seq(CallIds) /\ IsInjective(CallsOf(n))
    BY <1>5, CallsOfAre DEF Roles, LoopInv
  <2>2. NoCall \in CallIds \union {NoCall}
    OBVIOUS
  <2>3. QED
    BY <1>4, <2>1, <2>2, StoreGood DEF LoopInv
<1>7. /\ plan' \in Seq(Ops(n))
      /\ (\E i \in 1..n : Has(plan', <<"escalate", i>>)) \/ \A i \in 1..n : Has(plan', <<"answer", i>>)
  BY <1>4, <1>5, PlanAnswersAll
<1>8. Escalating' \/ \A i \in 1..n : Has(plan', <<"answer", i>>)
  BY <1>5, <1>7 DEF Escalating
<1>9. ~Waiting'
  BY <1>3, <1>6 DEF Waiting
<1>10. draft'[1].calls = CallsOf(n)' /\ n \in Nat \ {0}
  BY <1>1, <1>5, <1>6, SameLog
<1>11. QED
  BY <1>1, <1>2, <1>3, <1>6, <1>7, <1>8, <1>9, <1>10 DEF ResultsInv

\* The plan of a waiting turn goes on.
LEMMA AnswerCallStep ==
  ASSUME LoopInv, ResultsInv, AnswerCall
  PROVE  ResultsInv'
<1> SUFFICES ASSUME ~HumanReplied' PROVE ResultsInv'
  BY DEF ResultsInv
<1>1. UNCHANGED <<window, log, round>> /\ pc = "tools" /\ plan # <<>> /\ plan' = Tail(plan)
      /\ Head(plan)[1] = "answer" /\ Store("tool_result", <<>>, <<round, Head(plan)[2]>>, "tools")
  BY DEF AnswerCall, ToolResult
<1>2. /\ ~HumanReplied /\ Increasing'
      /\ \A r \in 0..(round' - 1) : ShownRound(r)'
  BY <1>1, SameLog DEF ResultsInv
<1>3. /\ pc' = "commit" /\ draft'[1].role # "human_agent"
      /\ \A i \in 1..Len(log) : log[i].seq < draft'[1].seq
  BY Stores DEF LoopInv
<1>4. draft'[2] = "tools" /\ draft'[1].role = "tool_result" /\ draft'[1].call = <<round, Head(plan)[2]>>
  <2>1. "tool_result" \in Roles /\ <<>> \in Seq(CallIds) /\ IsInjective(<<>>)
    BY DEF Roles, IsInjective
  <2>2. <<round, Head(plan)[2]>> \in CallIds \union {NoCall}
    BY <1>1, CallIsId DEF LoopInv
  <2>3. QED
    BY <1>1, <2>1, <2>2, StoreGood DEF LoopInv
<1>5. Escalating \/ ShownRound(round) \/ \E n \in Nat : Open(n)
  BY <1>1, <1>2 DEF ResultsInv, Waiting
<1>6. PICK l \in Nat : plan \in Seq(Ops(l))
  BY DEF LoopInv, PlanInv
<1>7. ASSUME NEW x, Has(plan, x), x # Head(plan) PROVE Has(plan', x)
  BY <1>1, <1>6, <1>7, HeadOfPlan
<1>8. CASE Escalating
  <2>1. PICK i \in Nat : Has(plan, <<"escalate", i>>)
    BY <1>8 DEF Escalating
  <2>2. <<"escalate", i>> # Head(plan)
    BY <1>1
  <2>3. Escalating'
    BY <1>7, <2>1, <2>2 DEF Escalating
  <2>4. QED
    BY <1>1, <1>2, <1>3, <1>4, <2>3 DEF ResultsInv, Waiting, Calling
<1>9. CASE ShownRound(round)
  <2>1. ShownRound(round)'
    BY <1>1, <1>9, SameLog
  <2>2. QED
    BY <1>1, <1>2, <1>3, <1>4, <2>1 DEF ResultsInv, Waiting, Calling
<1>10. CASE \E n \in Nat : Open(n)
  <2>1. PICK n \in Nat : Open(n)
    BY <1>10
  <2>2. plan \in Seq(Ops(n))
    BY <2>1 DEF Open
  <2>3. plan' \in Seq(Ops(n)) /\ Head(plan)[2] \in 1..n /\ Head(plan) = <<"answer", Head(plan)[2]>>
    BY <1>1, <2>2, HeadOfPlan
  <2>4. draft'[1].call \in ToSet(CallsOf(n))
    BY <1>4, <2>3 DEF CallsOf, ToSet
  <2>5. ASSUME NEW i \in 1..n, <<round, i>> \notin Collected(Shown(log).block)
        PROVE  Has(plan', <<"answer", i>>) \/ draft'[1].call = <<round, i>>
    <3>1. Has(plan, <<"answer", i>>)
      BY <1>1, <2>1, <2>5 DEF Open
    <3>2. CASE <<"answer", i>> = Head(plan)
      BY <1>4, <3>2
    <3>3. CASE <<"answer", i>> # Head(plan)
      BY <1>7, <3>1, <3>3
    <3>4. QED
      BY <3>2, <3>3
  <2>6. Open(n)'
    BY <1>1, <1>3, <2>1, <2>3, <2>4, <2>5, SameLog DEF Open
  <2>7. QED
    BY <1>1, <1>2, <1>3, <1>4, <2>6 DEF ResultsInv, Waiting, Calling
<1>11. QED
  BY <1>5, <1>8, <1>9, <1>10

\* Sending a call answers it, or has its answer committed next.
LEMMA SendCallStep ==
  ASSUME LoopInv, ResultsInv, SendCall
  PROVE  ResultsInv'
<1> SUFFICES ASSUME ~HumanReplied' PROVE ResultsInv'
  BY DEF ResultsInv
<1>1. UNCHANGED <<window, log, round>> /\ pc = "tools" /\ pc' = "tools" /\ plan # <<>>
      /\ plan' = Tail(plan) /\ Head(plan)[1] = "send"
  BY DEF SendCall
<1>2. /\ ~HumanReplied /\ Increasing'
      /\ \A r \in 0..(round' - 1) : ShownRound(r)'
  BY <1>1, SameLog DEF ResultsInv
<1>3. Escalating \/ ShownRound(round) \/ \E n \in Nat : Open(n)
  BY <1>1, <1>2 DEF ResultsInv, Waiting
<1>4. PICK l \in Nat : plan \in Seq(Ops(l))
  BY DEF LoopInv, PlanInv
<1>5. ASSUME NEW i, NEW op \in {"answer", "escalate"}, Has(plan, <<op, i>>) PROVE Has(plan', <<op, i>>)
  <2>1. <<op, i>> # Head(plan)
    BY <1>1
  <2>2. QED
    BY <1>1, <1>4, <1>5, <2>1, HeadOfPlan
<1>6. Escalating' \/ ShownRound(round)' \/ \E n \in Nat : Open(n)'
  <2>1. CASE Escalating
    BY <1>5, <2>1 DEF Escalating
  <2>2. CASE ShownRound(round)
    BY <1>1, <2>2, SameLog
  <2>3. CASE \E n \in Nat : Open(n)
    <3>1. PICK n \in Nat : Open(n)
      BY <2>3
    <3>2. plan' \in Seq(Ops(n))
      <4>1. plan \in Seq(Ops(n))
        BY <3>1 DEF Open
      <4>2. QED
        BY <1>1, <4>1, HeadOfPlan
    <3>3. \A i \in 1..n : <<round, i>> \in Collected(Shown(log).block) \/ Has(plan', <<"answer", i>>)
      BY <1>1, <1>5, <3>1 DEF Open
    <3>4. Open(n)'
      BY <1>1, <3>1, <3>2, <3>3, SameLog DEF Open
    <3>5. QED
      BY <3>4
  <2>4. QED
    BY <1>3, <2>1, <2>2, <2>3
<1>7. QED
  BY <1>1, <1>2, <1>6 DEF ResultsInv, Waiting, Calling

\* A round that has got all its results is shown.
LEMMA NextRoundStep ==
  ASSUME LoopInv, ResultsInv, NextRound
  PROVE  ResultsInv'
<1> SUFFICES ASSUME ~HumanReplied' PROVE ResultsInv'
  BY DEF ResultsInv
<1>1. UNCHANGED <<window, log>> /\ round' = round + 1 /\ pc = "tools" /\ pc' \in {"load", "exhausted"}
      /\ plan = <<>>
  BY DEF NextRound, GoTo
<1>2. ~HumanReplied /\ Increasing' /\ \A r : ShownRound(r)' <=> ShownRound(r)
  BY <1>1 DEF HumanReplied, Increasing, ShownRound, ResultsInv
<1>3. Escalating \/ ShownRound(round) \/ \E n \in Nat : Open(n)
  BY <1>1, <1>2 DEF ResultsInv, Waiting
<1>4. \A x : ~Has(plan, x)
  BY <1>1 DEF Has
<1>5. ShownRound(round)
  <2>1. SUFFICES ASSUME NEW n \in Nat, Open(n) PROVE FALSE
    BY <1>3, <1>4 DEF Escalating
  <2>2. \A i \in 1..n : <<round, i>> \in Collected(Shown(log).block)
    BY <1>1, <1>4, <2>1 DEF Open
  <2>3. ToSet(CallsOf(n)) \subseteq Collected(Shown(log).block)
    BY <2>2 DEF CallsOf, ToSet
  <2>4. Collected(Shown(log).block) \subseteq ToSet(CallsOf(n))
    BY <2>1, ShownKeeps DEF LoopInv, StoreInv, ShowInv, Collecting, Open
  <2>5. QED
    BY <2>1, <2>3, <2>4 DEF Open
<1>6. \A r \in 0..(round' - 1) : ShownRound(r)'
  <2>1. round \in Nat
    BY BoundsAssumption DEF LoopInv, RoundInv
  <2>2. \A r \in 0..(round' - 1) : r \in 0..(round - 1) \/ r = round
    BY <1>1, <2>1
  <2>3. QED
    BY <1>2, <1>5, <2>2 DEF ResultsInv
<1>7. QED
  BY <1>1, <1>2, <1>6 DEF ResultsInv, Waiting, Calling

\* A message joins the log: a call opens its block, a result brings it forward.
LEMMA CommitStep ==
  ASSUME LoopInv, ResultsInv, Commit
  PROVE  ResultsInv'
<1> SUFFICES ASSUME ~HumanReplied' PROVE ResultsInv'
  BY DEF ResultsInv
<1>1. PICK m : m = draft[1]
  OBVIOUS
<1>2. /\ pc = "commit" /\ pc' = draft[2] /\ log' = Append(log, m) /\ draft' = NoDraft
      /\ UNCHANGED <<window, context, plan, round>>
  BY <1>1 DEF Commit, GoTo
<1>3. m \in Good /\ m.seq \in 1..(Len(log) + 1) /\ log \in Seq(Good)
  BY <1>1, <1>2 DEF LoopInv, StoreInv
<1>4. /\ log' \in Seq(Good) /\ Len(log') = Len(log) + 1 /\ Len(log) \in Nat
      /\ \A i \in 1..Len(log) : log'[i] = log[i]
      /\ log'[Len(log) + 1] = m
  BY <1>2, <1>3, AppendToLog DEF LoopInv
<1>5. ~HumanReplied
  <2>1. DOMAIN log = 1..Len(log) /\ DOMAIN log' = 1..Len(log')
    BY <1>3, <1>4
  <2>2. \A i \in 1..Len(log) : i \in 1..Len(log') /\ log[i] = log'[i]
    BY <1>4
  <2>3. QED
    BY <2>1, <2>2 DEF HumanReplied, ToSet
<1>6. Increasing'
  <2>1. \A i \in 1..Len(log) : log[i].seq < m.seq
    BY <1>1, <1>2, <1>5 DEF ResultsInv
  <2>2. ASSUME NEW i \in 1..Len(log'), NEW j \in 1..Len(log'), i < j PROVE log'[i].seq < log'[j].seq
    <3>1. i \in 1..Len(log) /\ (j \in 1..Len(log) \/ j = Len(log) + 1)
      BY <1>4, <2>2
    <3>2. CASE j \in 1..Len(log)
      BY <1>4, <1>5, <2>2, <3>1, <3>2 DEF ResultsInv, Increasing
    <3>3. CASE j = Len(log) + 1
      BY <1>4, <2>1, <3>1, <3>3
    <3>4. QED
      BY <3>1, <3>2, <3>3
  <2>3. QED
    BY <2>2 DEF Increasing
<1>7. Shown(log') = Show(Shown(log), m) /\ ShowInv(Shown(log))
  BY <1>2, <1>3, ShownAppend, ShownKeeps
<1>8. ASSUME NEW r, ShownRound(r) PROVE ShownRound(r)'
  <2>1. ToSet(Shown(log).out) \subseteq ToSet(Shown(log').out)
    BY <1>3, <1>7, ShowGrows
  <2>2. QED
    BY <1>8, <2>1 DEF ShownRound
<1>9. \A r \in 0..(round' - 1) : ShownRound(r)'
  BY <1>2, <1>5, <1>8 DEF ResultsInv
<1>10. pc' \in AfterCommit
  BY <1>2 DEF LoopInv, StoreInv
<1>11. pc' # "commit" /\ pc' \notin {"route", "model"} /\ ~Calling'
  BY <1>10 DEF AfterCommit, Calling
<1>12. Escalating' <=> Escalating
  BY <1>2 DEF Escalating
<1>13. ASSUME NEW n, NEW c, c = CallsOf(n) PROVE CallsOf(n)' = c
  BY <1>2, <1>13 DEF CallsOf
<1>14. ASSUME Waiting' PROVE Escalating' \/ ShownRound(round)' \/ \E n \in Nat : Open(n)'
  <2>1. pc' = "tools" /\ draft[2] = "tools" /\ m.role \in {"tool_call", "tool_result"}
    BY <1>1, <1>2, <1>5, <1>11, <1>14 DEF Waiting, ResultsInv
  <2>2. CASE m.role = "tool_call"
    <3>1. PICK n \in Nat \ {0} : /\ m.calls = CallsOf(n)
                                 /\ plan \in Seq(Ops(n))
                                 /\ Escalating \/ \A i \in 1..n : Has(plan, <<"answer", i>>)
      BY <1>1, <1>2, <1>5, <2>1, <2>2 DEF ResultsInv, Calling
    <3>2. Show(Shown(log), m) = [out |-> Shown(log).out, block |-> [call |-> m, results |-> <<>>]]
      BY <2>2 DEF Show
    <3>3. PICK b : b = [call |-> m, results |-> <<>>]
      OBVIOUS
    <3>4. Shown(log').block = b /\ b.call = m /\ b.results = <<>> /\ Len(b.results) = 0
      BY <1>7, <3>2, <3>3
    <3>5. Collected(b) = {}
      BY <3>4 DEF Collected
    <3>6. <<round, 1>> \in ToSet(CallsOf(n))
      BY <3>1 DEF CallsOf, ToSet
    <3>7. CASE \A i \in 1..n : Has(plan, <<"answer", i>>)
      <4>1. Collected(b) # ToSet(CallsOf(n))
        BY <3>5, <3>6
      <4>2. CallsOf(n)' = CallsOf(n)
        BY <1>13
      <4>3. Open(n)'
        BY <1>2, <1>11, <2>2, <3>1, <3>4, <3>7, <4>1, <4>2 DEF Open
      <4>4. QED
        BY <4>3
    <3>8. QED
      BY <1>12, <3>1, <3>7
  <2>3. CASE m.role = "tool_result"
    <3>1. Escalating \/ ShownRound(round) \/ \E n \in Nat : Open(n)
      BY <1>1, <1>2, <1>5, <2>1, <2>3 DEF ResultsInv, Waiting
    <3>2. CASE Escalating
      BY <1>12, <3>2
    <3>3. CASE ShownRound(round)
      <4>1. PICK r : r = round
        OBVIOUS
      <4>2. ShownRound(r)' /\ r = round'
        BY <1>2, <1>8, <3>3, <4>1
      <4>3. QED
        BY <4>2 DEF ShownRound
    <3>4. CASE \E n \in Nat : Open(n)
      <4>1. PICK n \in Nat : Open(n)
        BY <3>4
      <4> DEFINE b == Shown(log).block
                 c == Shown(log').block
      <4>2. /\ b.call.role = "tool_call" /\ b.call.calls = CallsOf(n)
            /\ Collected(b) # ToSet(CallsOf(n))
            /\ plan \in Seq(Ops(n))
            /\ m.call \in ToSet(CallsOf(n))
            /\ \A i \in 1..n : \/ <<round, i>> \in Collected(b)
                               \/ Has(plan, <<"answer", i>>)
                               \/ m.call = <<round, i>>
        BY <1>1, <1>2, <4>1 DEF Open
      <4>3. \/ b.call \in ToSet(Shown(log').out)
            \/ /\ c.call = b.call /\ Collected(c) = Collected(b) \union {m.call}
               /\ Collected(c) # ToSet(b.call.calls)
        BY <1>3, <1>7, <2>3, <4>2, ShowResult
      <4>4. CallsOf(n)' = CallsOf(n)
        BY <1>13
      <4>5. CASE b.call \in ToSet(Shown(log').out)
        <5>1. CallsOf(n) # <<>> /\ \A id \in ToSet(CallsOf(n)) : id[1] = round
          <6>1. PICK s : s = CallsOf(n)
            OBVIOUS
          <6>2. s = [i \in 1..n |-> <<round, i>>] /\ DOMAIN s = 1..n
            BY <6>1 DEF CallsOf
          <6>3. \A i \in 1..n : s[i][1] = round
            BY <6>2
          <6>4. PICK j \in 1..n : m.call = s[j]
            BY <4>2, <6>1, <6>2 DEF ToSet
          <6>5. s \in Seq(CallIds)
            BY <6>1, CallsOfAre DEF LoopInv
          <6>6. s # <<>>
            <7>1. DOMAIN s = 1..Len(s) /\ j \in 1..Len(s) /\ Len(s) \in Nat
              BY <6>2, <6>5
            <7>2. QED
              BY <7>1
          <6>7. \A id \in ToSet(s) : id[1] = round
            BY <6>2, <6>3 DEF ToSet
          <6>8. QED
            BY <6>1, <6>6, <6>7
        <5>2. ShownRound(round)'
          BY <1>2, <4>2, <4>5, <5>1 DEF ShownRound
        <5>3. QED
          BY <5>2
      <4>6. CASE /\ c.call = b.call /\ Collected(c) = Collected(b) \union {m.call}
                 /\ Collected(c) # ToSet(b.call.calls)
        <5>1. Open(n)'
          BY <1>2, <1>11, <4>2, <4>4, <4>6 DEF Open
        <5>2. QED
          BY <5>1
      <4>7. QED
        BY <4>3, <4>5, <4>6
    <3>5. QED
      BY <3>1, <3>2, <3>3, <3>4
  <2>4. QED
    BY <2>1, <2>2, <2>3
<1>15. QED
  BY <1>6, <1>9, <1>11, <1>14 DEF ResultsInv

\* The humans' numbers are not among what the invariant is about.
LEMMA SameTurn ==
  ASSUME ResultsInv, UNCHANGED <<window, log, pc, draft, context, plan, round>>
  PROVE  ResultsInv'
<1>1. /\ HumanReplied' <=> HumanReplied
      /\ Increasing' <=> Increasing
      /\ \A r : ShownRound(r)' <=> ShownRound(r)
      /\ \A n : CallsOf(n)' = CallsOf(n)
      /\ Shown(log)' = Shown(log)
  BY SameLog
<1>2. (Waiting' <=> Waiting) /\ (Calling' <=> Calling) /\ (Escalating' <=> Escalating)
  BY DEF Waiting, Calling, Escalating
<1>3. ASSUME NEW n PROVE Open(n)' <=> Open(n)
  BY <1>1 DEF Open
<1>4. ShownRound(round)' <=> ShownRound(round)
  BY DEF ShownRound
<1>5. QED
  BY <1>1, <1>2, <1>3, <1>4 DEF ResultsInv

\* A human's reply ends the promise: the invariant is about turns without one.
LEMMA HumanStep ==
  ASSUME LoopInv, ResultsInv, NEW h \in Humans, HumanNumber(h) \/ HumanCommit(h)
  PROVE  ResultsInv'
<1>1. CASE HumanNumber(h)
  <2>1. UNCHANGED <<window, log, pc, draft, context, plan, round>>
    BY <1>1 DEF HumanNumber
  <2>2. QED
    BY <2>1, SameTurn
<1>2. CASE HumanCommit(h)
  <2>1. PICK m : m = Message("human_agent", reply[h], <<>>, NoCall)
    OBVIOUS
  <2>2. log' = Append(log, m) /\ m.role = "human_agent" /\ log \in Seq(Good)
    BY <1>2, <2>1 DEF HumanCommit, Message, LoopInv, StoreInv
  <2>3. Len(log) + 1 \in DOMAIN log' /\ log'[Len(log) + 1] = m
    BY <2>2
  <2>4. HumanReplied'
    BY <2>2, <2>3 DEF HumanReplied, ToSet
  <2>5. QED
    BY <2>4 DEF ResultsInv
<1>3. QED
  BY <1>1, <1>2

\* Every step keeps the account of the results.
LEMMA ResultsStep ==
  ASSUME LoopInv, ResultsInv, [Next]_vars
  PROVE  ResultsInv'
<1>1. CASE Start \/ Answer \/ EscalateCall \/ (Route /\ pc' = "commit")
  <2>1. Storing /\ UNCHANGED <<window, log, round>>
    BY <1>1 DEF Storing, Start, Answer, EscalateCall, Route, GoTo
  <2>2. draft'[2] # "tools"
    BY <1>1 DEF Start, Answer, EscalateCall, ToolResult, Route, GoTo, Store
  <2>3. QED
    BY <2>1, <2>2, StoreOtherStep
<1>2. CASE \/ Vanish \/ Load \/ ModelFails \/ AnswerNothing \/ Exhausted \/ Escalated \/ Reject
           \/ Complete \/ Feedback \/ Report \/ Fail \/ (Route /\ pc' # "commit")
  <2>1. UNCHANGED <<window, log, round>> /\ pc' \notin {"commit", "tools"}
    <3>1. CASE Route /\ pc' # "commit"
      BY <3>1 DEF Route, GoTo, Store
    <3>2. CASE \/ Vanish \/ Load \/ ModelFails \/ AnswerNothing \/ Exhausted \/ Escalated \/ Reject
               \/ Complete \/ Feedback \/ Report \/ Fail
      BY <3>2 DEF Vanish, Load, ModelFails, AnswerNothing, Exhausted, Escalated, Reject, Complete, Feedback,
                  Report, Fail, GoTo
    <3>3. QED
      BY <1>2, <3>1, <3>2
  <2>2. pc' \in {"route", "model"} => \/ pc = "route" /\ context' = context
                                      \/ \E f \in BOOLEAN : context' = LoadContext(f)
    <3>1. CASE Load
      BY <3>1 DEF Load
    <3>2. CASE Route /\ pc' # "commit"
      BY <3>2 DEF Route, GoTo, Store
    <3>3. CASE \/ Vanish \/ ModelFails \/ AnswerNothing \/ Exhausted \/ Escalated \/ Reject
               \/ Complete \/ Feedback \/ Report \/ Fail
      BY <3>3 DEF Vanish, ModelFails, AnswerNothing, Exhausted, Escalated, Reject, Complete, Feedback,
                  Report, Fail, GoTo
    <3>4. QED
      BY <1>2, <3>1, <3>2, <3>3
  <2>3. QED
    BY <2>1, <2>2, QuietStep
<1>3. CASE UNCHANGED vars
  BY <1>3, SameTurn DEF vars
<1>4. QED
  BY <1>1, <1>2, <1>3, CallToolsStep, AnswerCallStep, SendCallStep, NextRoundStep, CommitStep, HumanStep
  DEF Next, TurnStep

\* A turn that nothing cut off or interrupted shows the model every call that it
\* made in an earlier round, with all its results: every call of a round is
\* answered, the answers close its block, and the context is the whole log.
THEOREM ResultsAreShown == Spec => []PromptShowsResults
<1>1. Init => ResultsInv
  <2> SUFFICES ASSUME Init, ~HumanReplied PROVE ResultsInv
    BY DEF ResultsInv
  <2>1. log \in History /\ log \in Seq(Messages)
    BY HistoryAssumption DEF Init
  <2>2. \A m \in ToSet(log) : m.role # "human_agent"
    BY DEF HumanReplied
  <2>3. \A i, j \in DOMAIN log : i < j => log[i].seq < log[j].seq
    BY <2>1, <2>2, HistoryAssumption
  <2>4. Increasing
    BY <2>1, <2>3 DEF Increasing
  <2>5. pc = "start" /\ round = 0
    BY DEF Init
  <2>6. QED
    BY <2>4, <2>5 DEF ResultsInv, Waiting, Calling
<1>2. LoopInv /\ ResultsInv /\ [Next]_vars => ResultsInv'
  BY ResultsStep
<1>3. LoopInv /\ ResultsInv => PromptShowsResults
  <2>1. SUFFICES ASSUME LoopInv, ResultsInv, pc = "model", Len(log) <= window, ~HumanReplied,
                        NEW r \in 0..(round - 1)
                 PROVE  \E m \in ToSet(Prompt(context)) :
                          m.role = "tool_call" /\ m.calls # <<>> /\ \A id \in ToSet(m.calls) : id[1] = r
    BY DEF PromptShowsResults
  <2>2. ShownRound(r) /\ context = log
    BY <2>1 DEF ResultsInv
  <2>3. QED
    BY <2>2 DEF ShownRound, Prompt
<1>4. QED
  BY <1>1, <1>2, <1>3, LoopInvariant, PTL DEF Spec

\* Every reachable turn is well typed: numbers count the messages, the context
\* fits its window, the rounds are bounded.
THEOREM TurnsTyped == Spec => []TypeOK
<1>1. LoopInv /\ EndInv => TypeOK
  <2>1. SUFFICES ASSUME LoopInv, EndInv PROVE TypeOK
    OBVIOUS
  <2>2. DOMAIN log = 1..Len(log) /\ DOMAIN events = 1..Len(events)
    BY <2>1 DEF LoopInv, StoreInv, EndInv
  <2>3. \A m \in ToSet(log) : m.seq \in 1..Len(log)
    BY <2>1, <2>2 DEF LoopInv, StoreInv, Numbered, ToSet
  <2>4. ToSet(events) \subseteq Event
    BY <2>1, <2>2 DEF EndInv, ToSet
  <2>5. QED
    BY <2>1, <2>3, <2>4 DEF LoopInv, StoreInv, ContextInv, RoundInv, Event, TypeOK
<1>2. QED
  BY <1>1, LoopInvariant, EndInvariant, PTL
=============================================================================

----------------------------- MODULE ToolResults -----------------------------
(***************************************************************************)
(* The way of a tool result from the SDK to the turn that waits for it     *)
(* (agent/services/pending_tool_results.py, submit_tool_result and         *)
(* EventStreamSender in agent/routers/chat_events.py, the dedup set of     *)
(* turn_state_service.py), on Redis, for one turn.                         *)
(*                                                                         *)
(* The turn runs on one worker, its home: there the futures live, and      *)
(* there the shared listener turns notifications into results.  A POST     *)
(* /tool-results may arrive at the home worker or at another one, be       *)
(* retried with its idempotency key, and meet failing Redis commands.      *)
(* Calls are numbered in the order in which the turn sends them; the calls *)
(* of a round are all sent before the first of them is awaited.            *)
(***************************************************************************)
EXTENDS Integers, FiniteSets, Sequences

CONSTANTS
  NCalls,         \* the number of calls of the turn
  Ids,            \* call ids a provider may use
  Scripts,        \* the id and the round of each call, in the turns looked at
  NSubmits,       \* the number of POST /tool-results; each carries its own result
  Attempts,       \* distinguishes the idempotency keys a client uses for a call
  FaultKinds,     \* subset of {"redis", "listener"}
  MaxFaults       \* bound on failures

Calls == 1..NCalls
Submits == 1..NSubmits             \* in the order of their arrival
NoResult == 0                      \* the absence of a result
Keys == Calls \X Attempts          \* idempotency keys, unique to a call

\* A provider numbers the calls of one response apart.
ASSUME ScriptsAssumption ==
  /\ NCalls \in Nat \ {0} /\ NSubmits \in Nat
  /\ Scripts \subseteq [id : [Calls -> Ids], round : [Calls -> Nat]]
  /\ \A sc \in Scripts, c, d \in Calls : c < d =>
       /\ sc.round[c] <= sc.round[d]
       /\ sc.id[c] = sc.id[d] => sc.round[c] # sc.round[d]
ASSUME AttemptsAssumption == Attempts \in SUBSET Nat /\ 1 \in Attempts
ASSUME FaultsAssumption == MaxFaults \in Nat /\ FaultKinds \subseteq {"redis", "listener"}

VARIABLES
  script,         \* the calls of this turn; chosen once
  turn,           \* "running", "done", or "aborted" by an exception
  stage,          \* how far the turn is with each call
  future,         \* the result of each call's future
  pending,        \* _pending_tool_results: call id -> call (0: none)
  store,          \* rk:tool_result: call id -> result
  dedup,          \* rk:turn_dedup
  listener,       \* the shared listener of the home worker is subscribed
  notes,          \* published notifications the listener has not dispatched
  tasks,          \* dispatch tasks that have found a future to resolve
  pc, target, key, home,  \* of each submission: step, call, idempotency key, place
  faults

turnVars == <<script, turn, stage>>
redis == <<store, dedup>>
pubsub == <<listener, notes, tasks>>
submission == <<target, key, home>>
vars == <<script, turn, stage, future, pending, store, dedup, listener, notes, tasks,
          pc, target, key, home, faults>>

Stage == {"new", "registered", "found", "checked", "sent", "cancelled", "answered", "timedOut"}
Step == {"idle", "isMember", "add", "set", "publish", "local", "exists",
         "ok", "duplicate", "notFound", "error"}

\* defect: keys built without the call id.
MutantIdOf(c) == script.id[1]
IdOf(c) == script.id[c]
SameRound(c, d) == script.round[c] = script.round[d]

Finished(c) == stage[c] \in {"answered", "timedOut"}
Shown(c) == stage[c] \in {"sent", "cancelled", "answered", "timedOut"}
Done(c) == future[c] # NoResult \/ stage[c] \in {"cancelled", "timedOut"}

Fault(kind) ==
  /\ kind \in FaultKinds
  /\ faults < MaxFaults
  /\ faults' = faults + 1

Init ==
  /\ script \in Scripts
  /\ turn = "running"
  /\ stage = [c \in Calls |-> "new"]
  /\ future = [c \in Calls |-> NoResult]
  /\ pending = [i \in Ids |-> 0]
  /\ store = [i \in Ids |-> NoResult]
  /\ dedup = {}
  /\ listener = TRUE
  /\ notes = {}
  /\ tasks = {}
  /\ pc = [s \in Submits |-> "idle"]
  /\ target = [s \in Submits |-> 1]
  /\ key = [s \in Submits |-> <<1, 1>>]
  /\ home = [s \in Submits |-> TRUE]
  /\ faults = 0

-----------------------------------------------------------------------------
\* The turn: send_tool_call_request and wait_for_tool_result.

Advance(c, from, to) ==
  /\ turn = "running"
  /\ stage[c] = from
  /\ stage' = [stage EXCEPT ![c] = to]

\* A call's turn to be sent: earlier rounds are over, its round is sent in order.
Register(c) ==
  /\ \A d \in 1..(c - 1) : IF SameRound(c, d) THEN Shown(d) ELSE Finished(d)
  /\ Advance(c, "new", "registered")
  /\ pending' = [pending EXCEPT ![IdOf(c)] = c]
  /\ UNCHANGED <<script, turn, future, redis, pubsub, pc, submission, faults>>

\* GET rk:tool_result: a stored result under this id is taken at once.
CheckEarly(c) ==
  /\ \/ /\ store[IdOf(c)] # NoResult /\ ~Done(c)
        /\ Advance(c, "registered", "found")
        /\ future' = [future EXCEPT ![c] = store[IdOf(c)]]
     \/ /\ store[IdOf(c)] = NoResult \/ Done(c)
        /\ Advance(c, "registered", "checked")
        /\ UNCHANGED future
  /\ UNCHANGED <<script, turn, pending, redis, pubsub, pc, submission, faults>>

\* DEL rk:tool_result; its failure is swallowed.
DeleteEarly(c) ==
  /\ Advance(c, "found", "checked")
  /\ \/ /\ store' = [store EXCEPT ![IdOf(c)] = NoResult]
        /\ UNCHANGED faults
     \/ Fault("redis") /\ UNCHANGED store
  /\ UNCHANGED <<script, turn, future, pending, dedup, pubsub, pc, submission>>

\* XADD of the tool_call_request event: from now on the client knows the call.
Push(c) ==
  /\ Advance(c, "checked", "sent")
  /\ UNCHANGED <<script, turn, future, pending, redis, pubsub, pc, submission, faults>>

\* The GET or the XADD raises: nothing catches it before _run_turn.
Abort(c) ==
  /\ turn = "running"
  /\ stage[c] \in {"registered", "checked"}
  /\ Fault("redis")
  /\ turn' = "aborted"
  /\ UNCHANGED <<script, stage, future, pending, redis, pubsub, pc, submission>>

\* The turn awaits c: its round is sent and the calls before it are finished.
Awaits(c) ==
  /\ turn = "running"
  /\ stage[c] = "sent"
  /\ \A d \in Calls : SameRound(c, d) => Shown(d)
  /\ \A d \in 1..(c - 1) : Finished(d)

Answer(c) ==
  /\ Awaits(c)
  /\ future[c] # NoResult
  /\ Advance(c, "sent", "answered")
  /\ pending' = [pending EXCEPT ![IdOf(c)] = 0]
  /\ UNCHANGED <<script, turn, future, redis, pubsub, pc, submission, faults>>

\* wait_for gives up and cancels the future ...
TimeOut(c) ==
  /\ Awaits(c)
  /\ future[c] = NoResult
  /\ Advance(c, "sent", "cancelled")
  /\ UNCHANGED <<script, turn, future, pending, redis, pubsub, pc, submission, faults>>

\* ... and when the turn's task runs again, `finally` forgets it.
MutantClear(c) ==                  \* defect: the `finally` is an `else`
  /\ Advance(c, "cancelled", "timedOut")
  /\ UNCHANGED <<script, turn, future, pending, redis, pubsub, pc, submission, faults>>

Clear(c) ==
  /\ Advance(c, "cancelled", "timedOut")
  /\ pending' = [pending EXCEPT ![IdOf(c)] = 0]
  /\ UNCHANGED <<script, turn, future, redis, pubsub, pc, submission, faults>>

\* The loop ends after the last round; clear_turn releases the lock.
EndTurn ==
  /\ turn = "running"
  /\ \A c \in Calls : Finished(c)
  /\ turn' = "done"
  /\ UNCHANGED <<script, stage, future, pending, redis, pubsub, pc, submission, faults>>

-----------------------------------------------------------------------------
\* submit_tool_result and resolve_pending_tool_result, command by command.

GoTo(s, from, to) ==
  /\ pc[s] = from
  /\ pc' = [pc EXCEPT ![s] = to]

\* A client submits, or submits again, a result for a call it was shown, under
\* a key it has used for it or the next one.
Submit(s) ==
  /\ GoTo(s, "idle", "isMember")
  /\ s > 1 => pc[s - 1] # "idle"
  /\ \E c \in Calls, n \in Attempts, h \in BOOLEAN :
       /\ Shown(c)
       /\ n > 1 => \E r \in Submits : pc[r] # "idle" /\ key[r] = <<c, n - 1>>
       /\ target' = [target EXCEPT ![s] = c]
       /\ key' = [key EXCEPT ![s] = <<c, n>>]
       /\ home' = [home EXCEPT ![s] = h]
  /\ UNCHANGED <<turnVars, future, pending, redis, pubsub, faults>>

\* SISMEMBER rk:turn_dedup; an error is a 500.
IsMember(s) ==
  /\ \/ /\ GoTo(s, "isMember", IF key[s] \in dedup THEN "duplicate" ELSE "add")
        /\ UNCHANGED faults
     \/ Fault("redis") /\ GoTo(s, "isMember", "error")
  /\ UNCHANGED <<turnVars, future, pending, redis, pubsub, submission>>

\* defect: the key is recorded per call, so another call's key counts too.
MutantAdd(s) ==
  /\ dedup' = dedup \cup Keys
  /\ GoTo(s, "add", "set")
  /\ UNCHANGED <<turnVars, future, pending, store, pubsub, submission, faults>>

\* SADD and EXPIRE; an error, with or without effect, is a 500.
Add(s) ==
  /\ \/ /\ dedup' = dedup \cup {key[s]}
        /\ GoTo(s, "add", "set")
        /\ UNCHANGED faults
     \/ /\ Fault("redis")
        /\ dedup' \in {dedup, dedup \cup {key[s]}}
        /\ GoTo(s, "add", "error")
  /\ UNCHANGED <<turnVars, future, pending, store, pubsub, submission>>

\* SET rk:tool_result; an error skips the PUBLISH.
SetResult(s) ==
  LET stored == [store EXCEPT ![IdOf(target[s])] = s] IN
  /\ \/ /\ store' = stored
        /\ GoTo(s, "set", "publish")
        /\ UNCHANGED faults
     \/ /\ Fault("redis")
        /\ store' \in {store, stored}
        /\ GoTo(s, "set", "local")
  /\ UNCHANGED <<turnVars, future, pending, dedup, pubsub, submission>>

\* PUBLISH rk:tool_notify reaches the listener only while it is subscribed.
MutantPublish(s) ==                \* defect: nothing is published
  /\ GoTo(s, "publish", "local")
  /\ UNCHANGED <<turnVars, future, pending, redis, pubsub, submission, faults>>

Publish(s) ==
  LET published == IF listener THEN notes \cup {<<IdOf(target[s]), s>>} ELSE notes IN
  /\ GoTo(s, "publish", "local")
  /\ \/ notes' = published /\ UNCHANGED faults
     \/ Fault("redis") /\ notes' \in {notes, published}
  /\ UNCHANGED <<turnVars, future, pending, redis, listener, tasks, submission>>

\* The same-process fast path; without a future the turn lock decides.
Local(s) ==
  LET c == IF home[s] THEN pending[IdOf(target[s])] ELSE 0 IN
  /\ GoTo(s, "local", IF c # 0 THEN "ok" ELSE "exists")
  /\ future' = IF c # 0 /\ ~Done(c) THEN [future EXCEPT ![c] = s] ELSE future
  /\ UNCHANGED <<turnVars, pending, redis, pubsub, submission, faults>>

\* EXISTS rk:turn:lock; an error counts as "no turn".
LockExists(s) ==
  /\ \/ /\ GoTo(s, "exists", IF turn = "running" THEN "ok" ELSE "notFound")
        /\ UNCHANGED faults
     \/ Fault("redis") /\ GoTo(s, "exists", "notFound")
  /\ UNCHANGED <<turnVars, future, pending, redis, pubsub, submission>>

-----------------------------------------------------------------------------
\* The shared listener of the home worker.

\* The task created for a notification looks up its future.
Dispatch(n) ==
  /\ notes' = notes \ {n}
  /\ tasks' = LET c == pending[n[1]]
              IN  IF c # 0 /\ ~Done(c) THEN tasks \cup {<<c, n[2]>>} ELSE tasks
  /\ UNCHANGED <<turnVars, future, pending, redis, listener, pc, submission, faults>>

\* GET rk:tool_result, then the future is checked again and set.
MutantDeliver(k) ==                \* defect: the future is not checked again
  LET c == k[1] IN
  /\ tasks' = tasks \ {k}
  /\ future' = [future EXCEPT ![c] = store[IdOf(c)]]
  /\ UNCHANGED <<turnVars, pending, redis, listener, notes, pc, submission, faults>>

Deliver(k) ==
  LET c == k[1] IN
  /\ tasks' = tasks \ {k}
  /\ \/ /\ future' = IF Done(c) THEN future ELSE [future EXCEPT ![c] = store[IdOf(c)]]
        /\ UNCHANGED faults
     \/ Fault("redis") /\ UNCHANGED future
  /\ UNCHANGED <<turnVars, pending, redis, listener, notes, pc, submission>>

\* get_message raises: the listener ends and is never started again.
ListenerCrash ==
  /\ listener
  /\ Fault("listener")
  /\ listener' = FALSE
  /\ notes' = {}
  /\ UNCHANGED <<turnVars, future, pending, redis, tasks, pc, submission>>

-----------------------------------------------------------------------------
MutantTurnStep(c) ==               \* defect: wait_for without a timeout
  \/ Register(c) \/ CheckEarly(c) \/ DeleteEarly(c) \/ Push(c)
  \/ Answer(c) \/ Clear(c)

TurnStep(c) ==
  \/ Register(c) \/ CheckEarly(c) \/ DeleteEarly(c) \/ Push(c)
  \/ Answer(c) \/ TimeOut(c) \/ Clear(c)

Handle(s) ==
  \/ IsMember(s) \/ Add(s) \/ SetResult(s) \/ Publish(s)
  \/ Local(s) \/ LockExists(s)

Listen == (\E n \in notes : Dispatch(n)) \/ (\E k \in tasks : Deliver(k))

Next ==
  \/ \E c \in Calls : TurnStep(c) \/ Abort(c)
  \/ EndTurn
  \/ \E s \in Submits : Submit(s) \/ Handle(s)
  \/ Listen
  \/ ListenerCrash

\* The home worker's event loop runs the turn and its timers fire.  Clients,
\* the handlers and the listener need not do anything.
Fairness == (\A c \in Calls : WF_vars(TurnStep(c))) /\ WF_vars(EndTurn)

Spec == Init /\ [][Next]_vars
FairSpec == Spec /\ Fairness

-----------------------------------------------------------------------------
TypeOK ==
  /\ script \in Scripts
  /\ turn \in {"running", "done", "aborted"}
  /\ stage \in [Calls -> Stage]
  /\ future \in [Calls -> Submits \cup {NoResult}]
  /\ pending \in [Ids -> Calls \cup {0}]
  /\ store \in [Ids -> Submits \cup {NoResult}]
  /\ dedup \subseteq Keys
  /\ listener \in BOOLEAN
  /\ notes \subseteq Ids \X Submits
  /\ tasks \subseteq Calls \X Submits
  /\ pc \in [Submits -> Step]
  /\ target \in [Submits -> Calls]
  /\ key \in [Submits -> Keys]
  /\ home \in [Submits -> BOOLEAN]
  /\ faults \in 0..MaxFaults

\* The turn still counts on a result for c and has none.
Unanswered(c) == turn = "running" /\ stage[c] = "sent" /\ future[c] = NoResult

\* A result for c is on its way: notified, being dispatched, or with a handler.
InTransit(c) ==
  \/ \E n \in notes : n[1] = IdOf(c)
  \/ \E k \in tasks : k[1] = c
  \/ \E s \in Submits : target[s] = c /\ pc[s] \in {"set", "publish"}
  \/ \E s \in Submits : target[s] = c /\ pc[s] = "local" /\ home[s]

\* A result that was answered with 200 reaches its call: as long as the turn
\* waits without it, it is on its way ("a real tool result would be silently
\* dropped" otherwise).  While nothing fails this holds for new results and for
\* retries, through any worker and whatever other submissions do.
ReportedResultIsDelivered ==
  faults = 0 =>
    \A s \in Submits :
      pc[s] \in {"ok", "duplicate"} /\ Unanswered(target[s]) => InTransit(target[s])

\* A call gets a result submitted for it or for a call with the same id, never
\* another call's.  (A provider that uses an id again within 600 s can have an old
\* result answer the new call: stored results are found by id alone.)
ResultIsForItsCall ==
  \A c \in Calls : future[c] # NoResult => script.id[target[future[c]]] = script.id[c]

\* Fast path, notification and early check race for a future, and a timeout
\* races them: the first outcome stays.
FirstOutcomeWins ==
  [][\A c \in Calls : Done(c) => future'[c] = future[c]]_vars

\* A turn that ends normally leaves no future behind.
NoFutureLeaks == turn = "done" => \A i \in Ids : pending[i] = 0

\* The turn ends, whether or not clients answer and whatever fails.
TurnEnds == <>(turn # "running")
=============================================================================

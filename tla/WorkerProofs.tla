---------------------------- MODULE WorkerProofs ----------------------------
(***************************************************************************)
(* Proofs about what a worker of the chat API keeps by itself: the         *)
(* futures of the tool results that it waits for, for any number of calls, *)
(* submissions, retries and failures and any reuse of call ids over the    *)
(* rounds of a turn, and the turn store of its memory, for any number of   *)
(* workers, turns and requests.                                            *)
(***************************************************************************)
EXTENDS ToolResults, TurnStateFallback, TLAPS

\* What the scripts of a turn look like.
LEMMA ScriptFacts ==
  ASSUME NEW sc \in Scripts
  PROVE  /\ sc.id \in [Calls -> Ids]
         /\ sc.round \in [Calls -> Nat]
         /\ \A c, d \in Calls : c < d =>
              sc.round[c] <= sc.round[d] /\ (sc.id[c] = sc.id[d] => sc.round[c] # sc.round[d])
BY ScriptsAssumption

\* Every variable keeps its type.
THEOREM TypeCorrect == Spec => []TypeOK
<1> USE ScriptsAssumption, AttemptsAssumption, FaultsAssumption
<1>1. Init => TypeOK
  <2> SUFFICES ASSUME Init PROVE TypeOK
    OBVIOUS
  <2> USE DEF Init, Calls, Submits, NoResult, Keys, Stage, Step
  <2>1. listener \in BOOLEAN
    BY Zenon
  <2>2. home \in [Submits -> BOOLEAN]
    BY Zenon
  <2>3. QED
    BY <2>1, <2>2 DEF TypeOK
<1>2. TypeOK /\ [Next]_vars => TypeOK'
  <2> SUFFICES ASSUME TypeOK, [Next]_vars PROVE TypeOK'
    OBVIOUS
  <2> USE DEF TypeOK
  <2>1. CASE UNCHANGED vars
    BY <2>1 DEF vars
  <2>2. ASSUME NEW c \in Calls, TurnStep(c) PROVE TypeOK'
    <3> USE ScriptFacts DEF Advance, redis, pubsub, submission, Stage, IdOf
    <3>1. CASE Register(c)
      BY <3>1 DEF Register
    <3>2. CASE CheckEarly(c)
      BY <3>2 DEF CheckEarly, NoResult
    <3>3. CASE DeleteEarly(c)
      BY <3>3 DEF DeleteEarly, Fault
    <3>4. CASE Push(c)
      BY <3>4 DEF Push
    <3>5. CASE Answer(c)
      BY <3>5 DEF Answer
    <3>6. CASE TimeOut(c)
      BY <3>6 DEF TimeOut
    <3>7. CASE Clear(c)
      BY <3>7 DEF Clear
    <3>8. QED
      BY <2>2, <3>1, <3>2, <3>3, <3>4, <3>5, <3>6, <3>7 DEF TurnStep
  <2>3. ASSUME NEW c \in Calls, Abort(c) PROVE TypeOK'
    BY <2>3 DEF Abort, Fault, redis, pubsub, submission
  <2>4. CASE EndTurn
    BY <2>4 DEF EndTurn, redis, pubsub, submission
  <2>5. ASSUME NEW s \in Submits, Submit(s) PROVE TypeOK'
    BY <2>5 DEF Submit, GoTo, turnVars, redis, pubsub, Step, Keys
  <2>6. ASSUME NEW s \in Submits, Handle(s) PROVE TypeOK'
    <3> USE ScriptFacts DEF GoTo, turnVars, redis, pubsub, submission, Step, IdOf, Fault
    <3>1. CASE IsMember(s)
      BY <3>1 DEF IsMember
    <3>2. CASE Add(s)
      BY <3>2 DEF Add
    <3>3. CASE SetResult(s)
      <4>1. store' \in [Ids -> Submits \cup {NoResult}]
        BY <3>3 DEF SetResult
      <4>2. pc' \in [Submits -> Step] /\ faults' \in 0..MaxFaults
        BY <3>3 DEF SetResult
      <4>3. UNCHANGED <<turnVars, future, pending, dedup, pubsub, submission>>
        BY <3>3 DEF SetResult
      <4>4. QED
        BY <4>1, <4>2, <4>3
    <3>4. CASE Publish(s)
      BY <3>4 DEF Publish
    <3>5. CASE Local(s)
      BY <3>5 DEF Local
    <3>6. CASE LockExists(s)
      BY <3>6 DEF LockExists
    <3>7. QED
      BY <2>6, <3>1, <3>2, <3>3, <3>4, <3>5, <3>6 DEF Handle
  <2>7. ASSUME NEW n \in notes, Dispatch(n) PROVE TypeOK'
    BY <2>7 DEF Dispatch, turnVars, redis, submission
  <2>8. ASSUME NEW k \in tasks, Deliver(k) PROVE TypeOK'
    <3> USE <2>8, ScriptFacts DEF Deliver, Fault, turnVars, redis, submission, IdOf
    <3>1. future' \in [Calls -> Submits \cup {NoResult}]
      OBVIOUS
    <3>2. QED
      BY <3>1
  <2>9. CASE ListenerCrash
    <3> USE <2>9 DEF ListenerCrash, Fault, turnVars, redis, submission
    <3>1. listener' \in BOOLEAN
      BY Zenon
    <3>2. QED
      BY <3>1
  <2>10. QED
    BY <2>1, <2>2, <2>3, <2>4, <2>5, <2>6, <2>7, <2>8, <2>9 DEF Next, Listen
<1>3. QED
  BY <1>1, <1>2, PTL DEF Spec

\* The first outcome of a call stays, whatever else arrives for it.
THEOREM FirstOutcomeStays == Spec => FirstOutcomeWins
<1>1. TypeOK /\ [Next]_vars => [\A c \in Calls : Done(c) => future'[c] = future[c]]_vars
  <2> SUFFICES ASSUME TypeOK, Next PROVE \A c \in Calls : Done(c) => future'[c] = future[c]
    OBVIOUS
  <2> USE DEF TypeOK
  <2>1. ASSUME NEW d \in Calls, CheckEarly(d) PROVE \A c \in Calls : Done(c) => future'[c] = future[c]
    BY <2>1 DEF CheckEarly
  <2>2. ASSUME NEW s \in Submits, Local(s) PROVE \A c \in Calls : Done(c) => future'[c] = future[c]
    BY <2>2 DEF Local
  <2>3. ASSUME NEW k \in tasks, Deliver(k) PROVE \A c \in Calls : Done(c) => future'[c] = future[c]
    BY <2>3 DEF Deliver
  <2>4. \/ UNCHANGED future
        \/ \E d \in Calls : CheckEarly(d)
        \/ \E s \in Submits : Local(s)
        \/ \E k \in tasks : Deliver(k)
    BY DEF Next, TurnStep, Handle, Listen, Register, DeleteEarly, Push, Answer, TimeOut, Clear,
           Abort, EndTurn, Submit, IsMember, Add, SetResult, Publish, LockExists, Dispatch,
           ListenerCrash
  <2>5. QED
    BY <2>1, <2>2, <2>3, <2>4
<1>2. QED
  BY <1>1, TypeCorrect, PTL DEF Spec, FirstOutcomeWins

-----------------------------------------------------------------------------
(***************************************************************************)
(* The futures.  A call is held from its registration to its answer or the *)
(* end of its timeout, and _pending_tool_results names exactly the held    *)
(* calls: an id is used again only in a later round, which is not sent     *)
(* before the rounds before it are finished.                               *)
(***************************************************************************)
Held(c) == stage[c] \notin {"new", "answered", "timedOut"}

SentInOrder ==
  \A d \in Calls : stage[d] # "new" =>
    \A e \in 1..(d - 1) : IF SameRound(d, e) THEN Shown(e) ELSE Finished(e)

HeldIsPending == \A c \in Calls : Held(c) => pending[IdOf(c)] = c
PendingIsHeld == \A i \in Ids : pending[i] # 0 => Held(pending[i]) /\ IdOf(pending[i]) = i
DoneIsFinished == turn = "done" => \A c \in Calls : Finished(c)

FuturesInv == SentInOrder /\ HeldIsPending /\ PendingIsHeld /\ DoneIsFinished

\* Two calls with one id are never held at once.
LEMMA OneHolder ==
  ASSUME TypeOK, SentInOrder, NEW c \in Calls, NEW d \in Calls,
         IdOf(c) = IdOf(d), stage[c] # "new", Held(d), Held(c) \/ d < c
  PROVE  c = d
<1>1. script \in Scripts /\ c \in Int /\ d \in Int /\ c >= 1 /\ d >= 1
  BY ScriptsAssumption DEF TypeOK, Calls
<1>2. ~(d < c)
  <2> SUFFICES ASSUME d < c PROVE FALSE
    OBVIOUS
  <2>1. ~SameRound(c, d)
    BY <1>1, ScriptFacts DEF SameRound, IdOf
  <2>2. d \in 1..(c - 1)
    BY <1>1
  <2>3. Finished(d)
    BY <2>1, <2>2 DEF SentInOrder
  <2>4. QED
    BY <2>3 DEF Held, Finished
<1>3. ~(c < d /\ Held(c))
  <2> SUFFICES ASSUME c < d, Held(c) PROVE FALSE
    OBVIOUS
  <2>1. ~SameRound(d, c)
    BY <1>1, ScriptFacts DEF SameRound, IdOf
  <2>2. c \in 1..(d - 1)
    BY <1>1
  <2>3. Finished(c)
    BY <2>1, <2>2 DEF SentInOrder, Held
  <2>4. QED
    BY <2>3 DEF Held, Finished
<1>4. QED
  BY <1>1, <1>2, <1>3

\* Only the turn moves its calls and their futures' registrations, and it moves
\* them forward.
LEMMA CallsMoveForward ==
  ASSUME TypeOK, [Next]_vars
  PROVE  /\ script' = script
         /\ \/ UNCHANGED <<stage, pending>>
            \/ \E c \in Calls : TurnStep(c) /\ turn = "running" /\ turn' = turn
         /\ turn # "running" => turn' = turn /\ stage' = stage /\ pending' = pending
         /\ \A c \in Calls : /\ Shown(c) => Shown(c)'
                             /\ Finished(c) => Finished(c)'
                             /\ stage[c] # "new" => stage'[c] # "new"
<1>1. ASSUME NEW c \in Calls, TurnStep(c)
      PROVE  /\ script' = script
             /\ turn = "running" /\ turn' = turn
             /\ \A d \in Calls : /\ Shown(d) => Shown(d)'
                                 /\ Finished(d) => Finished(d)'
                                 /\ stage[d] # "new" => stage'[d] # "new"
  <2> USE DEF Advance, Shown, Finished, TypeOK
  <2>1. CASE Register(c)
    BY <2>1 DEF Register
  <2>2. CASE CheckEarly(c)
    BY <2>2 DEF CheckEarly
  <2>3. CASE DeleteEarly(c)
    BY <2>3 DEF DeleteEarly
  <2>4. CASE Push(c)
    BY <2>4 DEF Push
  <2>5. CASE Answer(c)
    BY <2>5 DEF Answer
  <2>6. CASE TimeOut(c)
    BY <2>6 DEF TimeOut
  <2>7. CASE Clear(c)
    BY <2>7 DEF Clear
  <2>8. QED
    BY <1>1, <2>1, <2>2, <2>3, <2>4, <2>5, <2>6, <2>7 DEF TurnStep
<1>2. \/ UNCHANGED <<script, stage, pending>> /\ (turn # "running" => turn' = turn)
      \/ \E c \in Calls : TurnStep(c)
  <2>1. UNCHANGED vars => UNCHANGED <<script, stage, pending, turn>>
    BY DEF vars
  <2>2. (\E c \in Calls : Abort(c)) \/ EndTurn =>
          UNCHANGED <<script, stage, pending>> /\ turn = "running"
    BY DEF Abort, EndTurn
  <2>3. (\E s \in Submits : Submit(s) \/ Handle(s)) => UNCHANGED <<script, stage, pending, turn>>
    BY DEF Submit, Handle, IsMember, Add, SetResult, Publish, Local, LockExists, turnVars
  <2>4. Listen \/ ListenerCrash => UNCHANGED <<script, stage, pending, turn>>
    BY DEF Listen, Dispatch, Deliver, ListenerCrash, turnVars
  <2>5. QED
    BY <2>1, <2>2, <2>3, <2>4 DEF Next
<1>3. QED
  BY <1>1, <1>2 DEF Shown, Finished

\* Registering, answering, giving up and clearing, step by step.
LEMMA FuturesStep ==
  ASSUME TypeOK, TypeOK', FuturesInv, [Next]_vars
  PROVE  FuturesInv'
<1> USE DEF FuturesInv
<1>1. script' = script
  BY CallsMoveForward
<1>2. SentInOrder'
  <2> SUFFICES ASSUME NEW d \in Calls, stage'[d] # "new", NEW e \in 1..(d - 1)
               PROVE  IF SameRound(d, e)' THEN Shown(e)' ELSE Finished(e)'
    BY DEF SentInOrder
  <2>1. e \in Calls
    BY ScriptsAssumption DEF Calls
  <2>2. SameRound(d, e)' <=> SameRound(d, e)
    BY <1>1 DEF SameRound
  <2>3. CASE stage[d] # "new"
    BY <2>1, <2>2, <2>3, CallsMoveForward DEF SentInOrder
  <2>4. CASE stage[d] = "new"
    <3>1. PICK c \in Calls : TurnStep(c)
      BY <2>4, CallsMoveForward
    <3>2. Register(d)
      BY <2>4, <3>1 DEF TurnStep, Register, CheckEarly, DeleteEarly, Push, Answer, TimeOut, Clear,
                        Advance, TypeOK
    <3>3. QED
      BY <2>1, <2>2, <3>2, CallsMoveForward DEF Register
  <2>5. QED
    BY <2>3, <2>4
<1>3. DoneIsFinished'
  <2>1. CASE EndTurn
    BY <2>1, CallsMoveForward DEF EndTurn, DoneIsFinished, Finished
  <2>2. CASE ~EndTurn
    <3>1. turn' = "done" => turn = "done"
      BY <2>2 DEF Next, TurnStep, Handle, Listen, Register, CheckEarly, DeleteEarly, Push, Answer,
             TimeOut, Clear, Abort, Submit, IsMember, Add, SetResult, Publish, Local, LockExists,
             Dispatch, Deliver, ListenerCrash, turnVars, vars
    <3>2. QED
      BY <3>1, CallsMoveForward DEF DoneIsFinished
  <2>3. QED
    BY <2>1, <2>2
<1>4. HeldIsPending' /\ PendingIsHeld'
  <2>1. CASE UNCHANGED <<stage, pending>>
    BY <1>1, <2>1 DEF HeldIsPending, PendingIsHeld, Held, IdOf
  <2>2. ASSUME NEW c \in Calls, Register(c) PROVE HeldIsPending' /\ PendingIsHeld'
    <3>1. /\ stage[c] = "new" /\ stage' = [stage EXCEPT ![c] = "registered"]
          /\ pending' = [pending EXCEPT ![IdOf(c)] = c]
      BY <2>2 DEF Register, Advance
    <3>2. IdOf(c) \in Ids /\ c # 0
      BY ScriptsAssumption, ScriptFacts DEF IdOf, TypeOK, Calls
    <3>3. \A d \in Calls : Held(d) => IdOf(d) # IdOf(c)
      <4> SUFFICES ASSUME NEW d \in Calls, Held(d), IdOf(d) = IdOf(c) PROVE FALSE
        OBVIOUS
      <4>1. d # c /\ c \in Int /\ d \in Int /\ d >= 1
        BY <3>1, ScriptsAssumption DEF Held, Calls
      <4>2. CASE d < c
        <5>1. ~SameRound(c, d)
          BY <4>2, ScriptFacts DEF SameRound, IdOf, TypeOK
        <5>2. d \in 1..(c - 1)
          BY <4>1, <4>2
        <5>3. Finished(d)
          BY <2>2, <5>1, <5>2 DEF Register
        <5>4. QED
          BY <5>3 DEF Held, Finished
      <4>3. CASE c < d
        <5>1. c \in 1..(d - 1)
          BY <4>1, <4>3, ScriptsAssumption DEF Calls
        <5>2. Shown(c) \/ Finished(c)
          BY <5>1 DEF SentInOrder, Held
        <5>3. QED
          BY <3>1, <5>2 DEF Shown, Finished
      <4>4. QED
        BY <4>1, <4>2, <4>3
    <3>4. \A d \in Calls : IdOf(d)' = IdOf(d) /\ IdOf(d) \in Ids
      BY <1>1, ScriptFacts DEF IdOf, TypeOK
    <3>5. \A d \in Calls : Held(d)' <=> d = c \/ Held(d)
      BY <3>1 DEF Held, TypeOK
    <3>6. HeldIsPending'
      BY <3>1, <3>2, <3>3, <3>4, <3>5 DEF HeldIsPending, TypeOK
    <3>7. PendingIsHeld'
      BY <3>1, <3>2, <3>4, <3>5 DEF PendingIsHeld, TypeOK
    <3>8. QED
      BY <3>6, <3>7
  <2>3. ASSUME NEW c \in Calls, Answer(c) \/ Clear(c) PROVE HeldIsPending' /\ PendingIsHeld'
    <3>1. PICK to \in {"answered", "timedOut"} :
            /\ stage[c] \in {"sent", "cancelled"}
            /\ stage' = [stage EXCEPT ![c] = to]
            /\ pending' = [pending EXCEPT ![IdOf(c)] = 0]
      BY <2>3 DEF Answer, Clear, Advance
    <3>2. \A d \in Calls : Held(d) /\ d # c => IdOf(d) # IdOf(c)
      BY <3>1, OneHolder DEF Held
    <3>3. \A d \in Calls : IdOf(d)' = IdOf(d) /\ IdOf(d) \in Ids
      BY <1>1, ScriptFacts DEF IdOf, TypeOK
    <3>4. \A d \in Calls : Held(d)' <=> d # c /\ Held(d)
      BY <3>1 DEF Held, TypeOK
    <3>5. HeldIsPending'
      BY <3>1, <3>2, <3>3, <3>4 DEF HeldIsPending, TypeOK
    <3>6. PendingIsHeld'
      BY <3>1, <3>2, <3>3, <3>4 DEF PendingIsHeld, TypeOK, Held
    <3>7. QED
      BY <3>5, <3>6
  <2>4. ASSUME NEW c \in Calls, CheckEarly(c) \/ DeleteEarly(c) \/ Push(c) \/ TimeOut(c)
        PROVE  HeldIsPending' /\ PendingIsHeld'
    <3>1. pending' = pending /\ \A d \in Calls : Held(d)' <=> Held(d)
      BY <2>4 DEF CheckEarly, DeleteEarly, Push, TimeOut, Advance, Held, TypeOK
    <3>2. QED
      BY <1>1, <3>1 DEF HeldIsPending, PendingIsHeld, IdOf, TypeOK
  <2>5. QED
    BY <2>1, <2>2, <2>3, <2>4, CallsMoveForward DEF TurnStep
<1>5. QED
  BY <1>2, <1>3, <1>4

\* The registered futures are those of the calls under way.
THEOREM FuturesAreHeld == Spec => []FuturesInv
<1>1. Init => FuturesInv
  BY DEF Init, FuturesInv, SentInOrder, HeldIsPending, PendingIsHeld, DoneIsFinished, Held
<1>2. TypeOK /\ TypeOK' /\ FuturesInv /\ [Next]_vars => FuturesInv'
  BY FuturesStep
<1>3. QED
  BY <1>1, <1>2, TypeCorrect, PTL DEF Spec

\* A turn that ends normally leaves no future behind, whatever failed before.
THEOREM NothingLeaks == Spec => []NoFutureLeaks
<1>1. TypeOK /\ FuturesInv => NoFutureLeaks
  BY DEF TypeOK, FuturesInv, PendingIsHeld, DoneIsFinished, NoFutureLeaks, Held, Finished
<1>2. QED
  BY <1>1, TypeCorrect, FuturesAreHeld, PTL

-----------------------------------------------------------------------------
(***************************************************************************)
(* Results.  What is stored under an id, and what a future has received,   *)
(* was submitted for a call with that id: the stored result is looked up   *)
(* by the id of the call whose future is set, and the future of the fast   *)
(* path by the id of the submission's call.                                *)
(***************************************************************************)
ResultsInv ==
  /\ \A i \in Ids : store[i] # NoResult => pc[store[i]] # "idle" /\ IdOf(target[store[i]]) = i
  /\ \A c \in Calls : future[c] # NoResult =>
       pc[future[c]] # "idle" /\ IdOf(target[future[c]]) = IdOf(c)


\* A submission keeps its call, key and place once it has begun.
LEMMA SubmissionsGoOn ==
  ASSUME TypeOK, [Next]_vars, NEW s \in Submits, pc[s] # "idle"
  PROVE  pc'[s] # "idle" /\ target'[s] = target[s] /\ key'[s] = key[s] /\ home'[s] = home[s]
<1> USE DEF TypeOK, GoTo, submission
<1>1. CASE UNCHANGED vars
  BY <1>1 DEF vars
<1>2. CASE \E c \in Calls : TurnStep(c) \/ Abort(c)
  BY <1>2 DEF TurnStep, Register, CheckEarly, DeleteEarly, Push, Answer, TimeOut, Clear, Abort
<1>3. CASE EndTurn \/ Listen \/ ListenerCrash
  BY <1>3 DEF EndTurn, Listen, Dispatch, Deliver, ListenerCrash
<1>4. CASE \E t \in Submits : Submit(t)
  BY <1>4 DEF Submit
<1>5. CASE \E t \in Submits : Handle(t)
  BY <1>5 DEF Handle, IsMember, Add, SetResult, Publish, Local, LockExists
<1>6. QED
  BY <1>1, <1>2, <1>3, <1>4, <1>5 DEF Next

\* A result is only stored, dispatched and resolved under its call's id.
LEMMA ResultsStep ==
  ASSUME TypeOK, TypeOK', FuturesInv, ResultsInv, [Next]_vars
  PROVE  ResultsInv'
<1> USE DEF TypeOK
<1>1. \A c \in Calls : IdOf(c)' = IdOf(c) /\ IdOf(c) \in Ids
  BY CallsMoveForward, ScriptFacts DEF IdOf
<1>2. CASE UNCHANGED <<store, future>>
  BY <1>1, <1>2, SubmissionsGoOn DEF ResultsInv, NoResult
<1>3. ASSUME NEW c \in Calls, CheckEarly(c) PROVE ResultsInv'
  <2>1. UNCHANGED <<store, pc, target>>
    BY <1>3 DEF CheckEarly, redis, submission
  <2>2. \/ future' = future
        \/ store[IdOf(c)] # NoResult /\ future' = [future EXCEPT ![c] = store[IdOf(c)]]
    BY <1>3 DEF CheckEarly
  <2>3. QED
    BY <1>1, <2>1, <2>2 DEF ResultsInv, NoResult
<1>4. ASSUME NEW c \in Calls, DeleteEarly(c) PROVE ResultsInv'
  <2>1. UNCHANGED <<future, pc, target>>
    BY <1>4 DEF DeleteEarly, submission
  <2>2. store' = store \/ store' = [store EXCEPT ![IdOf(c)] = NoResult]
    BY <1>4 DEF DeleteEarly
  <2>3. QED
    BY <1>1, <2>1, <2>2 DEF ResultsInv, NoResult
<1>5. ASSUME NEW s \in Submits, SetResult(s) PROVE ResultsInv'
  <2>1. UNCHANGED <<future, target>> /\ pc[s] # "idle"
    BY <1>5 DEF SetResult, submission, GoTo
  <2>2. store' = store \/ store' = [store EXCEPT ![IdOf(target[s])] = s]
    BY <1>5 DEF SetResult
  <2>3. QED
    BY <1>1, <2>1, <2>2, SubmissionsGoOn DEF ResultsInv, NoResult
<1>6. ASSUME NEW s \in Submits, Local(s) PROVE ResultsInv'
  <2>1. UNCHANGED <<store, target>> /\ pc[s] # "idle"
    BY <1>6 DEF Local, submission, redis, GoTo
  <2>2. \/ future' = future
        \/ \E c \in Calls : pending[IdOf(target[s])] = c /\ c # 0 /\ future' = [future EXCEPT ![c] = s]
    BY <1>1, <1>6 DEF Local
  <2>3. QED
    BY <1>1, <2>1, <2>2, SubmissionsGoOn DEF ResultsInv, NoResult, FuturesInv, PendingIsHeld
<1>7. ASSUME NEW k \in tasks, Deliver(k) PROVE ResultsInv'
  <2>1. UNCHANGED <<store, pc, target>> /\ k[1] \in Calls
    BY <1>7 DEF Deliver, submission, redis
  <2>2. future' = future \/ future' = [future EXCEPT ![k[1]] = store[IdOf(k[1])]]
    BY <1>7 DEF Deliver
  <2>3. QED
    BY <1>1, <2>1, <2>2 DEF ResultsInv, NoResult
<1>8. \/ UNCHANGED <<store, future>>
      \/ \E c \in Calls : CheckEarly(c) \/ DeleteEarly(c)
      \/ \E s \in Submits : SetResult(s) \/ Local(s)
      \/ \E k \in tasks : Deliver(k)
  BY DEF Next, TurnStep, Handle, Listen, Register, Push, Answer, TimeOut, Clear, Abort, EndTurn,
         Submit, IsMember, Add, Publish, LockExists, Dispatch, ListenerCrash, vars, redis
<1>9. QED
  BY <1>2, <1>3, <1>4, <1>5, <1>6, <1>7, <1>8

\* No call ever gets a result that was submitted for a call with another id.
THEOREM ResultsMatch == Spec => []ResultIsForItsCall
<1>1. Init => ResultsInv
  BY DEF Init, ResultsInv
<1>2. TypeOK /\ TypeOK' /\ FuturesInv /\ ResultsInv /\ [Next]_vars => ResultsInv'
  BY ResultsStep
<1>3. ResultsInv => ResultIsForItsCall
  BY DEF ResultsInv, ResultIsForItsCall, IdOf
<1>4. QED
  BY <1>1, <1>2, <1>3, TypeCorrect, FuturesAreHeld, PTL DEF Spec

-----------------------------------------------------------------------------
(***************************************************************************)
(* Delivery, as long as nothing has failed.  A submission that has         *)
(* recorded its key is Recorded; from its SET on, its call's id has a      *)
(* stored result until the call is finished, so that no notification comes *)
(* to nothing; and until the call has its result, one is on its way.       *)
(***************************************************************************)
Recorded(s) == pc[s] \in {"set", "publish", "local", "exists", "ok", "notFound"}
PastSet(s) == pc[s] \in {"publish", "local", "exists", "ok", "notFound"}

KeysNameTargets == \A s \in Submits : pc[s] # "idle" => key[s][1] = target[s] /\ Shown(target[s])
DuplicatesAreKnown == \A s \in Submits : pc[s] = "duplicate" => key[s] \in dedup
KeysAreRecorded == \A k \in dedup : \E s \in Submits : key[s] = k /\ Recorded(s)
StoredStays ==
  \A s \in Submits : PastSet(s) /\ Unanswered(target[s]) => store[IdOf(target[s])] # NoResult
RecordedInTransit ==
  \A s \in Submits : Recorded(s) /\ Unanswered(target[s]) => InTransit(target[s])

DeliveryInv ==
  /\ KeysNameTargets
  /\ faults = 0 => listener /\ DuplicatesAreKnown /\ KeysAreRecorded /\ StoredStays /\ RecordedInTransit

\* Failures are counted; what a step does while there is none.
LEMMA FaultsGrow ==
  ASSUME TypeOK, [Next]_vars, faults' = 0
  PROVE  faults = 0
BY DEF Next, TurnStep, Handle, Listen, Register, CheckEarly, DeleteEarly, Push, Answer, TimeOut,
       Clear, Abort, EndTurn, Submit, IsMember, Add, SetResult, Publish, Local, LockExists, Dispatch,
       Deliver, ListenerCrash, vars, Fault, TypeOK

\* A call that the turn waits for was waited for before, once it was shown.
LEMMA StillUnanswered ==
  ASSUME TypeOK, [Next]_vars, NEW c \in Calls, Shown(c), Unanswered(c)'
  PROVE  Unanswered(c)
<1> USE DEF TypeOK, Unanswered
<1>1. turn = "running"
  BY CallsMoveForward
<1>2. stage[c] = "sent"
  <2>1. CASE UNCHANGED stage
    BY <2>1
  <2>2. CASE \E d \in Calls : TurnStep(d)
    BY <2>2 DEF TurnStep, Register, CheckEarly, DeleteEarly, Push, Answer, TimeOut, Clear, Advance, Shown
  <2>3. QED
    BY <2>1, <2>2, CallsMoveForward
<1>3. future[c] = NoResult
  <2>1. CASE UNCHANGED future
    BY <2>1
  <2>2. CASE \E d \in Calls : CheckEarly(d)
    BY <2>2 DEF CheckEarly, Done
  <2>3. CASE \E s \in Submits : Local(s)
    BY <2>3 DEF Local, Done
  <2>4. CASE \E k \in tasks : Deliver(k)
    BY <2>4 DEF Deliver, Done
  <2>5. QED
    BY <2>1, <2>2, <2>3, <2>4
    DEF Next, TurnStep, Handle, Listen, Register, DeleteEarly, Push, Answer, TimeOut, Clear,
        Abort, EndTurn, Submit, IsMember, Add, SetResult, Publish, LockExists, Dispatch,
        ListenerCrash, vars
<1>4. QED
  BY <1>1, <1>2, <1>3

\* The turn's own steps neither take a result away nor remove what is stored
\* for a call that waits: only the holder of its id could.
LEMMA TurnKeepsDelivery ==
  ASSUME TypeOK, TypeOK', FuturesInv, DeliveryInv, [Next]_vars, faults' = 0,
         EndTurn \/ (\E c \in Calls : TurnStep(c)) \/ UNCHANGED vars
  PROVE  DeliveryInv'
<1> USE DEF TypeOK, DeliveryInv
<1>1. UNCHANGED <<dedup, listener, notes, tasks, pc, target, key, home>>
  BY DEF EndTurn, TurnStep, Register, CheckEarly, DeleteEarly, Push, Answer, TimeOut, Clear, vars,
         redis, pubsub, submission
<1>2. faults = 0
  BY FaultsGrow
<1>3. \A c \in Calls : IdOf(c)' = IdOf(c) /\ IdOf(c) \in Ids
  BY CallsMoveForward, ScriptFacts DEF IdOf
<1>4. KeysNameTargets'
  BY <1>1, CallsMoveForward DEF KeysNameTargets
<1>5. listener' /\ DuplicatesAreKnown' /\ KeysAreRecorded'
  BY <1>1, <1>2 DEF DuplicatesAreKnown, KeysAreRecorded, Recorded
<1>6. RecordedInTransit'
  <2> SUFFICES ASSUME NEW s \in Submits, Recorded(s)', Unanswered(target[s])' PROVE InTransit(target[s])'
    BY DEF RecordedInTransit
  <2>1. target'[s] = target[s] /\ target[s] \in Calls /\ Recorded(s) /\ Shown(target[s])
    BY <1>1 DEF Recorded, KeysNameTargets
  <2>2. Unanswered(target[s])
    BY <2>1, StillUnanswered DEF Unanswered
  <2>3. InTransit(target[s])
    BY <1>2, <2>1, <2>2 DEF RecordedInTransit
  <2>4. QED
    BY <1>1, <1>3, <2>1, <2>3 DEF InTransit
<1>7. StoredStays'
  <2> SUFFICES ASSUME NEW s \in Submits, PastSet(s)', Unanswered(target[s])'
               PROVE  store'[IdOf(target[s])'] # NoResult
    BY DEF StoredStays
  <2> DEFINE c == target[s]
  <2>1. target'[s] = c /\ c \in Calls /\ PastSet(s) /\ Shown(c) /\ IdOf(c)' = IdOf(c)
    BY <1>1, <1>3 DEF PastSet, KeysNameTargets
  <2>2. Unanswered(c)
    BY <2>1, StillUnanswered DEF Unanswered
  <2>3. store[IdOf(c)] # NoResult
    BY <1>2, <2>1, <2>2 DEF StoredStays
  <2>4. ASSUME NEW d \in Calls, DeleteEarly(d) PROVE IdOf(d) # IdOf(c)
    <3>1. stage[d] = "found" /\ stage[c] = "sent"
      BY <2>2, <2>4 DEF DeleteEarly, Advance, Unanswered
    <3>2. QED
      BY <2>1, <3>1, OneHolder DEF Held, FuturesInv
  <2>5. store'[IdOf(c)] # NoResult
    BY <1>3, <2>1, <2>3, <2>4 DEF EndTurn, TurnStep, Register, CheckEarly, DeleteEarly, Push, Answer,
         TimeOut, Clear, vars, redis
  <2>6. QED
    BY <2>1, <2>5
<1>8. QED
  BY <1>4, <1>5, <1>6, <1>7

\* A call that waits is named by its pending entry and can still be resolved.
LEMMA WaitingIsPending ==
  ASSUME TypeOK, FuturesInv, NEW c \in Calls, Unanswered(c)
  PROVE  pending[IdOf(c)] = c /\ ~Done(c) /\ c # 0
<1>1. c # 0
  BY ScriptsAssumption DEF Calls
<1>2. Held(c) /\ ~Done(c)
  BY DEF Held, Unanswered, Done
<1>3. QED
  BY <1>1, <1>2 DEF FuturesInv, HeldIsPending

\* A submission's own steps: each hands the result over to the next carrier.
LEMMA SubmissionsKeepDelivery ==
  ASSUME TypeOK, TypeOK', FuturesInv, DeliveryInv, [Next]_vars, faults' = 0,
         NEW s \in Submits, Submit(s) \/ Handle(s)
  PROVE  DeliveryInv'
<1> USE DEF TypeOK, DeliveryInv
<1>1. faults = 0 /\ faults' = faults
  BY FaultsGrow
<1>2. \A c \in Calls : IdOf(c)' = IdOf(c) /\ IdOf(c) \in Ids
  BY CallsMoveForward, ScriptFacts DEF IdOf
<1>3. UNCHANGED <<script, turn, stage, pending, listener, tasks>>
  BY DEF Submit, Handle, IsMember, Add, SetResult, Publish, Local, LockExists, turnVars, redis,
         pubsub, submission
<1>4. \A t \in Submits \ {s} : /\ pc'[t] = pc[t] /\ target'[t] = target[t]
                               /\ key'[t] = key[t] /\ home'[t] = home[t]
  BY DEF Submit, Handle, IsMember, Add, SetResult, Publish, Local, LockExists, submission, GoTo
<1>5. \A c \in Calls : Unanswered(c)' => Unanswered(c)
  <2> SUFFICES ASSUME NEW c \in Calls, Unanswered(c)' PROVE Unanswered(c)
    OBVIOUS
  <2>1. Shown(c)
    BY <1>3 DEF Shown, Unanswered
  <2>2. QED
    BY <2>1, StillUnanswered
<1>6. CASE Submit(s)
  <2>1. /\ pc[s] = "idle" /\ pc'[s] = "isMember" /\ UNCHANGED <<store, dedup, notes, future>>
        /\ \E c \in Calls, n \in Attempts : Shown(c) /\ target'[s] = c /\ key'[s] = <<c, n>>
    BY <1>6 DEF Submit, GoTo, redis, pubsub
  <2>2. KeysNameTargets'
    BY <1>3, <1>4, <2>1 DEF KeysNameTargets, Shown
  <2>3. DuplicatesAreKnown' /\ KeysAreRecorded'
    BY <1>1, <1>4, <2>1 DEF DuplicatesAreKnown, KeysAreRecorded, Recorded
  <2>4. StoredStays'
    BY <1>1, <1>2, <1>4, <1>5, <2>1 DEF StoredStays, PastSet
  <2>5. \A c \in Calls : InTransit(c) => InTransit(c)'
    BY <1>2, <1>3, <1>4, <2>1 DEF InTransit
  <2>6. RecordedInTransit'
    BY <1>1, <1>4, <1>5, <2>1, <2>5 DEF RecordedInTransit, Recorded
  <2>7. QED
    BY <1>1, <1>3, <2>2, <2>3, <2>4, <2>6
<1>7. CASE Handle(s)
  <2>1. pc[s] # "idle" /\ pc'[s] # "idle" /\ UNCHANGED <<target, key, home>>
    BY <1>7 DEF Handle, IsMember, Add, SetResult, Publish, Local, LockExists, GoTo, submission
  <2>2. KeysNameTargets'
    BY <1>3, <1>4, <2>1 DEF KeysNameTargets, Shown
  <2>3. CASE IsMember(s)
    <3>1. /\ pc[s] = "isMember" /\ pc' = [pc EXCEPT ![s] = IF key[s] \in dedup THEN "duplicate" ELSE "add"]
          /\ UNCHANGED <<store, dedup, notes, future>>
      BY <1>1, <2>3 DEF IsMember, GoTo, Fault, redis, pubsub
    <3>2. DuplicatesAreKnown' /\ KeysAreRecorded' /\ StoredStays'
      BY <1>1, <1>2, <1>5, <2>1, <3>1 DEF DuplicatesAreKnown, KeysAreRecorded, Recorded, StoredStays, PastSet
    <3>3. \A c \in Calls : InTransit(c) => InTransit(c)'
      BY <1>2, <1>3, <2>1, <3>1 DEF InTransit
    <3>4. RecordedInTransit'
      BY <1>1, <1>5, <2>1, <3>1, <3>3 DEF RecordedInTransit, Recorded
    <3>5. QED
      BY <1>1, <1>3, <2>2, <3>2, <3>4
  <2>4. CASE Add(s)
    <3>1. /\ pc[s] = "add" /\ pc' = [pc EXCEPT ![s] = "set"]
          /\ dedup' = dedup \cup {key[s]} /\ UNCHANGED <<store, notes, future>>
      BY <1>1, <2>4 DEF Add, GoTo, Fault, pubsub
    <3>2. DuplicatesAreKnown' /\ KeysAreRecorded' /\ StoredStays'
      BY <1>1, <1>2, <1>5, <2>1, <3>1 DEF DuplicatesAreKnown, KeysAreRecorded, Recorded, StoredStays, PastSet
    <3>3. \A c \in Calls : InTransit(c) \/ c = target[s] => InTransit(c)'
      BY <1>2, <1>3, <2>1, <3>1 DEF InTransit
    <3>4. RecordedInTransit'
      BY <1>1, <1>5, <2>1, <3>1, <3>3 DEF RecordedInTransit, Recorded
    <3>5. QED
      BY <1>1, <1>3, <2>2, <3>2, <3>4
  <2>5. CASE SetResult(s)
    <3>1. /\ pc[s] = "set" /\ pc' = [pc EXCEPT ![s] = "publish"]
          /\ store' = [store EXCEPT ![IdOf(target[s])] = s] /\ UNCHANGED <<dedup, notes, future>>
      BY <1>1, <2>5 DEF SetResult, GoTo, Fault, pubsub
    <3>2. s # NoResult
      BY ScriptsAssumption DEF Submits, NoResult
    <3>3. DuplicatesAreKnown' /\ KeysAreRecorded'
      BY <1>1, <2>1, <3>1 DEF DuplicatesAreKnown, KeysAreRecorded, Recorded
    <3>4. StoredStays'
      BY <1>1, <1>2, <1>5, <2>1, <3>1, <3>2 DEF StoredStays, PastSet
    <3>5. \A c \in Calls : InTransit(c) => InTransit(c)'
      BY <1>2, <1>3, <2>1, <3>1 DEF InTransit
    <3>6. RecordedInTransit'
      BY <1>1, <1>5, <2>1, <3>1, <3>5 DEF RecordedInTransit, Recorded
    <3>7. QED
      BY <1>1, <1>3, <2>2, <3>3, <3>4, <3>6
  <2>6. CASE Publish(s)
    <3>1. /\ pc[s] = "publish" /\ pc' = [pc EXCEPT ![s] = "local"]
          /\ notes' = notes \cup {<<IdOf(target[s]), s>>} /\ UNCHANGED <<store, dedup, future>>
      BY <1>1, <2>6 DEF Publish, GoTo, Fault, redis
    <3>2. DuplicatesAreKnown' /\ KeysAreRecorded' /\ StoredStays'
      BY <1>1, <1>2, <1>5, <2>1, <3>1 DEF DuplicatesAreKnown, KeysAreRecorded, Recorded, StoredStays, PastSet
    <3>3. \A c \in Calls : InTransit(c) => InTransit(c)'
      <4> SUFFICES ASSUME NEW c \in Calls, InTransit(c) PROVE InTransit(c)'
        OBVIOUS
      <4>1. CASE c = target[s]
        <5>1. <<IdOf(c)', s>> \in notes'
          BY <1>2, <3>1, <4>1
        <5>2. QED
          BY <5>1 DEF InTransit
      <4>2. CASE c # target[s]
        BY <1>2, <1>3, <2>1, <3>1, <4>2 DEF InTransit
      <4>3. QED
        BY <4>1, <4>2
    <3>4. RecordedInTransit'
      BY <1>1, <1>5, <2>1, <3>1, <3>3 DEF RecordedInTransit, Recorded
    <3>5. QED
      BY <1>1, <1>3, <2>2, <3>2, <3>4
  <2>7. CASE Local(s)
    <3>1. /\ pc[s] = "local" /\ UNCHANGED <<store, dedup, notes>>
          /\ \E to \in {"ok", "exists"} : pc' = [pc EXCEPT ![s] = to]
      BY <2>7 DEF Local, GoTo, redis, pubsub
    <3>2. DuplicatesAreKnown' /\ KeysAreRecorded' /\ StoredStays'
      BY <1>1, <1>2, <1>5, <2>1, <3>1 DEF DuplicatesAreKnown, KeysAreRecorded, Recorded, StoredStays, PastSet
    <3>3. ~(home[s] /\ Unanswered(target[s])')
      <4> SUFFICES ASSUME home[s], Unanswered(target[s])' PROVE FALSE
        OBVIOUS
      <4>1. pending[IdOf(target[s])] = target[s] /\ ~Done(target[s]) /\ target[s] # 0
        BY <1>5, WaitingIsPending, <2>1 DEF Unanswered
      <4>2. future'[target[s]] = s
        BY <2>7, <4>1 DEF Local
      <4>3. QED
        BY <2>1, <4>2, ScriptsAssumption DEF Unanswered, Submits, NoResult
    <3>4. \A c \in Calls : InTransit(c) /\ Unanswered(c)' => InTransit(c)'
      BY <1>2, <1>3, <2>1, <3>1, <3>3 DEF InTransit
    <3>5. RecordedInTransit'
      BY <1>1, <1>5, <2>1, <3>1, <3>4 DEF RecordedInTransit, Recorded
    <3>6. QED
      BY <1>1, <1>3, <2>2, <3>2, <3>5
  <2>8. CASE LockExists(s)
    <3>1. /\ pc[s] = "exists" /\ UNCHANGED <<store, dedup, notes, future>>
          /\ \E to \in {"ok", "notFound"} : pc' = [pc EXCEPT ![s] = to]
      BY <2>8 DEF LockExists, GoTo, redis, pubsub
    <3>2. DuplicatesAreKnown' /\ KeysAreRecorded' /\ StoredStays'
      BY <1>1, <1>2, <1>5, <2>1, <3>1 DEF DuplicatesAreKnown, KeysAreRecorded, Recorded, StoredStays, PastSet
    <3>3. \A c \in Calls : InTransit(c) => InTransit(c)'
      BY <1>2, <1>3, <2>1, <3>1 DEF InTransit
    <3>4. RecordedInTransit'
      BY <1>1, <1>5, <2>1, <3>1, <3>3 DEF RecordedInTransit, Recorded
    <3>5. QED
      BY <1>1, <1>3, <2>2, <3>2, <3>4
  <2>9. QED
    BY <1>7, <2>3, <2>4, <2>5, <2>6, <2>7, <2>8 DEF Handle
<1>8. QED
  BY <1>6, <1>7

\* The listener hands a notification to a task, and a task sets the future: the
\* stored result is still there.
LEMMA ListenerKeepsDelivery ==
  ASSUME TypeOK, TypeOK', FuturesInv, DeliveryInv, [Next]_vars, faults' = 0, Listen
  PROVE  DeliveryInv'
<1> USE DEF TypeOK, DeliveryInv
<1>1. faults = 0 /\ faults' = faults
  BY FaultsGrow
<1>2. UNCHANGED <<script, turn, stage, pending, listener, store, dedup, pc, target, key, home>>
  BY DEF Listen, Dispatch, Deliver, turnVars, redis, submission
<1>3. \A c \in Calls : IdOf(c)' = IdOf(c) /\ IdOf(c) \in Ids
  BY CallsMoveForward, ScriptFacts DEF IdOf
<1>4. \A c \in Calls : Unanswered(c)' => Unanswered(c)
  <2> SUFFICES ASSUME NEW c \in Calls, Unanswered(c)' PROVE Unanswered(c)
    OBVIOUS
  <2>1. Shown(c)
    BY <1>2 DEF Shown, Unanswered
  <2>2. QED
    BY <2>1, StillUnanswered
<1>5. /\ KeysNameTargets' /\ DuplicatesAreKnown' /\ KeysAreRecorded' /\ StoredStays'
  BY <1>1, <1>2, <1>3, <1>4
  DEF KeysNameTargets, Shown, DuplicatesAreKnown, KeysAreRecorded, Recorded, StoredStays, PastSet
<1>6. RecordedInTransit'
  <2> SUFFICES ASSUME NEW s \in Submits, Recorded(s)', Unanswered(target[s])' PROVE InTransit(target[s])'
    BY DEF RecordedInTransit
  <2> DEFINE c == target[s]
  <2>1. target'[s] = c /\ c \in Calls /\ Recorded(s) /\ Unanswered(c) /\ IdOf(c)' = IdOf(c)
    BY <1>2, <1>3, <1>4 DEF Recorded, Unanswered
  <2>2. InTransit(c)
    BY <1>1, <2>1 DEF RecordedInTransit
  <2>3. ASSUME NEW n \in notes, Dispatch(n) PROVE InTransit(c)'
    <3>1. pending[IdOf(c)] = c /\ ~Done(c) /\ c # 0
      BY <2>1, WaitingIsPending
    <3>2. n[1] = IdOf(c) => <<c, n[2]>> \in tasks'
      BY <2>3, <3>1 DEF Dispatch
    <3>3. tasks \subseteq tasks' /\ notes' = notes \ {n}
      BY <2>3 DEF Dispatch
    <3>4. QED
      BY <1>2, <2>1, <2>2, <3>2, <3>3 DEF InTransit
  <2>4. ASSUME NEW k \in tasks, Deliver(k) PROVE InTransit(c)'
    <3>1. tasks' = tasks \ {k} /\ UNCHANGED notes
      BY <2>4 DEF Deliver
    <3>2. k[1] = c => ~PastSet(s)
      <4> SUFFICES ASSUME k[1] = c, PastSet(s) PROVE FALSE
        OBVIOUS
      <4>1. store[IdOf(c)] # NoResult
        BY <1>1, <2>1 DEF StoredStays
      <4>2. ~Done(c)
        BY <2>1, WaitingIsPending
      <4>3. future'[c] = store[IdOf(c)]
        BY <1>1, <2>1, <2>4, <4>2 DEF Deliver, Fault
      <4>4. QED
        BY <2>1, <4>1, <4>3 DEF Unanswered
    <3>3. ~PastSet(s) => InTransit(c)'
      BY <1>2, <2>1 DEF PastSet, Recorded, InTransit
    <3>4. QED
      BY <1>2, <2>1, <2>2, <3>1, <3>2, <3>3 DEF InTransit
  <2>5. QED
    BY <2>1, <2>3, <2>4 DEF Listen
<1>7. QED
  BY <1>1, <1>2, <1>5, <1>6

\* No step takes an acknowledged result out of transit but its delivery.
LEMMA DeliveryStep ==
  ASSUME TypeOK, TypeOK', FuturesInv, DeliveryInv, [Next]_vars
  PROVE  DeliveryInv'
<1>1. KeysNameTargets'
  <2> SUFFICES ASSUME NEW s \in Submits, pc'[s] # "idle"
               PROVE  key'[s][1] = target'[s] /\ Shown(target[s])'
    BY DEF KeysNameTargets
  <2>1. CASE pc[s] # "idle"
    BY <2>1, SubmissionsGoOn, CallsMoveForward DEF DeliveryInv, KeysNameTargets, TypeOK
  <2>2. CASE pc[s] = "idle"
    <3>1. Submit(s)
      BY <2>2 DEF Next, TurnStep, Handle, Listen, Register, CheckEarly, DeleteEarly, Push, Answer,
             TimeOut, Clear, Abort, EndTurn, Submit, IsMember, Add, SetResult, Publish, Local,
             LockExists, Dispatch, Deliver, ListenerCrash, vars, GoTo, TypeOK
    <3>2. QED
      BY <3>1 DEF Submit, turnVars, Shown, TypeOK
  <2>3. QED
    BY <2>1, <2>2
<1>2. CASE faults' = 0
  <2>1. ~(\E c \in Calls : Abort(c)) /\ ~ListenerCrash
    BY <1>2 DEF Abort, ListenerCrash, Fault, TypeOK
  <2>2. QED
    BY <1>2, <2>1, TurnKeepsDelivery, SubmissionsKeepDelivery, ListenerKeepsDelivery DEF Next
<1>3. QED
  BY <1>1, <1>2 DEF DeliveryInv

\* As long as nothing fails, a result that was answered with 200, as new or as a
\* duplicate, reaches its call unless the call got another or timed out.
THEOREM ResultsAreDelivered == Spec => []ReportedResultIsDelivered
<1>1. Init => DeliveryInv
  BY DEF Init, DeliveryInv, KeysNameTargets, DuplicatesAreKnown, KeysAreRecorded, StoredStays,
         RecordedInTransit, Recorded, PastSet
<1>2. TypeOK /\ TypeOK' /\ FuturesInv /\ DeliveryInv /\ [Next]_vars => DeliveryInv'
  BY DeliveryStep
<1>3. TypeOK /\ DeliveryInv => ReportedResultIsDelivered
  <2> SUFFICES ASSUME TypeOK, DeliveryInv, faults = 0, NEW s \in Submits,
                      pc[s] \in {"ok", "duplicate"}, Unanswered(target[s])
               PROVE  InTransit(target[s])
    BY DEF ReportedResultIsDelivered
  <2>1. PICK t \in Submits : Recorded(t) /\ target[t] = target[s]
    <3>1. CASE pc[s] = "ok"
      BY <3>1 DEF Recorded
    <3>2. CASE pc[s] = "duplicate"
      <4>1. PICK t \in Submits : key[t] = key[s] /\ Recorded(t)
        BY <3>2 DEF DeliveryInv, DuplicatesAreKnown, KeysAreRecorded
      <4>2. QED
        BY <3>2, <4>1 DEF DeliveryInv, KeysNameTargets, Recorded
    <3>3. QED
      BY <3>1, <3>2
  <2>2. QED
    BY <2>1 DEF DeliveryInv, RecordedInTransit
<1>4. QED
  BY <1>1, <1>2, <1>3, TypeCorrect, FuturesAreHeld, PTL DEF Spec

-----------------------------------------------------------------------------
(***************************************************************************)
(* The turn store: a running turn keeps its lock, and every store, a       *)
(* worker's memory or Redis, implements the turn contract by itself.       *)
(***************************************************************************)

\* The steps that only move a handler or a turn on.
Waits(t) ==
  CheckRequest(t) \/ GetHolder(t) \/ ClearGet(t) \/ CommandFails(t)

\* Every reachable state is well typed.
THEOREM FallbackTypeCorrect == FallbackSpec => []FallbackTypeOK
<1>1. FallbackInit => FallbackTypeOK
  BY ModeAssumption DEF FallbackInit, FallbackTypeOK, Stores, Stops
<1>2. FallbackTypeOK /\ [FallbackNext]_fallbackVars => FallbackTypeOK'
  <2> SUFFICES ASSUME FallbackTypeOK, [FallbackNext]_fallbackVars PROVE FallbackTypeOK'
    OBVIOUS
  <2> USE ModeAssumption DEF FallbackTypeOK, Stores, Stops, stores, Move
  <2>1. ASSUME NEW t \in Turns, NEW w \in Workers, Decline(t, w) \/ Ask(t, w)
        PROVE  FallbackTypeOK'
    BY <2>1 DEF Decline, Ask
  <2>2. ASSUME NEW t \in Turns, NEW w \in Workers, Start(t, w)
        PROVE  FallbackTypeOK'
    BY <2>2 DEF Start, Remember
  <2>3. ASSUME NEW t \in Turns, Waits(t)
        PROVE  FallbackTypeOK'
    BY <2>3 DEF Waits, CheckRequest, GetHolder, ClearGet, CommandFails
  <2>4. ASSUME NEW t \in Turns, SetLock(t)
        PROVE  FallbackTypeOK'
    BY <2>4 DEF SetLock
  <2>5. ASSUME NEW t \in Turns, StoreMeta(t) \/ MapRequest(t) \/ Spawn(t)
        PROVE  FallbackTypeOK'
    BY <2>5 DEF StoreMeta, MapRequest, Spawn
  <2>6. ASSUME NEW t \in Turns, FinishTurn(t)
        PROVE  FallbackTypeOK'
    BY <2>6 DEF FinishTurn, Release
  <2>7. ASSUME NEW t \in Turns, ClearDel(t) \/ ClearMeta(t)
        PROVE  FallbackTypeOK'
    BY <2>7 DEF ClearDel, ClearMeta
  <2>8. ASSUME NEW w \in Workers, Connect(w) \/ Crash(w)
        PROVE  FallbackTypeOK'
    <3>1. CASE Connect(w)
      BY <3>1 DEF Connect
    <3>2. CASE Crash(w)
      <4>1. mishaps' \in 0..MaxMishaps
        BY <3>2 DEF Crash
      <4>2. at' \in [Turns -> Stops] /\ connected' \subseteq Workers
        BY <3>2 DEF Crash
      <4>3. owner' \in [Workers \cup {NoWorker} -> [Requests -> Turns \cup {NoTurn}]]
        BY <3>2 DEF Crash
      <4> QED
        BY <3>2, <4>1, <4>2, <4>3 DEF Crash
    <3> QED
      BY <2>8, <3>1, <3>2
  <2>9. ASSUME ExpireLock \/ ExpireMeta \/ \E r \in Requests : ExpireRequest(r)
        PROVE  FallbackTypeOK'
    BY <2>9 DEF ExpireLock, ExpireMeta, ExpireRequest
  <2>10. CASE UNCHANGED fallbackVars
    BY <2>10 DEF fallbackVars
  <2> QED
    BY <2>1, <2>2, <2>3, <2>4, <2>5, <2>6, <2>7, <2>8, <2>9, <2>10
    DEF FallbackNext, Continue, Waits
<1> QED
  BY <1>1, <1>2, PTL DEF FallbackSpec

-----------------------------------------------------------------------------
\* The steps of a handler up to the task, and those that believe in its lock: a
\* turn whose end is being cleared on Redis holds the lock there from the GET
\* that found it to the DEL, and no other turn's lock names it.
Asking == {"getReq", "setLock", "getHolder", "hset", "setReq", "spawn"}
Owning == {"hset", "setReq", "spawn", "running"}

HoldsItsLock ==
  \A t \in Turns :
    /\ at[t] \in Owning => lock[origin[t]] = t
    /\ at[t] = "clearDel" => lock[NoWorker] = t
    /\ at[t] \in Asking \cup {"idle"} => origin[t] = NoWorker /\ t \notin spent
    /\ Living(t) => origin[t] \in {place[t], NoWorker}
    /\ \A s \in Stores : lock[s] = t => origin[t] = s /\ at[t] # "idle"

\* No command, change of backend, failure, crash or expiry takes a turn's lock
\* away before it is cleared.
LEMMA HoldsItsLockStep ==
  ASSUME FallbackTypeOK, HoldsItsLock, [FallbackNext]_fallbackVars
  PROVE  HoldsItsLock'
<1> USE TurnsAssumption DEF FallbackTypeOK, Stores, Stops, stores, Move, HoldsItsLock,
                            Asking, Owning, Living
<1>1. ASSUME NEW t \in Turns, NEW w \in Workers, Decline(t, w) \/ Ask(t, w)
      PROVE  HoldsItsLock'
  BY <1>1 DEF Decline, Ask
<1>2. ASSUME NEW t \in Turns, NEW w \in Workers, Start(t, w)
      PROVE  HoldsItsLock'
  BY <1>2 DEF Start, Remember, Free
<1>3. ASSUME NEW t \in Turns, Waits(t)
      PROVE  HoldsItsLock'
  BY <1>3 DEF Waits, CheckRequest, GetHolder, ClearGet, CommandFails, AtRedis
<1>4. ASSUME NEW t \in Turns, SetLock(t)
      PROVE  HoldsItsLock'
  BY <1>4 DEF SetLock, Free
<1>5. ASSUME NEW t \in Turns, StoreMeta(t) \/ MapRequest(t) \/ Spawn(t)
      PROVE  HoldsItsLock'
  BY <1>5 DEF StoreMeta, MapRequest, Spawn
<1>6. ASSUME NEW t \in Turns, FinishTurn(t)
      PROVE  HoldsItsLock'
  BY <1>6 DEF FinishTurn, Release
<1>7. ASSUME NEW t \in Turns, ClearDel(t) \/ ClearMeta(t)
      PROVE  HoldsItsLock'
  BY <1>7 DEF ClearDel, ClearMeta
<1>8. ASSUME NEW w \in Workers, Connect(w)
      PROVE  HoldsItsLock'
  BY <1>8 DEF Connect
<1>9. ASSUME NEW w \in Workers, Crash(w)
      PROVE  HoldsItsLock'
  BY <1>9 DEF Crash
<1>10. ASSUME ExpireLock \/ ExpireMeta \/ \E r \in Requests : ExpireRequest(r)
       PROVE  HoldsItsLock'
  BY <1>10 DEF ExpireLock, ExpireMeta, ExpireRequest
<1>11. CASE UNCHANGED fallbackVars
  BY <1>11 DEF fallbackVars
<1> QED
  BY <1>1, <1>2, <1>3, <1>4, <1>5, <1>6, <1>7, <1>8, <1>9, <1>10, <1>11
  DEF FallbackNext, Continue, Waits

\* Whatever workers connect and crash, a running turn holds the lock of the store
\* that accepted it.
THEOREM LockIsHeld == FallbackSpec => []RunningTurnHoldsLock
<1>1. FallbackInit => HoldsItsLock
  BY TurnsAssumption DEF FallbackInit, HoldsItsLock, Stores, Asking, Owning, Living
<1>2. FallbackTypeOK /\ HoldsItsLock /\ [FallbackNext]_fallbackVars => HoldsItsLock'
  BY HoldsItsLockStep
<1>3. HoldsItsLock => RunningTurnHoldsLock
  BY DEF HoldsItsLock, RunningTurnHoldsLock, Running, Owning
<1> QED
  BY <1>1, <1>2, <1>3, FallbackTypeCorrect, PTL DEF FallbackSpec

-----------------------------------------------------------------------------
\* The contract's view of the observed store.
Active == {t \in Running : origin[t] = Observed}
Spent == {t \in spent : origin[t] = Observed}

\* Every step is one of the observed store's contract, or none of its business.
LEMMA StepImplementsContract ==
  ASSUME FallbackTypeOK, HoldsItsLock, [FallbackNext]_fallbackVars
  PROVE  [Contract!Next]_Contract!contractVars
<1> USE TurnsAssumption, ObservedAssumption
      DEF FallbackTypeOK, Stores, Stops, stores, Move, Running, Contract!contractVars
<1>1. ASSUME NEW t \in Turns, NEW w \in Workers, Decline(t, w) \/ Ask(t, w)
      PROVE  UNCHANGED Contract!contractVars
  BY <1>1 DEF Decline, Ask
<1>2. ASSUME NEW t \in Turns, NEW w \in Workers, Start(t, w)
      PROVE  (\E r \in Requests : Contract!Accept(r, t)) \/ UNCHANGED Contract!contractVars
  <2>1. t \notin spent /\ at[t] = "idle" /\ origin' = [origin EXCEPT ![t] = w]
    BY <1>2 DEF Start, HoldsItsLock, Asking
  <2>2. Running' = Running \cup {t} /\ spent' = spent \cup {t}
    BY <1>2 DEF Start
  <2>3. CASE w = Observed
    <3>1. Active = {}
      BY <1>2, <2>3 DEF Start, Free, HoldsItsLock, Owning, Active
    <3>2. Active' = {t}
      BY <2>1, <2>2, <2>3, <3>1 DEF Active
    <3>3. t \notin Spent /\ Spent' = Spent \cup {t}
      BY <2>1, <2>2, <2>3 DEF Spent
    <3>4. /\ owner[Observed][req[t]] = NoTurn
          /\ owner[Observed]' = [owner[Observed] EXCEPT ![req[t]] = t]
      BY <1>2, <2>3 DEF Start, Remember
    <3> QED
      BY <3>1, <3>2, <3>3, <3>4 DEF Contract!Accept, Contract!Begin, Active, Spent
  <2>4. CASE w # Observed
    <3>1. owner'[Observed] = owner[Observed]
      BY <1>2, <2>4 DEF Start, Remember
    <3>2. Active' = Active /\ Spent' = Spent
      BY <2>1, <2>2, <2>4 DEF Active, Spent
    <3> QED
      BY <3>1, <3>2 DEF Active, Spent
  <2> QED
    BY <2>3, <2>4
<1>3. ASSUME NEW t \in Turns, Waits(t) \/ SetLock(t) \/ StoreMeta(t)
      PROVE  UNCHANGED Contract!contractVars
  BY <1>3 DEF Waits, CheckRequest, GetHolder, ClearGet, CommandFails, SetLock, StoreMeta, AtRedis
<1>4. ASSUME NEW t \in Turns, MapRequest(t)
      PROVE  (\E r \in Requests : Contract!Accept(r, t)) \/ UNCHANGED Contract!contractVars
  <2>1. UNCHANGED <<Running, origin, spent>> /\ t \notin spent
    BY <1>4 DEF MapRequest, HoldsItsLock, Asking
  <2>2. CASE Observed = NoWorker
    <3>1. owner[Observed]' = [owner[Observed] EXCEPT ![req[t]] = t]
      BY <1>4, <2>2 DEF MapRequest
    <3> QED
      BY <2>1, <2>2, <3>1 DEF Contract!Accept
  <2>3. CASE Observed # NoWorker
    BY <1>4, <2>1, <2>3 DEF MapRequest
  <2> QED
    BY <2>2, <2>3
<1>5. ASSUME NEW t \in Turns, Spawn(t)
      PROVE  Contract!BeginAccepted(t) \/ UNCHANGED Contract!contractVars
  <2>1. t \notin spent /\ origin[t] = NoWorker /\ lock[NoWorker] = t
    BY <1>5 DEF Spawn, HoldsItsLock, Asking, Owning
  <2>2. Running' = Running \cup {t} /\ spent' = spent \cup {t} /\ UNCHANGED <<origin, owner>>
    BY <1>5 DEF Spawn
  <2>3. CASE Observed = NoWorker
    <3>1. Active = {}
      BY <1>5, <2>1, <2>3 DEF Spawn, HoldsItsLock, Owning, Active
    <3>2. Active' = {t}
      BY <2>1, <2>2, <2>3, <3>1 DEF Active
    <3>3. t \notin Spent /\ Spent' = Spent \cup {t}
      BY <2>1, <2>2, <2>3 DEF Spent
    <3> QED
      BY <2>2, <3>1, <3>2, <3>3 DEF Contract!BeginAccepted, Contract!Begin, Active, Spent
  <2>4. CASE Observed # NoWorker
    <3>1. Active' = Active /\ Spent' = Spent
      BY <2>1, <2>2, <2>4 DEF Active, Spent
    <3> QED
      BY <2>2, <3>1 DEF Active, Spent
  <2> QED
    BY <2>3, <2>4
<1>6. ASSUME NEW t \in Turns, FinishTurn(t)
      PROVE  Contract!Finish(t) \/ UNCHANGED Contract!contractVars
  <2>1. t \in Running /\ Running' = Running \ {t}
    BY <1>6 DEF FinishTurn
  <2>2. UNCHANGED <<origin, owner, spent>>
    BY <1>6 DEF FinishTurn
  <2> QED
    BY <2>1, <2>2 DEF Contract!Finish
<1>7. ASSUME NEW t \in Turns, ClearDel(t) \/ ClearMeta(t)
      PROVE  UNCHANGED Contract!contractVars
  BY <1>7 DEF ClearDel, ClearMeta
<1>8. ASSUME NEW w \in Workers, Connect(w)
      PROVE  UNCHANGED Contract!contractVars
  BY <1>8 DEF Connect
<1>9. ASSUME NEW w \in Workers, Crash(w)
      PROVE  \/ Contract!Lose \/ \E t \in Turns : Contract!Finish(t)
             \/ UNCHANGED Contract!contractVars
  <2>1. Spent' = Spent
    BY <1>9 DEF Crash, Spent
  <2>2. Running' = {t \in Running : place[t] # w}
    BY <1>9 DEF Crash, Living
  <2>3. Active' = {t \in Active : place[t] # w}
    BY <1>9, <2>2 DEF Active, Crash
  <2>4. CASE w = Observed
    <3>1. Active' = {}
      BY <2>3, <2>4 DEF Active, HoldsItsLock, Living
    <3>2. owner'[Observed] = [r \in Requests |-> NoTurn]
      BY <1>9, <2>4 DEF Crash
    <3> QED
      BY <2>1, <3>1, <3>2 DEF Contract!Lose, Active, Spent
  <2>5. CASE w # Observed
    <3>1. owner'[Observed] = owner[Observed]
      BY <1>9, <2>5 DEF Crash
    <3>2. CASE \A t \in Active : place[t] # w
      <4>1. Active' = Active
        BY <2>3, <3>2
      <4> QED
        BY <2>1, <3>1, <4>1 DEF Active, Spent
    <3>3. ASSUME NEW t \in Active, place[t] = w
          PROVE  Contract!Finish(t)
      <4>1. Active = {t}
        BY DEF Active, HoldsItsLock, Owning
      <4>2. Active' = Active \ {t}
        BY <2>3, <3>3, <4>1
      <4> QED
        BY <2>1, <3>1, <4>2 DEF Contract!Finish, Active, Spent
    <3> QED
      BY <3>2, <3>3 DEF Active
  <2> QED
    BY <2>4, <2>5
<1>10. ASSUME ExpireLock \/ ExpireMeta
       PROVE  UNCHANGED Contract!contractVars
  BY <1>10 DEF ExpireLock, ExpireMeta
<1>11. ASSUME NEW r \in Requests, ExpireRequest(r)
       PROVE  Contract!Forget(r) \/ UNCHANGED Contract!contractVars
  <2>1. CASE Observed = NoWorker
    BY <1>11, <2>1 DEF ExpireRequest, Contract!Forget
  <2>2. CASE Observed # NoWorker
    BY <1>11, <2>2 DEF ExpireRequest
  <2> QED
    BY <2>1, <2>2
<1>12. CASE UNCHANGED fallbackVars
  BY <1>12 DEF fallbackVars
<1> QED
  BY <1>1, <1>2, <1>3, <1>4, <1>5, <1>6, <1>7, <1>8, <1>9, <1>10, <1>11, <1>12
  DEF FallbackNext, Continue, Waits, Contract!Next

\* Every store implements the turn contract, whatever workers connect and crash
\* and however the Redis commands of several handlers interleave: one turn of it
\* at a time; and the memory of a worker never gives a request id that it
\* remembers a second turn.
THEOREM StoresImplementContract == FallbackSpec => ImplementsContract
<1>1. FallbackInit => HoldsItsLock /\ Contract!Init
  BY TurnsAssumption, ObservedAssumption
     DEF FallbackInit, HoldsItsLock, Asking, Owning, Living, Running, Stores, Contract!Init
<1>2. FallbackTypeOK /\ HoldsItsLock /\ [FallbackNext]_fallbackVars => HoldsItsLock'
  BY HoldsItsLockStep
<1>3. FallbackTypeOK /\ HoldsItsLock /\ [FallbackNext]_fallbackVars
        => [Contract!Next]_Contract!contractVars
  BY StepImplementsContract
<1> QED
  BY <1>1, <1>2, <1>3, FallbackTypeCorrect, PTL DEF FallbackSpec, ImplementsContract, Contract!Spec
=============================================================================

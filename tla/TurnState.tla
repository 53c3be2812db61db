------------------------------ MODULE TurnState ------------------------------
(***************************************************************************)
(* The Redis turn store (agent/services/turn_state_service.py) as the chat *)
(* API uses it for one session (agent/routers/chat_events.py): POST        *)
(* /messages starts a turn, the turn's task runs the agent loop, and its   *)
(* `finally` clears the turn.  The handlers run in any of several worker   *)
(* processes; between two Redis commands of one handler every other        *)
(* handler, task, key expiry and failure may take a step.                  *)
(*                                                                         *)
(* A handler generates a fresh turn id (uuid4), so the handler's name is   *)
(* also the turn id it proposes.                                           *)
(***************************************************************************)
EXTENDS Integers, FiniteSets

CONSTANTS
  Handlers,       \* POST /messages handlers, each with its own turn id
  Requests,       \* client request ids; a retry reuses one
  NoTurn,         \* the absence of a turn id
  TurnsFitInTtl,  \* TRUE: a handler and its turn end within the 600 s TTL
  Resends,        \* commands the Redis client may send again after a lost reply
  MaxFaults       \* bound on failures and resends

ASSUME HandlersAssumption == NoTurn \notin Handlers
ASSUME FaultsAssumption == MaxFaults \in Nat
ASSUME ModesAssumption == TurnsFitInTtl \in BOOLEAN /\ Resends \subseteq {"SET", "DEL"}

VARIABLES
  lock,           \* rk:turn:lock: the turn id that holds the session
  lockTtl,        \* the lock key carries an expiry
  meta,           \* rk:turn: the turn id in the stored metadata
  reqMap,         \* rk:turn_req: request id -> turn id
  pc,             \* the next Redis command of each handler and of its turn
  req,            \* the request id a handler was called with
  answer,         \* the turn id a handler answered with (NoTurn: none)
  started,        \* the turns whose task was created
  faults          \* failures and resends so far

vars == <<lock, lockTtl, meta, reqMap, pc, req, answer, started, faults>>
store == <<lock, lockTtl, meta, reqMap>>

Step == {"idle", "getReq", "setLock", "getHolder", "hset", "setReq", "spawn",
         "running", "clearGet", "clearDel", "clearMeta", "done", "failed"}

\* The handler or its turn task will still issue a command.
Alive(h) == pc[h] \notin {"idle", "done", "failed"}

\* From the acquired lock to the command that releases it.
Owning == {"hset", "setReq", "spawn", "running", "clearGet", "clearDel"}

Init ==
  /\ lock = NoTurn
  /\ lockTtl = FALSE
  /\ meta = NoTurn
  /\ reqMap = [r \in Requests |-> NoTurn]
  /\ pc = [h \in Handlers |-> "idle"]
  /\ req \in [Handlers -> Requests]
  /\ answer = [h \in Handlers |-> NoTurn]
  /\ started = {}
  /\ faults = 0

GoTo(h, from, to) ==
  /\ pc[h] = from
  /\ pc' = [pc EXCEPT ![h] = to]

\* submit_message: validated and in try_start_turn.
Submit(h) ==
  /\ GoTo(h, "idle", "getReq")
  /\ UNCHANGED <<store, req, answer, started, faults>>

\* defect: the request id is mapped before the lock is won.
MutantCheckRequest(h) ==
  /\ \/ /\ reqMap[req[h]] # NoTurn
        /\ GoTo(h, "getReq", "done")
        /\ answer' = [answer EXCEPT ![h] = reqMap[req[h]]]
        /\ UNCHANGED reqMap
     \/ /\ reqMap[req[h]] = NoTurn
        /\ GoTo(h, "getReq", "setLock")
        /\ reqMap' = [reqMap EXCEPT ![req[h]] = h]
        /\ UNCHANGED answer
  /\ UNCHANGED <<lock, lockTtl, meta, req, started, faults>>

\* GET rk:turn_req: a known request id is answered with its turn.
CheckRequest(h) ==
  /\ \/ /\ reqMap[req[h]] # NoTurn
        /\ GoTo(h, "getReq", "done")
        /\ answer' = [answer EXCEPT ![h] = reqMap[req[h]]]
     \/ /\ reqMap[req[h]] = NoTurn
        /\ GoTo(h, "getReq", "setLock")
        /\ UNCHANGED answer
  /\ UNCHANGED <<store, req, started, faults>>

\* What SET rk:turn:lock NX EX requires and does.
MutantLockable == TRUE             \* defect: nx=True forgotten
Lockable == lock = NoTurn

MutantAcquire(h) ==                \* defect: ex=ttl_seconds forgotten
  /\ lock' = h
  /\ lockTtl' = FALSE

Acquire(h) ==
  /\ lock' = h
  /\ lockTtl' = TRUE

SetLock(h) ==
  /\ \/ /\ Lockable
        /\ Acquire(h)
        /\ GoTo(h, "setLock", "hset")
     \/ /\ ~Lockable
        /\ GoTo(h, "setLock", "getHolder")
        /\ UNCHANGED <<lock, lockTtl>>
  /\ UNCHANGED <<meta, reqMap, req, answer, started, faults>>

\* The SET took effect, its reply was lost, and the resent SET NX failed.
SetLockResent(h) ==
  /\ "SET" \in Resends
  /\ faults < MaxFaults
  /\ Lockable
  /\ Acquire(h)
  /\ GoTo(h, "setLock", "getHolder")
  /\ faults' = faults + 1
  /\ UNCHANGED <<meta, reqMap, req, answer, started>>

\* defect: a failed SET NX is not compared with the holder.
MutantGetHolder(h) ==
  /\ GoTo(h, "getHolder", "hset")
  /\ UNCHANGED <<store, req, answer, started, faults>>

\* GET rk:turn:lock: anyone else's lock, or none any more, is a 409.
GetHolder(h) ==
  /\ GoTo(h, "getHolder", IF lock = h THEN "hset" ELSE "done")
  /\ UNCHANGED <<store, req, answer, started, faults>>

\* HSET rk:turn and its EXPIRE; nothing reads the key, so one step.
StoreMeta(h) ==
  /\ GoTo(h, "hset", "setReq")
  /\ meta' = h
  /\ UNCHANGED <<lock, lockTtl, reqMap, req, answer, started, faults>>

\* SET rk:turn_req EX.
MapRequest(h) ==
  /\ GoTo(h, "setReq", "spawn")
  /\ reqMap' = [reqMap EXCEPT ![req[h]] = h]
  /\ UNCHANGED <<lock, lockTtl, meta, req, answer, started, faults>>

\* The reply of that SET: create_task(_run_turn) and the 202 answer.
Spawn(h) ==
  /\ GoTo(h, "spawn", "running")
  /\ started' = started \cup {h}
  /\ answer' = [answer EXCEPT ![h] = h]
  /\ UNCHANGED <<store, req, faults>>

\* The agent loop returned or raised; the `finally` calls clear_turn.
FinishTurn(h) ==
  /\ GoTo(h, "running", "clearGet")
  /\ UNCHANGED <<store, req, answer, started, faults>>

ClearGet(h) ==
  /\ GoTo(h, "clearGet", IF lock = h THEN "clearDel" ELSE "clearMeta")
  /\ UNCHANGED <<store, req, answer, started, faults>>

\* DEL rk:turn:lock, whoever holds it by now.
ClearDel(h) ==
  /\ GoTo(h, "clearDel", "clearMeta")
  /\ lock' = NoTurn
  /\ lockTtl' = FALSE
  /\ UNCHANGED <<meta, reqMap, req, answer, started, faults>>

\* The DEL took effect, its reply was lost, and it is sent again.
ClearDelResent(h) ==
  /\ "DEL" \in Resends
  /\ faults < MaxFaults
  /\ pc[h] = "clearDel"
  /\ lock' = NoTurn
  /\ lockTtl' = FALSE
  /\ faults' = faults + 1
  /\ UNCHANGED <<meta, reqMap, pc, req, answer, started>>

ClearMeta(h) ==
  /\ GoTo(h, "clearMeta", "done")
  /\ meta' = NoTurn
  /\ UNCHANGED <<lock, lockTtl, reqMap, req, answer, started, faults>>

\* The worker dies, or the command raises (a handler answers 500, a turn
\* task ends inside its `finally`): no later command of it is issued.
Fail(h) ==
  /\ faults < MaxFaults
  /\ Alive(h)
  /\ pc' = [pc EXCEPT ![h] = "failed"]
  /\ faults' = faults + 1
  /\ UNCHANGED <<store, req, answer, started>>

\* Key expiries, 600 s after the key was written.
ExpireLock ==
  /\ lock # NoTurn
  /\ lockTtl
  /\ TurnsFitInTtl => ~Alive(lock)
  /\ lock' = NoTurn
  /\ lockTtl' = FALSE
  /\ UNCHANGED <<meta, reqMap, pc, req, answer, started, faults>>

ExpireMeta ==
  /\ meta # NoTurn
  /\ TurnsFitInTtl => ~Alive(meta)
  /\ meta' = NoTurn
  /\ UNCHANGED <<lock, lockTtl, reqMap, pc, req, answer, started, faults>>

ExpireRequest(r) ==
  /\ reqMap[r] # NoTurn
  /\ TurnsFitInTtl => ~Alive(reqMap[r])
  /\ reqMap' = [reqMap EXCEPT ![r] = NoTurn]
  /\ UNCHANGED <<lock, lockTtl, meta, pc, req, answer, started, faults>>

\* One Redis command (or local step) of a handler or of its turn.
Command(h) ==
  \/ CheckRequest(h) \/ SetLock(h) \/ GetHolder(h) \/ StoreMeta(h)
  \/ MapRequest(h) \/ Spawn(h) \/ FinishTurn(h)
  \/ ClearGet(h) \/ ClearDel(h) \/ ClearMeta(h)

Next ==
  \/ \E h \in Handlers : \/ Submit(h) \/ Command(h)
                         \/ SetLockResent(h) \/ ClearDelResent(h) \/ Fail(h)
  \/ ExpireLock
  \/ ExpireMeta
  \/ \E r \in Requests : ExpireRequest(r)

\* Event loops run every ready task, the agent loop is bounded by its rounds
\* and timeouts, and Redis expires keys.  Clients need not submit.
Fairness ==
  /\ \A h \in Handlers : WF_vars(Command(h))
  /\ WF_vars(ExpireLock)

Spec == Init /\ [][Next]_vars
FairSpec == Spec /\ Fairness

-----------------------------------------------------------------------------
TypeOK ==
  /\ lock \in Handlers \cup {NoTurn}
  /\ lockTtl \in BOOLEAN
  /\ meta \in Handlers \cup {NoTurn}
  /\ reqMap \in [Requests -> Handlers \cup {NoTurn}]
  /\ pc \in [Handlers -> Step]
  /\ req \in [Handlers -> Requests]
  /\ answer \in [Handlers -> Handlers \cup {NoTurn}]
  /\ started \subseteq Handlers
  /\ faults \in 0..MaxFaults

Running == {h \in Handlers : pc[h] = "running"}

\* At most one turn of a session runs its agent loop at any time, across all
\* workers ("Another turn active -> raises HTTPException(409)").
MutualExclusion == \A g, h \in Running : g = h

\* Whoever acts on the belief that it owns the lock does own it: the strengthening
\* of MutualExclusion that every step preserves.
OwnerHoldsLock == \A h \in Handlers : pc[h] \in Owning => lock = h

\* clear_turn never releases a lock that another turn holds ("Only release if
\* we own the lock").
ReleasesOnlyOwnLock ==
  [][\A h \in Handlers : pc[h] = "clearDel" /\ lock' # lock /\ lock \in Handlers
       /\ pc'[h] = "clearMeta" => lock = h]_vars

\* A 202 names a turn whose task was created or is about to be, as long as
\* nothing has failed.
AcceptedTurnStarts ==
  faults = 0 => \A h \in Handlers :
    answer[h] # NoTurn => answer[h] \in started \/ pc[answer[h]] = "spawn"

\* After any failure between the lock and its release, the session becomes
\* free again.
SessionIsFreedAgain == []<>(lock = NoTurn)

Contract == INSTANCE TurnContract
  WITH Turns <- Handlers, OnePerRequest <- FALSE,
       owner <- reqMap, active <- Running, spent <- started

\* Redis implements the turn contract: no turn starts while another runs, no
\* turn runs twice, and a mapping only changes when a turn is accepted or when
\* it expires.  It does not promise that a live mapping stays: a retry that read
\* none before the first attempt wrote it runs as a second turn and replaces it.
ImplementsContract == Contract!Spec
=============================================================================

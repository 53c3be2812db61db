-------------------------- MODULE TurnStateFallback --------------------------
(***************************************************************************)
(* The two backends of the turn store together: Redis, command by command  *)
(* as in TurnState, the memory of every worker (_try_start_turn_memory and *)
(* _clear_turn_memory), and the choice between them that every call makes  *)
(* anew: get_redis_client returns None until a ping of this worker         *)
(* succeeds and the cached client from then on.  One session.              *)
(*                                                                         *)
(* The memory variant runs without suspending, so a submission and the end *)
(* of a turn are one step each there.  A turn and its keys on Redis end    *)
(* within the TTL; TurnState looks at what happens when they do not.       *)
(***************************************************************************)
EXTENDS Integers, FiniteSets

CONSTANTS
  Workers,        \* worker processes of the chat API
  Turns,          \* POST /messages handlers, each with its own turn id
  Requests,       \* client request ids; a retry reuses one
  NoTurn,         \* the absence of a turn id
  NoWorker,       \* no worker: the store that is Redis
  Observed,       \* the store whose contract is looked at
  RedisReachable, \* TRUE: a worker's ping may succeed at some point
  MaxMishaps      \* bound on worker crashes and failed commands

ASSUME TurnsAssumption == NoTurn \notin Turns /\ NoWorker \notin Workers
ASSUME ObservedAssumption == Observed \in Workers \cup {NoWorker}
ASSUME ModeAssumption == RedisReachable \in BOOLEAN /\ MaxMishaps \in Nat

VARIABLES
  connected,      \* workers with a cached Redis client
  lock,           \* the session's turn lock, per store
  owner,          \* request id -> turn id, per store
  meta,           \* the turn id in the stored metadata, per store
  at,             \* what each handler, and the turn it starts, does next
  req,            \* the request id a handler was called with
  place,          \* the worker of a handler and of its turn
  origin,         \* the store that a handler asked for its turn
  spent,          \* the turns whose task was created
  mishaps

stores == <<lock, owner, meta>>
fallbackVars == <<connected, stores, at, req, place, origin, spent, mishaps>>

\* One store per worker's memory, and Redis.
Stores == Workers \cup {NoWorker}
StoreOf(w) == IF w \in connected THEN NoWorker ELSE w

\* "hset" to "clearMeta" as in TurnState.
Stops == {"idle", "getReq", "setLock", "getHolder", "hset", "setReq", "spawn",
          "running", "clearGet", "clearDel", "clearMeta", "done"}
AtRedis == Stops \ {"idle", "running", "done"}
Living(t) == at[t] \notin {"idle", "done"}

FallbackInit ==
  /\ connected = {}
  /\ lock = [s \in Stores |-> NoTurn]
  /\ owner = [s \in Stores |-> [r \in Requests |-> NoTurn]]
  /\ meta = [s \in Stores |-> NoTurn]
  /\ at = [t \in Turns |-> "idle"]
  /\ req \in [Turns -> Requests]
  /\ place = [t \in Turns |-> NoWorker]
  /\ origin = [t \in Turns |-> NoWorker]
  /\ spent = {}
  /\ mishaps = 0

\* The ping succeeds and the client is cached.
Connect(w) ==
  /\ RedisReachable
  /\ w \notin connected
  /\ connected' = connected \cup {w}
  /\ UNCHANGED <<stores, at, req, place, origin, spent, mishaps>>

Move(t, from, to) ==
  /\ at[t] = from
  /\ at' = [at EXCEPT ![t] = to]

\* A worker without a client refuses with 409, or answers with the turn its
\* request id is mapped to: both leave the store alone.
Decline(t, w) ==
  /\ w \notin connected
  /\ owner[w][req[t]] # NoTurn \/ lock[w] # NoTurn
  /\ Move(t, "idle", "done")
  /\ UNCHANGED <<connected, stores, req, place, origin, spent, mishaps>>

MutantFree(s) == TRUE              \* defect: a held lock is taken over
Free(s) == lock[s] = NoTurn

Remember(s, r, t) ==
  /\ lock' = [lock EXCEPT ![s] = t]
  /\ meta' = [meta EXCEPT ![s] = t]
  /\ owner' = [owner EXCEPT ![s][r] = t]

\* A new request id on a free session: the turn is stored and its task created.
Start(t, w) ==
  /\ w \notin connected
  /\ owner[w][req[t]] = NoTurn
  /\ Free(w)
  /\ Remember(w, req[t], t)
  /\ Move(t, "idle", "running")
  /\ place' = [place EXCEPT ![t] = w]
  /\ origin' = [origin EXCEPT ![t] = w]
  /\ spent' = spent \cup {t}
  /\ UNCHANGED <<connected, req, mishaps>>

\* A worker with a client begins with its first command.
Ask(t, w) ==
  /\ w \in connected
  /\ Move(t, "idle", "getReq")
  /\ place' = [place EXCEPT ![t] = w]
  /\ UNCHANGED <<connected, stores, req, origin, spent, mishaps>>

\* GET rk:turn_req: a request id that is mapped is answered with its turn.
CheckRequest(t) ==
  /\ Move(t, "getReq", IF owner[NoWorker][req[t]] = NoTurn THEN "setLock" ELSE "done")
  /\ UNCHANGED <<connected, stores, req, place, origin, spent, mishaps>>

\* SET rk:turn:lock NX EX.
SetLock(t) ==
  /\ \/ /\ Free(NoWorker)
        /\ lock' = [lock EXCEPT ![NoWorker] = t]
        /\ Move(t, "setLock", "hset")
     \/ /\ ~Free(NoWorker)
        /\ Move(t, "setLock", "getHolder")
        /\ UNCHANGED lock
  /\ UNCHANGED <<connected, owner, meta, req, place, origin, spent, mishaps>>

\* GET rk:turn:lock: anyone else's lock, or none any more, is a 409.
GetHolder(t) ==
  /\ Move(t, "getHolder", IF lock[NoWorker] = t THEN "hset" ELSE "done")
  /\ UNCHANGED <<connected, stores, req, place, origin, spent, mishaps>>

\* HSET rk:turn and its EXPIRE.
StoreMeta(t) ==
  /\ Move(t, "hset", "setReq")
  /\ meta' = [meta EXCEPT ![NoWorker] = t]
  /\ UNCHANGED <<connected, lock, owner, req, place, origin, spent, mishaps>>

\* SET rk:turn_req EX: over whatever another attempt has mapped meanwhile.
MapRequest(t) ==
  /\ Move(t, "setReq", "spawn")
  /\ owner' = [owner EXCEPT ![NoWorker][req[t]] = t]
  /\ UNCHANGED <<connected, lock, meta, req, place, origin, spent, mishaps>>

\* The reply of that SET: create_task(_run_turn).
Spawn(t) ==
  /\ Move(t, "spawn", "running")
  /\ spent' = spent \cup {t}
  /\ UNCHANGED <<connected, stores, req, place, origin, mishaps>>

Release(s, t) ==
  /\ lock' = [lock EXCEPT ![s] = IF @ = t THEN NoTurn ELSE @]
  /\ meta' = [meta EXCEPT ![s] = NoTurn]

\* The agent loop ended; clear_turn asks for the backend again, which need not
\* be the one that accepted the turn.
FinishTurn(t) ==
  /\ \/ /\ place[t] \notin connected
        /\ Move(t, "running", "done")
        /\ Release(place[t], t)
     \/ /\ place[t] \in connected
        /\ Move(t, "running", "clearGet")
        /\ UNCHANGED <<lock, meta>>
  /\ UNCHANGED <<connected, owner, req, place, origin, spent, mishaps>>

\* defect: DEL without looking at the holder.
MutantClearGet(t) ==
  /\ Move(t, "clearGet", "clearDel")
  /\ UNCHANGED <<connected, stores, req, place, origin, spent, mishaps>>

ClearGet(t) ==
  /\ Move(t, "clearGet", IF lock[NoWorker] = t THEN "clearDel" ELSE "clearMeta")
  /\ UNCHANGED <<connected, stores, req, place, origin, spent, mishaps>>

\* DEL rk:turn:lock, whoever holds it by now.
ClearDel(t) ==
  /\ Move(t, "clearDel", "clearMeta")
  /\ lock' = [lock EXCEPT ![NoWorker] = NoTurn]
  /\ UNCHANGED <<connected, owner, meta, req, place, origin, spent, mishaps>>

ClearMeta(t) ==
  /\ Move(t, "clearMeta", "done")
  /\ meta' = [meta EXCEPT ![NoWorker] = NoTurn]
  /\ UNCHANGED <<connected, lock, owner, req, place, origin, spent, mishaps>>

\* A command raises, before or after it took effect: the handler answers 500, or
\* the turn's task ends inside its `finally`.
CommandFails(t) ==
  /\ mishaps < MaxMishaps
  /\ at[t] \in AtRedis
  /\ at' = [at EXCEPT ![t] = "done"]
  /\ mishaps' = mishaps + 1
  /\ UNCHANGED <<connected, stores, req, place, origin, spent>>

\* A worker dies and starts again: its memory, its handlers and its turns are
\* gone, Redis stays.
Crash(w) ==
  /\ mishaps < MaxMishaps
  /\ connected' = connected \ {w}
  /\ lock' = [lock EXCEPT ![w] = NoTurn]
  /\ owner' = [owner EXCEPT ![w] = [r \in Requests |-> NoTurn]]
  /\ meta' = [meta EXCEPT ![w] = NoTurn]
  /\ at' = [t \in Turns |-> IF Living(t) /\ place[t] = w THEN "done" ELSE at[t]]
  /\ mishaps' = mishaps + 1
  /\ UNCHANGED <<req, place, origin, spent>>

\* The keys on Redis expire one by one, 600 s after they were written: here after
\* their turn has ended.
ExpireLock ==
  /\ lock[NoWorker] # NoTurn /\ ~Living(lock[NoWorker])
  /\ lock' = [lock EXCEPT ![NoWorker] = NoTurn]
  /\ UNCHANGED <<connected, owner, meta, at, req, place, origin, spent, mishaps>>

ExpireMeta ==
  /\ meta[NoWorker] # NoTurn /\ ~Living(meta[NoWorker])
  /\ meta' = [meta EXCEPT ![NoWorker] = NoTurn]
  /\ UNCHANGED <<connected, lock, owner, at, req, place, origin, spent, mishaps>>

ExpireRequest(r) ==
  /\ owner[NoWorker][r] # NoTurn /\ ~Living(owner[NoWorker][r])
  /\ owner' = [owner EXCEPT ![NoWorker][r] = NoTurn]
  /\ UNCHANGED <<connected, lock, meta, at, req, place, origin, spent, mishaps>>

\* One step of a handler or of its turn after the backend is chosen.
Continue(t) ==
  \/ CheckRequest(t) \/ SetLock(t) \/ GetHolder(t) \/ StoreMeta(t) \/ MapRequest(t)
  \/ Spawn(t) \/ FinishTurn(t) \/ ClearGet(t) \/ ClearDel(t) \/ ClearMeta(t)

FallbackNext ==
  \/ \E t \in Turns, w \in Workers : Decline(t, w) \/ Start(t, w) \/ Ask(t, w)
  \/ \E t \in Turns : Continue(t) \/ CommandFails(t)
  \/ \E w \in Workers : Connect(w) \/ Crash(w)
  \/ ExpireLock
  \/ ExpireMeta
  \/ \E r \in Requests : ExpireRequest(r)

FallbackSpec == FallbackInit /\ [][FallbackNext]_fallbackVars

-----------------------------------------------------------------------------
FallbackTypeOK ==
  /\ connected \subseteq Workers
  /\ lock \in [Stores -> Turns \cup {NoTurn}]
  /\ owner \in [Stores -> [Requests -> Turns \cup {NoTurn}]]
  /\ meta \in [Stores -> Turns \cup {NoTurn}]
  /\ at \in [Turns -> Stops]
  /\ req \in [Turns -> Requests]
  /\ place \in [Turns -> Stores]
  /\ origin \in [Turns -> Stores]
  /\ spent \subseteq Turns
  /\ mishaps \in 0..MaxMishaps

Running == {t \in Turns : at[t] = "running"}

\* A running turn holds the lock of the store that accepted it, even when its
\* worker, another worker or another turn changes backends meanwhile.
RunningTurnHoldsLock == \A t \in Running : lock[origin[t]] = t

Contract == INSTANCE TurnContract
  WITH OnePerRequest <- Observed # NoWorker,
       owner <- owner[Observed],
       active <- {t \in Running : origin[t] = Observed},
       spent <- {t \in spent : origin[t] = Observed}

\* Every store by itself implements the turn contract, and a worker's memory the
\* strong one: it starts one turn at a time and never gives a mapped request id a
\* second turn.  Redis may (two attempts that both read no mapping), and two
\* stores do not exclude each other's turns: "Another turn active -> raises
\* HTTPException(409)" holds among workers that use the same backend only.
ImplementsContract == Contract!Spec
=============================================================================

-------------------------- MODULE SessionLifecycle --------------------------
(***************************************************************************)
(* The status of one chat session and everybody who writes it: turns that  *)
(* escalate (agent/services/orchestrator.py), the expiry task              *)
(* (agent/main.py, agent/services/session_service.py), the dashboard's     *)
(* escalate and resolve routes, and the SDK that creates the session again *)
(* (agent/routers/sessions.py).  A writer that reads the row first writes  *)
(* it in a later step, and others may write in between.                    *)
(*                                                                         *)
(* The row is read into an ORM object, and a commit updates only the       *)
(* columns whose value differs from what was read.                         *)
(***************************************************************************)
EXTENDS Integers

CONSTANTS
  Turns,          \* accepted messages; TurnState keeps them apart
  Takeovers,      \* POST escalate requests of the dashboard
  Reuses,         \* POST /v1/sessions requests of the session's device
  HasConfig       \* TRUE: the app has a row in agent_configs

ASSUME ModesAssumption == HasConfig \in BOOLEAN

VARIABLES
  status,         \* ChatSession.status
  stale,          \* last_activity_at is older than the session's TTL
  resolvedBy,     \* ChatSession.resolved_by
  turn,           \* how far each turn is
  loaded,         \* the status in each turn's ORM object
  takeover,       \* how far each takeover is
  reuse           \* how far each reuse is

lifecycle == <<status, stale, resolvedBy, turn, loaded, takeover, reuse>>
session == <<status, stale, resolvedBy>>

Statuses == {"active", "expired", "closed", "escalated"}

LifecycleInit ==
  /\ status = "active"
  /\ stale = FALSE
  /\ resolvedBy = "none"
  /\ turn = [t \in Turns |-> "new"]
  /\ loaded = [t \in Turns |-> "active"]
  /\ takeover = [d \in Takeovers |-> "new"]
  /\ reuse = [u \in Reuses |-> "new"]

\* defect: only the age is checked.
MutantUsable == ~stale

\* is_session_expired is FALSE: the runtime accepts the session.
Usable == status = "active" /\ ~stale

\* POST /messages; without a configuration it is refused.
Accept(t) ==
  /\ turn[t] = "new" /\ Usable /\ HasConfig
  /\ turn' = [turn EXCEPT ![t] = "accepted"]
  /\ UNCHANGED <<session, loaded, takeover, reuse>>

\* _run_turn loads the row again and does not look at its status.
BeginTurn(t) ==
  /\ turn[t] = "accepted"
  /\ turn' = [turn EXCEPT ![t] = "running"]
  /\ loaded' = [loaded EXCEPT ![t] = status]
  /\ stale' = FALSE
  /\ UNCHANGED <<status, resolvedBy, takeover, reuse>>

EndTurn(t) ==
  /\ turn[t] = "running"
  /\ turn' = [turn EXCEPT ![t] = "over"]
  /\ UNCHANGED <<session, loaded, takeover, reuse>>

\* escalate_session.
EscalateTurn(t) ==
  /\ turn[t] = "running"
  /\ turn' = [turn EXCEPT ![t] = "over"]
  /\ status' = IF loaded[t] = "escalated" THEN status ELSE "escalated"
  /\ UNCHANGED <<stale, resolvedBy, loaded, takeover, reuse>>

\* PATCH context: any session's activity is renewed.
PatchContext ==
  /\ stale' = FALSE
  /\ UNCHANGED <<status, resolvedBy, turn, loaded, takeover, reuse>>

\* The session's TTL passes without activity.
GrowStale ==
  /\ stale' = TRUE
  /\ UNCHANGED <<status, resolvedBy, turn, loaded, takeover, reuse>>

\* One UPDATE of expire_stale_sessions.
Expire ==
  /\ status = "active" /\ stale /\ HasConfig
  /\ status' = "expired"
  /\ resolvedBy' = "ai"
  /\ UNCHANGED <<stale, turn, loaded, takeover, reuse>>

\* The dashboard's escalate: findUnique and 409 for a closed session, then update.
CheckTakeover(d) ==
  /\ takeover[d] = "new" /\ status # "closed"
  /\ takeover' = [takeover EXCEPT ![d] = "checked"]
  /\ UNCHANGED <<session, turn, loaded, reuse>>

TakeOver(d) ==
  /\ takeover[d] = "checked"
  /\ takeover' = [takeover EXCEPT ![d] = "done"]
  /\ status' = "escalated"
  /\ UNCHANGED <<stale, resolvedBy, turn, loaded, reuse>>

\* The dashboard's resolve, whatever the status.
Resolve ==
  /\ status' = "closed"
  /\ resolvedBy' = "human"
  /\ UNCHANGED <<stale, turn, loaded, takeover, reuse>>

\* get_reusable_session finds the session; else another one is created.
FindReusable(u) ==
  /\ reuse[u] = "new" /\ Usable
  /\ reuse' = [reuse EXCEPT ![u] = "found"]
  /\ UNCHANGED <<session, turn, loaded, takeover>>

\* The commit: status "active" was read, so assigning it again writes nothing.
MutantReuse(u) ==                  \* defect: the assignment is written
  /\ reuse[u] = "found"
  /\ reuse' = [reuse EXCEPT ![u] = "done"]
  /\ status' = "active"
  /\ stale' = FALSE
  /\ UNCHANGED <<resolvedBy, turn, loaded, takeover>>

Reuse(u) ==
  /\ reuse[u] = "found"
  /\ reuse' = [reuse EXCEPT ![u] = "done"]
  /\ stale' = FALSE
  /\ UNCHANGED <<status, resolvedBy, turn, loaded, takeover>>

LifecycleNext ==
  \/ \E t \in Turns : Accept(t) \/ BeginTurn(t) \/ EndTurn(t) \/ EscalateTurn(t)
  \/ \E d \in Takeovers : CheckTakeover(d) \/ TakeOver(d)
  \/ \E u \in Reuses : FindReusable(u) \/ Reuse(u)
  \/ PatchContext \/ GrowStale \/ Expire \/ Resolve

LifecycleSpec == LifecycleInit /\ [][LifecycleNext]_lifecycle

-----------------------------------------------------------------------------
LifecycleTypeOK ==
  /\ status \in Statuses
  /\ stale \in BOOLEAN
  /\ resolvedBy \in {"none", "ai", "human"}
  /\ turn \in [Turns -> {"new", "accepted", "running", "over"}]
  /\ loaded \in [Turns -> Statuses]
  /\ takeover \in [Takeovers -> {"new", "checked", "done"}]
  /\ reuse \in [Reuses -> {"new", "found", "done"}]

\* Somebody has read the session and may still escalate it.
EscalationInFlight ==
  \/ \E t \in Turns : turn[t] \in {"accepted", "running"}
  \/ \E d \in Takeovers : takeover[d] = "checked"

\* A session closed while nobody is in the middle of an escalation is closed for
\* good: no later message, takeover or reuse is let in, and a reuse under way
\* does not open it again.  (An escalation that is in flight does: it checked the
\* status, or loaded the row, before the session was closed.)
ClosedIsFinal ==
  [][status = "closed" /\ ~EscalationInFlight => status' = "closed" /\ ~EscalationInFlight']_lifecycle

\* A session that ended is never active again: resolved_by of an active
\* session would count it as solved.
ActiveIsUnresolved == status = "active" => resolvedBy = "none"
=============================================================================

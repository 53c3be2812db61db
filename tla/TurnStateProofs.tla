--------------------------- MODULE TurnStateProofs ---------------------------
(***************************************************************************)
(* Proofs about TurnState for any number of handlers, requests and faults. *)
(***************************************************************************)
EXTENDS TurnState, TLAPS

\* Every variable keeps its type, in every mode and under every failure.
THEOREM TypeCorrect == Spec => []TypeOK
<1>1. Init => TypeOK
  <2>1. Init => lockTtl \in BOOLEAN
    BY Zenon DEF Init
  <2>2. Init => /\ lock \in Handlers \cup {NoTurn}
                /\ meta \in Handlers \cup {NoTurn}
                /\ reqMap \in [Requests -> Handlers \cup {NoTurn}]
                /\ pc \in [Handlers -> Step]
                /\ req \in [Handlers -> Requests]
                /\ answer \in [Handlers -> Handlers \cup {NoTurn}]
                /\ started \subseteq Handlers
                /\ faults \in 0..MaxFaults
    BY FaultsAssumption DEF Init, Step
  <2>3. QED
    BY <2>1, <2>2 DEF TypeOK
<1>2. TypeOK /\ [Next]_vars => TypeOK'
  <2> SUFFICES ASSUME TypeOK, [Next]_vars PROVE TypeOK'
    OBVIOUS
  <2> USE FaultsAssumption DEF TypeOK, Step, GoTo, store
  <2>1. CASE UNCHANGED vars
    BY <2>1 DEF vars
  <2>2. ASSUME NEW h \in Handlers, Submit(h) PROVE TypeOK'
    BY <2>2 DEF Submit
  <2>3. ASSUME NEW h \in Handlers, CheckRequest(h) PROVE TypeOK'
    BY <2>3 DEF CheckRequest
  <2>4. ASSUME NEW h \in Handlers, SetLock(h) PROVE TypeOK'
    BY <2>4 DEF SetLock, Acquire
  <2>5. ASSUME NEW h \in Handlers, SetLockResent(h) PROVE TypeOK'
    BY <2>5 DEF SetLockResent, Acquire
  <2>6. ASSUME NEW h \in Handlers, GetHolder(h) PROVE TypeOK'
    BY <2>6 DEF GetHolder
  <2>7. ASSUME NEW h \in Handlers, StoreMeta(h) PROVE TypeOK'
    BY <2>7 DEF StoreMeta
  <2>8. ASSUME NEW h \in Handlers, MapRequest(h) PROVE TypeOK'
    BY <2>8 DEF MapRequest
  <2>9. ASSUME NEW h \in Handlers, Spawn(h) PROVE TypeOK'
    BY <2>9 DEF Spawn
  <2>10. ASSUME NEW h \in Handlers, FinishTurn(h) \/ ClearGet(h) PROVE TypeOK'
    BY <2>10 DEF FinishTurn, ClearGet
  <2>11. ASSUME NEW h \in Handlers, ClearDel(h) \/ ClearMeta(h) PROVE TypeOK'
    BY <2>11 DEF ClearDel, ClearMeta
  <2>12. ASSUME NEW h \in Handlers, ClearDelResent(h) \/ Fail(h) PROVE TypeOK'
    <3>1. faults' \in 0..MaxFaults
      BY <2>12 DEF ClearDelResent, Fail
    <3>2. CASE ClearDelResent(h)
      BY <3>1, <3>2, Zenon DEF ClearDelResent
    <3>3. CASE Fail(h)
      BY <3>1, <3>3 DEF Fail
    <3>4. QED
      BY <2>12, <3>2, <3>3
  <2>13. ASSUME ExpireLock \/ ExpireMeta PROVE TypeOK'
    BY <2>13 DEF ExpireLock, ExpireMeta
  <2>14. ASSUME NEW r \in Requests, ExpireRequest(r) PROVE TypeOK'
    BY <2>14 DEF ExpireRequest
  <2>15. QED
    BY <2>1, <2>2, <2>3, <2>4, <2>5, <2>6, <2>7, <2>8, <2>9, <2>10, <2>11,
       <2>12, <2>13, <2>14 DEF Next, Command
<1>3. QED
  BY <1>1, <1>2, PTL DEF Spec

-----------------------------------------------------------------------------
(***************************************************************************)
(* The lock.  Two assumptions are needed, and without them these theorems  *)
(* are false: a turn ends within the TTL of its keys, and the client       *)
(* does not send a DEL twice.                                              *)
(***************************************************************************)
Timely == TurnsFitInTtl /\ "DEL" \notin Resends

\* The inductive step: no command of any handler, expiry or failure makes a
\* handler that believes it owns the lock wrong.
LEMMA OwnerHoldsLockStep ==
  ASSUME Timely, TypeOK, OwnerHoldsLock, [Next]_vars
  PROVE  OwnerHoldsLock'
<1> USE HandlersAssumption DEF TypeOK, OwnerHoldsLock, Owning, Step, GoTo, store
<1>1. CASE UNCHANGED vars
  BY <1>1 DEF vars
<1>2. ASSUME NEW h \in Handlers, Submit(h) \/ CheckRequest(h) PROVE OwnerHoldsLock'
  BY <1>2 DEF Submit, CheckRequest
<1>3. ASSUME NEW h \in Handlers, SetLock(h) PROVE OwnerHoldsLock'
  BY <1>3 DEF SetLock, Acquire, Lockable
<1>4. ASSUME NEW h \in Handlers, SetLockResent(h) PROVE OwnerHoldsLock'
  BY <1>4 DEF SetLockResent, Acquire, Lockable
<1>5. ASSUME NEW h \in Handlers, GetHolder(h) PROVE OwnerHoldsLock'
  BY <1>5 DEF GetHolder
<1>6. ASSUME NEW h \in Handlers, StoreMeta(h) \/ MapRequest(h) \/ Spawn(h)
      PROVE OwnerHoldsLock'
  BY <1>6 DEF StoreMeta, MapRequest, Spawn
<1>7. ASSUME NEW h \in Handlers, FinishTurn(h) \/ ClearGet(h) PROVE OwnerHoldsLock'
  BY <1>7 DEF FinishTurn, ClearGet
<1>8. ASSUME NEW h \in Handlers, ClearDel(h) PROVE OwnerHoldsLock'
  BY <1>8 DEF ClearDel
<1>9. ASSUME NEW h \in Handlers, ClearMeta(h) \/ Fail(h) PROVE OwnerHoldsLock'
  BY <1>9 DEF ClearMeta, Fail
<1>10. ASSUME NEW h \in Handlers PROVE ~ClearDelResent(h)
  BY DEF ClearDelResent, Timely
<1>11. CASE ExpireLock
  BY <1>11 DEF ExpireLock, Alive, Timely
<1>12. CASE ExpireMeta \/ \E r \in Requests : ExpireRequest(r)
  BY <1>12 DEF ExpireMeta, ExpireRequest
<1>13. QED
  BY <1>1, <1>2, <1>3, <1>4, <1>5, <1>6, <1>7, <1>8, <1>9, <1>10, <1>11, <1>12
  DEF Next, Command

\* A handler past its SET NX holds the lock until it has deleted it.
THEOREM LockOwnership ==
  ASSUME Timely
  PROVE  Spec => []OwnerHoldsLock
<1>1. Init => OwnerHoldsLock
  BY DEF Init, OwnerHoldsLock, Owning
<1>2. TypeOK /\ OwnerHoldsLock /\ [Next]_vars => OwnerHoldsLock'
  BY OwnerHoldsLockStep
<1>3. QED
  BY <1>1, <1>2, TypeCorrect, PTL DEF Spec

\* At most one turn of the session runs, for any number of concurrent
\* submissions, retries, failures and expiries.
THEOREM TurnsExcludeEachOther ==
  ASSUME Timely
  PROVE  Spec => []MutualExclusion
<1>1. OwnerHoldsLock => MutualExclusion
  BY DEF OwnerHoldsLock, MutualExclusion, Running, Owning
<1>2. QED
  BY <1>1, LockOwnership, PTL

\* clear_turn never deletes another turn's lock.
THEOREM OnlyOwnLockReleased ==
  ASSUME Timely
  PROVE  Spec => ReleasesOnlyOwnLock
<1>1. OwnerHoldsLock /\ [Next]_vars =>
        [\A h \in Handlers : pc[h] = "clearDel" /\ lock' # lock /\ lock \in Handlers
            /\ pc'[h] = "clearMeta" => lock = h]_vars
  BY DEF OwnerHoldsLock, Owning
<1>2. QED
  BY <1>1, LockOwnership, PTL DEF Spec, ReleasesOnlyOwnLock

-----------------------------------------------------------------------------
(***************************************************************************)
(* The refinement.  A handler that has not created its turn's task has     *)
(* never done so, which is what Begin and Accept require of a turn.        *)
(***************************************************************************)
BeforeSpawn == {"idle", "getReq", "setLock", "getHolder", "hset", "setReq", "spawn"}

NotYetStarted == \A h \in Handlers : pc[h] \in BeforeSpawn => h \notin started

\* A handler that has not reached its spawn is not among the started turns.
LEMMA NotYetStartedHolds == Spec => []NotYetStarted
<1> USE DEF NotYetStarted, BeforeSpawn, GoTo, store
<1>1. Init => NotYetStarted
  BY DEF Init
<1>2. TypeOK /\ NotYetStarted /\ [Next]_vars => NotYetStarted'
  <2> SUFFICES ASSUME TypeOK, NotYetStarted, [Next]_vars PROVE NotYetStarted'
    OBVIOUS
  <2> USE DEF TypeOK
  <2>1. CASE UNCHANGED vars
    BY <2>1 DEF vars
  <2>2. ASSUME NEW h \in Handlers, Submit(h) \/ CheckRequest(h) \/ SetLock(h)
                                    \/ SetLockResent(h) \/ GetHolder(h)
        PROVE NotYetStarted'
    BY <2>2 DEF Submit, CheckRequest, SetLock, SetLockResent, GetHolder
  <2>3. ASSUME NEW h \in Handlers, StoreMeta(h) \/ MapRequest(h) \/ Spawn(h)
        PROVE NotYetStarted'
    BY <2>3 DEF StoreMeta, MapRequest, Spawn
  <2>4. ASSUME NEW h \in Handlers, FinishTurn(h) \/ ClearGet(h) \/ ClearDel(h)
                                    \/ ClearDelResent(h) \/ ClearMeta(h) \/ Fail(h)
        PROVE NotYetStarted'
    BY <2>4 DEF FinishTurn, ClearGet, ClearDel, ClearDelResent, ClearMeta, Fail
  <2>5. CASE ExpireLock \/ ExpireMeta \/ \E r \in Requests : ExpireRequest(r)
    BY <2>5 DEF ExpireLock, ExpireMeta, ExpireRequest
  <2>6. QED
    BY <2>1, <2>2, <2>3, <2>4, <2>5 DEF Next, Command
<1>3. QED
  BY <1>1, <1>2, TypeCorrect, PTL DEF Spec

\* Every step of a handler, of a turn, of an expiry or of a failure is a step
\* of the contract or leaves the contract's state alone.
LEMMA StepImplementsContract ==
  ASSUME TypeOK, OwnerHoldsLock, NotYetStarted, [Next]_vars
  PROVE  [Contract!Next]_(Contract!contractVars)
<1> USE DEF TypeOK, GoTo, store, Running, Contract!contractVars
<1>1. CASE UNCHANGED vars
  BY <1>1 DEF vars
<1>2. ASSUME NEW h \in Handlers, Submit(h) \/ CheckRequest(h) \/ GetHolder(h)
      PROVE UNCHANGED Contract!contractVars
  BY <1>2 DEF Submit, CheckRequest, GetHolder
<1>3. ASSUME NEW h \in Handlers, SetLock(h) \/ SetLockResent(h) \/ StoreMeta(h)
      PROVE UNCHANGED Contract!contractVars
  BY <1>3 DEF SetLock, SetLockResent, StoreMeta
<1>4. ASSUME NEW h \in Handlers, ClearGet(h) \/ ClearDel(h) \/ ClearDelResent(h)
                                  \/ ClearMeta(h)
      PROVE UNCHANGED Contract!contractVars
  BY <1>4 DEF ClearGet, ClearDel, ClearDelResent, ClearMeta
<1>5. CASE ExpireLock \/ ExpireMeta
  BY <1>5 DEF ExpireLock, ExpireMeta
<1>6. ASSUME NEW r \in Requests, ExpireRequest(r) PROVE Contract!Forget(r)
  BY <1>6 DEF ExpireRequest, Contract!Forget
<1>7. ASSUME NEW h \in Handlers, MapRequest(h) PROVE Contract!Accept(req[h], h)
  <2>1. h \notin started /\ UNCHANGED <<Running, started>>
    BY <1>7 DEF MapRequest, NotYetStarted, BeforeSpawn
  <2>2. QED
    BY <1>7, <2>1 DEF MapRequest, Contract!Accept
<1>8. ASSUME NEW h \in Handlers, Spawn(h) PROVE Contract!BeginAccepted(h)
  <2>1. h \notin started
    BY <1>8 DEF Spawn, NotYetStarted, BeforeSpawn
  <2>2. Running = {}
    BY <1>8 DEF Spawn, OwnerHoldsLock, Owning
  <2>3. Running' = {h}
    BY <1>8, <2>2 DEF Spawn
  <2>4. QED
    BY <1>8, <2>1, <2>2, <2>3 DEF Spawn, Contract!BeginAccepted, Contract!Begin
<1>9. ASSUME NEW h \in Handlers, FinishTurn(h) \/ (Fail(h) /\ h \in Running)
      PROVE Contract!Finish(h)
  BY <1>9 DEF FinishTurn, Fail, Contract!Finish
<1>10. ASSUME NEW h \in Handlers, Fail(h), h \notin Running
       PROVE UNCHANGED Contract!contractVars
  BY <1>10 DEF Fail
<1>11. QED
  BY <1>1, <1>2, <1>3, <1>4, <1>5, <1>6, <1>7, <1>8, <1>9, <1>10
  DEF Next, Command, Contract!Next

\* The Redis turn store implements the turn contract.
THEOREM RedisImplementsContract ==
  ASSUME Timely
  PROVE  Spec => ImplementsContract
<1>1. Init => Contract!Init
  BY DEF Init, Contract!Init, Running
<1>2. TypeOK /\ OwnerHoldsLock /\ NotYetStarted /\ [Next]_vars
        => [Contract!Next]_(Contract!contractVars)
  BY StepImplementsContract
<1>3. QED
  BY <1>1, <1>2, TypeCorrect, LockOwnership, NotYetStartedHolds, PTL
  DEF Spec, ImplementsContract, Contract!Spec
\* A turn that a client was or will be told of is created or about to be.
Launched(t) == t \in started \/ pc[t] = "spawn"

LaunchInv ==
  faults = 0 =>
    /\ \A h \in Handlers : answer[h] # NoTurn => Launched(answer[h])
    /\ \A r \in Requests : reqMap[r] # NoTurn => Launched(reqMap[r])

\* While nothing fails, a handler that was told of a turn was told of one
\* that starts.
LEMMA LaunchStep ==
  ASSUME TypeOK, TypeOK', LaunchInv, [Next]_vars
  PROVE  LaunchInv'
<1> USE DEF GoTo, store
<1>1. ASSUME UNCHANGED <<answer, started>>,
             \A r \in Requests : reqMap'[r] = reqMap[r] \/ reqMap'[r] = NoTurn,
             \A t \in Handlers : pc[t] = "spawn" => pc'[t] = "spawn",
             faults' = 0 => faults = 0
      PROVE  LaunchInv'
  BY <1>1 DEF LaunchInv, Launched, TypeOK
<1>2. ASSUME NEW h \in Handlers,
             \/ Submit(h) \/ SetLock(h) \/ SetLockResent(h) \/ GetHolder(h) \/ StoreMeta(h)
             \/ FinishTurn(h) \/ ClearGet(h) \/ ClearDel(h) \/ ClearDelResent(h) \/ ClearMeta(h)
      PROVE  LaunchInv'
  <2>1. UNCHANGED <<answer, started, reqMap>> /\ (faults' = 0 => faults = 0)
    BY <1>2 DEF Submit, SetLock, SetLockResent, GetHolder, StoreMeta, FinishTurn, ClearGet, ClearDel,
                ClearDelResent, ClearMeta, TypeOK
  <2>2. \A t \in Handlers : pc[t] = "spawn" => pc'[t] = "spawn"
    BY <1>2 DEF Submit, SetLock, SetLockResent, GetHolder, StoreMeta, FinishTurn, ClearGet, ClearDel,
                ClearDelResent, ClearMeta, TypeOK
  <2>3. QED
    BY <1>1, <2>1, <2>2
<1>3. ASSUME NEW h \in Handlers, CheckRequest(h) PROVE LaunchInv'
  BY <1>3 DEF CheckRequest, LaunchInv, Launched, TypeOK
<1>4. ASSUME NEW h \in Handlers, MapRequest(h) PROVE LaunchInv'
  BY <1>4 DEF MapRequest, LaunchInv, Launched, TypeOK
<1>5. ASSUME NEW h \in Handlers, Spawn(h) PROVE LaunchInv'
  BY <1>5 DEF Spawn, LaunchInv, Launched, TypeOK
<1>6. ASSUME NEW h \in Handlers, Fail(h) PROVE LaunchInv'
  BY <1>6 DEF Fail, LaunchInv, TypeOK
<1>7. CASE \/ ExpireLock \/ ExpireMeta \/ (\E r \in Requests : ExpireRequest(r)) \/ UNCHANGED vars
  BY <1>1, <1>7 DEF ExpireLock, ExpireMeta, ExpireRequest, vars, TypeOK
<1>8. QED
  BY <1>2, <1>3, <1>4, <1>5, <1>6, <1>7 DEF Next, Command

\* While nothing fails, a client that is answered 202 is told of a turn whose task
\* exists or is created next: also a client that retries, in every interleaving
\* with expiries, for turns of any length.
THEOREM AcceptedTurnsStart == Spec => []AcceptedTurnStarts
<1>1. Init => LaunchInv
  BY DEF Init, LaunchInv
<1>2. TypeOK /\ TypeOK' /\ LaunchInv /\ [Next]_vars => LaunchInv'
  BY LaunchStep
<1>3. TypeOK /\ LaunchInv => AcceptedTurnStarts
  BY DEF LaunchInv, Launched, AcceptedTurnStarts
<1>4. QED
  BY <1>1, <1>2, <1>3, TypeCorrect, PTL DEF Spec
=============================================================================

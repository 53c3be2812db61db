---------------------------- MODULE TurnContract ----------------------------
(***************************************************************************)
(* What the turn store promises the chat API of one session, whichever     *)
(* backend keeps the state: at most one turn runs at a time, a turn runs   *)
(* at most once, and (when OnePerRequest) a request id that is mapped to a *)
(* turn is never given a second one.  A mapping may be forgotten (it has a *)
(* lifetime) and the whole store may be lost with the process.             *)
(***************************************************************************)
EXTENDS Integers

CONSTANTS
  Requests,       \* request ids chosen by the client
  Turns,          \* turn ids, one per accepted submission
  NoTurn,         \* the absence of a turn
  OnePerRequest   \* TRUE: a mapped request id is never mapped again

VARIABLES
  owner,          \* owner[r]: the turn the request id r is mapped to
  active,         \* the turns that are running
  spent           \* the turns that have run or are running

contractVars == <<owner, active, spent>>

Init ==
  /\ owner = [r \in Requests |-> NoTurn]
  /\ active = {}
  /\ spent = {}

\* A turn starts: nothing else runs, and it never ran before.
Begin(t) ==
  /\ active = {}
  /\ t \notin spent
  /\ active' = {t}
  /\ spent' = spent \cup {t}

\* A request id is given a turn; the turn may start in the same step.
Accept(r, t) ==
  /\ OnePerRequest => owner[r] = NoTurn
  /\ t \notin spent
  /\ owner' = [owner EXCEPT ![r] = t]
  /\ Begin(t) \/ UNCHANGED <<active, spent>>

BeginAccepted(t) ==
  /\ Begin(t)
  /\ UNCHANGED owner

Finish(t) ==
  /\ t \in active
  /\ active' = active \ {t}
  /\ UNCHANGED <<owner, spent>>

Forget(r) ==
  /\ owner' = [owner EXCEPT ![r] = NoTurn]
  /\ UNCHANGED <<active, spent>>

\* The store is lost with its process, and the turn of that process with it.
Lose ==
  /\ owner' = [r \in Requests |-> NoTurn]
  /\ active' = {}
  /\ UNCHANGED spent

Next ==
  \/ \E r \in Requests, t \in Turns : Accept(r, t)
  \/ \E t \in Turns : BeginAccepted(t) \/ Finish(t)
  \/ \E r \in Requests : Forget(r)
  \/ Lose

Spec == Init /\ [][Next]_contractVars
=============================================================================

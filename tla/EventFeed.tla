------------------------------ MODULE EventFeed ------------------------------
(***************************************************************************)
(* What the event stream of one session promises its clients, whichever    *)
(* backend keeps it: a client that resumes from the last event it received *)
(* receives every later event, in order and without a hole, except those   *)
(* the store has forgotten (expired with the stream, or lost with the      *)
(* process) before the client asked for them.                              *)
(***************************************************************************)
EXTENDS Integers

CONSTANT Clients

VARIABLES
  published,      \* events 1..published have been appended
  forgotten,      \* events 1..forgotten are no longer stored
  got             \* got[c]: the events the client c has received

feedVars == <<published, forgotten, got>>

Init ==
  /\ published = 0
  /\ forgotten = 0
  /\ got = [c \in Clients |-> {}]

Publish ==
  /\ published' = published + 1
  /\ UNCHANGED <<forgotten, got>>

\* A client receives everything stored up to some event.
Receive(c) ==
  /\ \E k \in (forgotten + 1)..published :
       got' = [got EXCEPT ![c] = @ \cup ((forgotten + 1)..k)]
  /\ UNCHANGED <<published, forgotten>>

Lapse ==
  /\ forgotten' = published
  /\ UNCHANGED <<published, got>>

Next == Publish \/ Lapse \/ \E c \in Clients : Receive(c)

Spec == Init /\ [][Next]_feedVars
=============================================================================

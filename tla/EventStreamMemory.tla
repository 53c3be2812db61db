-------------------------- MODULE EventStreamMemory --------------------------
(***************************************************************************)
(* The in-memory event stream of one session (_InMemoryEventStreamStore),  *)
(* used when no Redis is configured, with the SSE connections that read    *)
(* it.  The event loop switches tasks only where a coroutine really        *)
(* suspends: append may suspend between storing the event and notifying    *)
(* the condition; replaying and starting to wait is one uninterrupted run. *)
(*                                                                         *)
(* Event ids are positions in the list and start again at 1 when the       *)
(* process restarts; events themselves are numbered through, so that a     *)
(* client's view can be compared with what was ever appended.              *)
(***************************************************************************)
EXTENDS Integers, Sequences, SequencesExt

CONSTANTS
  Clients,        \* SDK clients, each with at most one connection
  MaxEvents,      \* bound on the events appended
  MaxCloses,      \* bound on closed connections
  MaxRestarts     \* bound on process restarts

ASSUME BoundsAssumption == MaxEvents \in Nat /\ MaxCloses \in Nat /\ MaxRestarts \in Nat

VARIABLES
  last,           \* events 1..last were ever appended
  gone,           \* events 1..gone were lost in restarts; the list holds the others
  unnotified,     \* appends that have stored their event and not yet notified
  pc,             \* where each connection is in its loop
  cursor,         \* last_event_id of each connection, 0 for None
  lastId,         \* the last event id each client has received, 0 for none
  seen,           \* the events each client has received, in order
  closes,
  restarts

vars == <<last, gone, unnotified, pc, cursor, lastId, seen, closes, restarts>>

Loop == {"off", "poll", "waiting", "woken"}

\* The stored events whose id is greater than id a.
After(a) == IF gone + a < last THEN [i \in 1..(last - gone - a) |-> gone + a + i] ELSE <<>>

Init ==
  /\ last = 0
  /\ gone = 0
  /\ unnotified = 0
  /\ pc = [c \in Clients |-> "off"]
  /\ cursor = [c \in Clients |-> 0]
  /\ lastId = [c \in Clients |-> 0]
  /\ seen = [c \in Clients |-> <<>>]
  /\ closes = 0
  /\ restarts = 0

\* The first half of append: the event gets id len(bucket) + 1.
AppendEvent ==
  /\ last < MaxEvents
  /\ last' = last + 1
  /\ unnotified' = unnotified + 1
  /\ UNCHANGED <<gone, pc, cursor, lastId, seen, closes, restarts>>

\* The second half: notify_all wakes the connections that wait now.
Notify ==
  /\ unnotified > 0
  /\ unnotified' = unnotified - 1
  /\ pc' = [c \in Clients |-> IF pc[c] = "waiting" THEN "woken" ELSE pc[c]]
  /\ UNCHANGED <<last, gone, cursor, lastId, seen, closes, restarts>>

\* GET /events?cursor=<last id received>.
Connect(c) ==
  /\ pc[c] = "off"
  /\ pc' = [pc EXCEPT ![c] = "poll"]
  /\ cursor' = [cursor EXCEPT ![c] = lastId[c]]
  /\ UNCHANGED <<last, gone, unnotified, lastId, seen, closes, restarts>>

\* defect: the whole batch is marked as received before it is yielded.
MutantYield(c) ==
  LET batch == After(cursor[c]) IN
  /\ cursor' = [cursor EXCEPT ![c] = last - gone]
  /\ lastId' = [lastId EXCEPT ![c] = last - gone]
  /\ \/ /\ seen' = [seen EXCEPT ![c] = @ \o batch]
        /\ pc' = [pc EXCEPT ![c] = "poll"]
        /\ UNCHANGED closes
     \/ /\ closes < MaxCloses
        /\ \E n \in 0..(Len(batch) - 1) : seen' = [seen EXCEPT ![c] = @ \o SubSeq(batch, 1, n)]
        /\ pc' = [pc EXCEPT ![c] = "off"]
        /\ closes' = closes + 1

\* Yield the batch of events after the cursor; the client may go away in it.
Yield(c) ==
  LET batch == After(cursor[c]) IN
  \/ /\ seen' = [seen EXCEPT ![c] = @ \o batch]
     /\ cursor' = [cursor EXCEPT ![c] = last - gone]
     /\ lastId' = [lastId EXCEPT ![c] = last - gone]
     /\ pc' = [pc EXCEPT ![c] = "poll"]
     /\ UNCHANGED closes
  \/ /\ closes < MaxCloses
     /\ \E n \in 0..(Len(batch) - 1) :
          /\ seen' = [seen EXCEPT ![c] = @ \o SubSeq(batch, 1, n)]
          /\ lastId' = [lastId EXCEPT ![c] = IF n = 0 THEN @ ELSE batch[n] - gone]
     /\ pc' = [pc EXCEPT ![c] = "off"]
     /\ closes' = closes + 1
     /\ UNCHANGED cursor

\* defect: waits first and replays only after a notification.
MutantPoll(c) ==
  /\ pc[c] = "poll"
  /\ pc' = [pc EXCEPT ![c] = "waiting"]
  /\ UNCHANGED <<last, gone, unnotified, cursor, lastId, seen, closes, restarts>>

\* wait_for_events: replay, or start to wait on the condition.
Poll(c) ==
  /\ pc[c] = "poll"
  /\ \/ After(cursor[c]) # <<>> /\ Yield(c)
     \/ /\ After(cursor[c]) = <<>>
        /\ pc' = [pc EXCEPT ![c] = "waiting"]
        /\ UNCHANGED <<cursor, lastId, seen, closes>>
  /\ UNCHANGED <<last, gone, unnotified, restarts>>

\* Notified: replay again; nothing after the cursor is a keep-alive.
Woken(c) ==
  /\ pc[c] = "woken"
  /\ \/ After(cursor[c]) # <<>> /\ Yield(c)
     \/ /\ After(cursor[c]) = <<>>
        /\ pc' = [pc EXCEPT ![c] = "poll"]
        /\ UNCHANGED <<cursor, lastId, seen, closes>>
  /\ UNCHANGED <<last, gone, unnotified, restarts>>

\* The 15 s poll timed out: keep-alive and loop.
KeepAlive(c) ==
  /\ pc[c] = "waiting"
  /\ pc' = [pc EXCEPT ![c] = "poll"]
  /\ UNCHANGED <<last, gone, unnotified, cursor, lastId, seen, closes, restarts>>

\* The 300 s cap or a network failure.
Close(c) ==
  /\ pc[c] # "off"
  /\ closes < MaxCloses
  /\ pc' = [pc EXCEPT ![c] = "off"]
  /\ closes' = closes + 1
  /\ UNCHANGED <<last, gone, unnotified, cursor, lastId, seen, restarts>>

\* The process restarts with an empty store; clients keep their cursors.
Restart ==
  /\ restarts < MaxRestarts
  /\ gone' = last
  /\ unnotified' = 0
  /\ pc' = [c \in Clients |-> "off"]
  /\ restarts' = restarts + 1
  /\ UNCHANGED <<last, cursor, lastId, seen, closes>>

Next ==
  \/ AppendEvent \/ Notify \/ Restart
  \/ \E c \in Clients : Connect(c) \/ Poll(c) \/ Woken(c) \/ KeepAlive(c) \/ Close(c)

\* The event loop runs ready tasks and timers fire; nobody has to append,
\* connect or close.
Fairness ==
  /\ WF_vars(Notify)
  /\ \A c \in Clients : WF_vars(Poll(c)) /\ WF_vars(Woken(c)) /\ WF_vars(KeepAlive(c))

Spec == Init /\ [][Next]_vars
FairSpec == Spec /\ Fairness

-----------------------------------------------------------------------------
TypeOK ==
  /\ last \in 0..MaxEvents
  /\ gone \in 0..last
  /\ unnotified \in 0..MaxEvents
  /\ pc \in [Clients -> Loop]
  /\ cursor \in [Clients -> 0..MaxEvents]
  /\ lastId \in [Clients -> 0..MaxEvents]
  /\ seen \in [Clients -> Seq(1..MaxEvents)]
  /\ closes \in 0..MaxCloses
  /\ restarts \in 0..MaxRestarts

\* A connected client eventually receives every event, although an append
\* may notify while the connection is not waiting.  After a restart a client may
\* hold a cursor ahead of the new ids, which then pass it by.
EventsReachConnectedClients ==
  \A c \in Clients : \A i \in 1..MaxEvents :
    (pc[c] # "off" /\ i \in (gone + 1)..last)
      ~> (i \in ToSet(seen[c]) \/ pc[c] = "off" \/ restarts > 0)

Feed == INSTANCE EventFeed
  WITH published <- last, forgotten <- gone, got <- [c \in Clients |-> ToSet(seen[c])]

\* Until the process restarts, every step is one of the feed: "replay by event
\* cursor after reconnect" leaves no gap.
FollowsFeed == [][restarts' = 0 => Feed!Next]_Feed!feedVars
=============================================================================

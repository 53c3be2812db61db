----------------------------- MODULE EventStream -----------------------------
(***************************************************************************)
(* The Redis-backed event stream of one session                            *)
(* (agent/services/event_stream_service.py) and the SSE connections that   *)
(* read it (stream_events in agent/routers/chat_events.py).  Turns, human  *)
(* replies and dashboard notices append events with XADD; a connection     *)
(* loops over wait_for_events: replay what is stored after its cursor,     *)
(* else work out where to read from, else block in XREAD.                  *)
(*                                                                         *)
(* Redis ids grow with every XADD, so event ids are 1, 2, 3, ... and 0     *)
(* stands for "no cursor" (None in the code).                              *)
(***************************************************************************)
EXTENDS Integers, Sequences, SequencesExt

CONSTANTS
  Clients,        \* SDK clients, each with at most one connection
  MaxEvents,      \* bound on the events appended
  MaxCloses,      \* bound on closed connections
  ColdClients     \* clients that may ask without a cursor for an empty stream

ASSUME EventsAssumption == MaxEvents \in Nat
ASSUME ClosesAssumption == MaxCloses \in Nat
ASSUME ColdAssumption == ColdClients \subseteq Clients

VARIABLES
  last,           \* id of the latest event
  gone,           \* events 1..gone expired with the stream key
  pc,             \* where each connection is in its loop
  cursor,         \* last_event_id of the connection
  start,          \* start_id of its XREAD
  seen,           \* the events each client has received, in order
  closes          \* connections closed so far

vars == <<last, gone, pc, cursor, start, seen, closes>>

NoCursor == 0
Dollar == -1      \* XREAD's "$": only events after the command's arrival

Loop == {"off", "replay", "latest", "xread", "blocked"}

\* The stored events after id a, as XRANGE and XREAD return them.
After(a) == LET from == IF a > gone THEN a ELSE gone
            IN  [i \in 1..(last - from) |-> from + i]

Init ==
  /\ last = 0
  /\ gone = 0
  /\ pc = [c \in Clients |-> "off"]
  /\ cursor = [c \in Clients |-> NoCursor]
  /\ start = [c \in Clients |-> NoCursor]
  /\ seen = [c \in Clients |-> <<>>]
  /\ closes = 0

\* XADD; the EXPIRE that follows renews the lifetime of the whole stream.
AppendEvent ==
  /\ last < MaxEvents
  /\ last' = last + 1
  /\ UNCHANGED <<gone, pc, cursor, start, seen, closes>>

\* The stream expires after hours without an append.  A connection asks
\* every 15 s, so no connected client is behind by then.
Expire ==
  /\ gone < last
  /\ \A c \in Clients : pc[c] # "off" => cursor[c] = last
  /\ gone' = last
  /\ UNCHANGED <<last, pc, cursor, start, seen, closes>>

\* GET /events?cursor=<last id received>.
Connect(c) ==
  /\ pc[c] = "off"
  /\ c \in ColdClients \/ seen[c] # <<>> \/ last > gone
  /\ pc' = [pc EXCEPT ![c] = "replay"]
  /\ cursor' = [cursor EXCEPT ![c] = IF seen[c] = <<>> THEN NoCursor ELSE Last(seen[c])]
  /\ UNCHANGED <<last, gone, start, seen, closes>>

\* defect: last_event_id is not advanced while the batch is yielded.
MutantYield(c, batch) ==
  /\ seen' = [seen EXCEPT ![c] = @ \o batch]
  /\ pc' = [pc EXCEPT ![c] = "replay"]
  /\ UNCHANGED <<cursor, closes>>

\* The batch is yielded to the client, which may go away in the middle of it.
Yield(c, batch) ==
  \/ /\ seen' = [seen EXCEPT ![c] = @ \o batch]
     /\ cursor' = [cursor EXCEPT ![c] = Last(batch)]
     /\ pc' = [pc EXCEPT ![c] = "replay"]
     /\ UNCHANGED closes
  \/ /\ closes < MaxCloses
     /\ \E n \in 0..(Len(batch) - 1) :
          seen' = [seen EXCEPT ![c] = @ \o SubSeq(batch, 1, n)]
     /\ pc' = [pc EXCEPT ![c] = "off"]
     /\ closes' = closes + 1
     /\ UNCHANGED cursor

\* defect: XREAD always starts at "$".
MutantReplay(c) ==
  /\ pc[c] = "replay"
  /\ pc' = [pc EXCEPT ![c] = "xread"]
  /\ start' = [start EXCEPT ![c] = Dollar]
  /\ UNCHANGED <<last, gone, cursor, seen, closes>>

\* XRANGE after the cursor; nothing stored: read from the cursor, if any.
Replay(c) ==
  /\ pc[c] = "replay"
  /\ \/ /\ After(cursor[c]) # <<>>
        /\ Yield(c, After(cursor[c]))
        /\ UNCHANGED start
     \/ /\ After(cursor[c]) = <<>>
        /\ pc' = [pc EXCEPT ![c] = IF cursor[c] = NoCursor THEN "latest" ELSE "xread"]
        /\ start' = [start EXCEPT ![c] = cursor[c]]
        /\ UNCHANGED <<cursor, seen, closes>>
  /\ UNCHANGED <<last, gone>>

\* XREVRANGE ... COUNT 1, or "$" when the stream is empty.
Latest(c) ==
  /\ pc[c] = "latest"
  /\ pc' = [pc EXCEPT ![c] = "xread"]
  /\ start' = [start EXCEPT ![c] = IF last > gone THEN last ELSE Dollar]
  /\ UNCHANGED <<last, gone, cursor, seen, closes>>

\* XREAD BLOCK reaches Redis, which fixes the meaning of "$".
XRead(c) ==
  /\ pc[c] = "xread"
  /\ pc' = [pc EXCEPT ![c] = "blocked"]
  /\ start' = [start EXCEPT ![c] = IF @ = Dollar THEN last ELSE @]
  /\ UNCHANGED <<last, gone, cursor, seen, closes>>

XReadReturns(c) ==
  /\ pc[c] = "blocked"
  /\ After(start[c]) # <<>>
  /\ Yield(c, After(start[c]))
  /\ UNCHANGED <<last, gone, start>>

\* The poll timed out, or a command raised a RedisError: keep-alive and loop.
KeepAlive(c) ==
  /\ pc[c] \in {"latest", "xread", "blocked"}
  /\ pc' = [pc EXCEPT ![c] = "replay"]
  /\ UNCHANGED <<last, gone, cursor, start, seen, closes>>

\* The 300 s cap, a network failure or the end of the worker.
Close(c) ==
  /\ pc[c] # "off"
  /\ closes < MaxCloses
  /\ pc' = [pc EXCEPT ![c] = "off"]
  /\ closes' = closes + 1
  /\ UNCHANGED <<last, gone, cursor, start, seen>>

Next ==
  \/ AppendEvent
  \/ Expire
  \/ \E c \in Clients : \/ Connect(c) \/ Replay(c) \/ Latest(c) \/ XRead(c)
                        \/ XReadReturns(c) \/ KeepAlive(c) \/ Close(c)

\* A connection's loop runs; XREAD returns or times out.  Nobody has to
\* append, connect or close.
Fairness ==
  \A c \in Clients :
    /\ WF_vars(Replay(c))
    /\ WF_vars(Latest(c))
    /\ WF_vars(XRead(c))
    /\ WF_vars(XReadReturns(c))

Spec == Init /\ [][Next]_vars
FairSpec == Spec /\ Fairness

-----------------------------------------------------------------------------
TypeOK ==
  /\ last \in 0..MaxEvents
  /\ gone \in 0..last
  /\ pc \in [Clients -> Loop]
  /\ cursor \in [Clients -> 0..MaxEvents]
  /\ start \in [Clients -> Dollar..MaxEvents]
  /\ seen \in [Clients -> Seq(1..MaxEvents)]
  /\ closes \in 0..MaxCloses

\* A client never receives an event twice or after a later one, across
\* polls, errors and reconnections.
ReceivedInOrder ==
  \A c \in Clients : \A i, j \in 1..Len(seen[c]) : i < j => seen[c][i] < seen[c][j]

\* A connected client eventually receives every event, unless it asked an empty
\* stream without a cursor: "$" may start behind an event appended meanwhile.
EventsReachConnectedClients ==
  \A c \in Clients \ ColdClients : \A i \in 1..MaxEvents :
    (pc[c] # "off" /\ i \in (gone + 1)..last) ~> (i \in ToSet(seen[c]) \/ pc[c] = "off")

Warm == Clients \ ColdClients
Feed == INSTANCE EventFeed
  WITH Clients <- Warm, published <- last, forgotten <- gone,
       got <- [c \in Warm |-> ToSet(seen[c])]

\* The Redis stream implements the feed for the clients that have a cursor or
\* found an event stored: they resume without a gap, whatever the others do,
\* across timeouts, errors, expiry and broken connections.
ImplementsFeed == Feed!Spec
=============================================================================

-------------------------- MODULE EventStreamProofs --------------------------
(***************************************************************************)
(* Proofs about EventStream, for any number of clients, events, interrupted*)
(* connections and expiries of the stream.                                 *)
(*                                                                         *)
(* Both theorems rest on where a connection stands: it reads on from the   *)
(* last event that its client has received, whatever the way it came to    *)
(* its cursor and to the start of its XREAD.                               *)
(***************************************************************************)
EXTENDS EventStream, SequenceTheorems, TLAPS

\* The last event received, or NoCursor.
Position(c) == IF seen[c] = <<>> THEN NoCursor ELSE Last(seen[c])

\* What a reader has received is in order.
Ordered(s) == \A i, j \in 1..Len(s) : i < j => s[i] < s[j]

\* A connection reads on from its client's position.
CursorsAtPosition == \A c \in Clients : pc[c] # "off" => cursor[c] = Position(c)

StartsAtPosition ==
  \A c \in Clients : seen[c] # <<>> =>
    pc[c] # "latest" /\ (pc[c] \in {"xread", "blocked"} => start[c] = Position(c))

OrderInv ==
  /\ CursorsAtPosition
  /\ StartsAtPosition
  /\ \A c \in Clients : Ordered(seen[c]) /\ Position(c) <= last

\* A client that has a cursor, or found an event stored, has received everything
\* that is still stored up to its position, and gets on without asking for "$".
FeedInv ==
  \A c \in Warm : /\ (gone + 1)..Position(c) \subseteq ToSet(seen[c])
                  /\ pc[c] # "off" /\ seen[c] = <<>> => last > gone /\ pc[c] = "replay"

-----------------------------------------------------------------------------
(* What a batch is, and what it adds to a client's view. *)

\* The n events after from, as a sequence.
Run(b, from, n) == b \in Seq(Int) /\ Len(b) = n /\ \A i \in 1..n : b[i] = from + i

\* What is stored after an id: the events from the later of it and the expiry on.
LEMMA AfterFacts ==
  ASSUME last \in Nat, gone \in Nat, NEW a \in Int,
         NEW from, from = IF a > gone THEN a ELSE gone
  PROVE  /\ After(a) # <<>> => last > from /\ Run(After(a), from, last - from)
         /\ After(a) = <<>> => last <= from
<1>1. from \in Nat
  OBVIOUS
<1>2. CASE last > from
  <2> DEFINE n == last - from
  <2>1. n \in Nat \ {0} /\ After(a) = [i \in 1..n |-> from + i]
    BY <1>1, <1>2 DEF After
  <2>2. After(a) \in [1..n -> Int]
    BY <1>1, <2>1
  <2>3. After(a) \in Seq(Int)
    BY <2>1, <2>2, SeqDef
  <2>4. Len(After(a)) \in Nat /\ 1..Len(After(a)) = 1..n
    BY <2>2, <2>3, LenProperties
  <2>5. Len(After(a)) = n
    BY <2>1, <2>4
  <2>6. After(a) # <<>>
    BY <2>1, <2>5, EmptySeq
  <2>7. QED
    BY <1>1, <1>2, <2>1, <2>3, <2>5, <2>6 DEF Run
<1>3. CASE last <= from
  <2>1. 1..(last - from) = {}
    BY <1>1, <1>3
  <2>2. After(a) = <<>>
    BY <2>1 DEF After
  <2>3. QED
    BY <1>3, <2>2
<1>4. QED
  BY <1>1, <1>2, <1>3

\* The first k elements of a view are events up to m, and in order.
Upto(s, k, m) == \A i \in 1..k : s[i] \in 1..m
Rising(s, k) == \A i, j \in 1..k : i < j => s[i] < s[j]

\* t continues the k elements of s with the n events after from.
Continues(t, s, k, from, n) == \A i \in 1..(k + n) : t[i] = IF i <= k THEN s[i] ELSE from + (i - k)

\* A view in order, continued by later events, is in order.
LEMMA Continued ==
  ASSUME NEW m \in Nat, NEW from \in Nat, NEW n \in Nat, from + n <= m, NEW k \in Nat, NEW s, NEW t,
         Upto(s, k, m), Upto(s, k, from), Rising(s, k), Continues(t, s, k, from, n)
  PROVE  Upto(t, k + n, m) /\ Rising(t, k + n)
<1>1. Upto(t, k + n, m)
  BY DEF Upto, Continues
<1>2. ASSUME NEW i \in 1..(k + n), NEW j \in 1..(k + n), i < j PROVE t[i] < t[j]
  <2>1. CASE j <= k
    BY <1>2, <2>1 DEF Rising, Continues
  <2>2. CASE ~(j <= k) /\ i <= k
    <3>1. s[i] <= from /\ s[i] \in Int /\ t[i] = s[i] /\ t[j] = from + (j - k)
      BY <1>2, <2>2 DEF Upto, Continues
    <3>2. QED
      BY <1>2, <2>2, <3>1
  <2>3. CASE ~(j <= k) /\ ~(i <= k)
    <3>1. t[i] = from + (i - k) /\ t[j] = from + (j - k)
      BY <1>2, <2>3 DEF Continues
    <3>2. QED
      BY <1>2, <3>1
  <2>4. QED
    BY <1>2, <2>1, <2>2, <2>3
<1>3. QED
  BY <1>1, <1>2 DEF Rising

\* Consecutive events, appended to what was received in order before them.
LEMMA ReceiveMore ==
  ASSUME NEW m \in Nat, NEW s \in Seq(1..m), NEW from \in Nat, NEW n \in Nat, from + n <= m,
         Ordered(s), s # <<>> => Last(s) <= from,
         NEW b, Run(b, from, n)
  PROVE  /\ s \o b \in Seq(1..m)
         /\ Ordered(s \o b)
         /\ ToSet(s \o b) = ToSet(s) \cup ((from + 1)..(from + n))
         /\ n > 0 => s \o b # <<>> /\ Last(s \o b) = from + n
         /\ n = 0 => s \o b = s
<1>1. Len(s) \in Nat /\ DOMAIN s = 1..Len(s) /\ \A i \in 1..Len(s) : s[i] \in 1..m
  BY LenProperties, ElementOfSeq
<1> USE DEF Run
<1>2. PICK k \in Nat : k = Len(s)
  BY <1>1
<1>3. \A i \in 1..k : s[i] \in 1..m /\ s[i] <= from
  <2> SUFFICES ASSUME NEW i \in 1..k PROVE s[i] <= from
    BY <1>1, <1>2
  <2>1. s # <<>> /\ k \in 1..k
    BY <1>2, EmptySeq
  <2>2. i = k \/ s[i] < s[k]
    BY <1>2, <2>1 DEF Ordered
  <2>3. s[k] <= from /\ s[k] \in 1..m /\ s[i] \in 1..m
    BY <1>1, <1>2, <2>1 DEF Last
  <2>4. QED
    BY <2>2, <2>3
<1>4. PICK t : t = s \o b
  OBVIOUS
<1>5. /\ t \in Seq(Int) /\ Len(t) = k + n
      /\ \A i \in 1..(k + n) : t[i] = IF i <= k THEN s[i] ELSE b[i - k]
  <2>1. 1..m \subseteq Int
    OBVIOUS
  <2>2. s \in Seq(Int)
    BY <2>1, SeqMonotonic
  <2>3. QED
    BY <1>2, <1>4, <2>2, ConcatProperties
<1>6. \A i \in 1..(k + n) : t[i] = IF i <= k THEN s[i] ELSE from + (i - k)
  BY <1>5
<1>7. DOMAIN t = 1..(k + n) /\ t \in [1..(k + n) -> Int]
  BY <1>5, LenProperties
<1>8. /\ Upto(t, k + n, m) /\ Rising(t, k + n)
      /\ \A x \in (from + 1)..(from + n) : k + (x - from) \in 1..(k + n) /\ t[k + (x - from)] = x
      /\ \A i \in 1..(k + n) : i <= k \/ t[i] \in (from + 1)..(from + n)
      /\ n > 0 => t[k + n] = from + n
  <2>1. Upto(s, k, m) /\ Upto(s, k, from)
    BY <1>3 DEF Upto
  <2>2. Rising(s, k)
    BY <1>2 DEF Ordered, Rising
  <2>3. Continues(t, s, k, from, n)
    BY <1>6 DEF Continues
  <2>4. Upto(t, k + n, m) /\ Rising(t, k + n)
    BY <2>1, <2>2, <2>3, Continued
  <2>5. \A x \in (from + 1)..(from + n) : k + (x - from) \in 1..(k + n) /\ t[k + (x - from)] = x
    <3> SUFFICES ASSUME NEW x \in (from + 1)..(from + n)
                 PROVE  k + (x - from) \in 1..(k + n) /\ t[k + (x - from)] = x
      OBVIOUS
    <3>1. k + (x - from) \in 1..(k + n) /\ ~(k + (x - from) <= k)
      OBVIOUS
    <3>2. t[k + (x - from)] = from + ((k + (x - from)) - k)
      BY <1>6, <3>1
    <3>3. QED
      BY <3>1, <3>2
  <2>6. \A i \in 1..(k + n) : i <= k \/ t[i] \in (from + 1)..(from + n)
    BY <1>6
  <2>7. n > 0 => t[k + n] = from + n
    BY <1>6
  <2>8. QED
    BY <2>4, <2>5, <2>6, <2>7
<1>9. t \in Seq(1..m)
  <2>1. t \in [1..(k + n) -> 1..m] /\ k + n \in Nat
    BY <1>7, <1>8 DEF Upto
  <2>2. QED
    BY <2>1, SeqDef
<1>10. ToSet(t) = ToSet(s) \cup ((from + 1)..(from + n))
  <2>1. ToSet(t) = {t[i] : i \in 1..(k + n)} /\ ToSet(s) = {s[i] : i \in 1..k}
    BY <1>1, <1>2, <1>7 DEF ToSet
  <2>2. \A i \in 1..(k + n) : i <= k => i \in 1..k /\ t[i] = s[i]
    BY <1>6
  <2>3. \A i \in 1..k : i \in 1..(k + n) /\ t[i] = s[i]
    BY <1>6
  <2>4. \A x \in (from + 1)..(from + n) : x \in {t[i] : i \in 1..(k + n)}
    BY <1>8
  <2>5. \A x \in {s[i] : i \in 1..k} : x \in {t[i] : i \in 1..(k + n)}
    BY <2>3
  <2>6. ASSUME NEW i \in 1..(k + n)
        PROVE  t[i] \in {s[j] : j \in 1..k} \cup ((from + 1)..(from + n))
    <3>1. CASE i <= k
      BY <2>2, <3>1
    <3>2. CASE ~(i <= k)
      BY <1>8, <3>2
    <3>3. QED
      BY <3>1, <3>2
  <2>7. {t[i] : i \in 1..(k + n)} = {s[i] : i \in 1..k} \cup ((from + 1)..(from + n))
    BY <2>4, <2>5, <2>6, Zenon
  <2>8. QED
    BY <2>1, <2>7
<1>11. n > 0 => t # <<>> /\ Last(t) = from + n
  <2> SUFFICES ASSUME n > 0 PROVE t # <<>> /\ Last(t) = from + n
    OBVIOUS
  <2>1. Len(t) # 0
    BY <1>5
  <2>2. t # <<>>
    BY <2>1, EmptySeq, Zenon
  <2>3. t[Len(t)] = from + n
    BY <1>5, <1>8
  <2>4. QED
    BY <2>2, <2>3 DEF Last
<1>12. n = 0 => t = s
  <2> SUFFICES ASSUME n = 0 PROVE t = s
    OBVIOUS
  <2>1. Len(t) = Len(s) /\ \A i \in 1..Len(t) : t[i] = s[i]
    BY <1>2, <1>5, <1>6
  <2>2. QED
    BY <1>9, <2>1, SeqEqual
<1>13. Ordered(t)
  BY <1>5, <1>8 DEF Ordered, Rising
<1>14. QED
  BY <1>4, <1>9, <1>10, <1>11, <1>12, <1>13

\* What a client has after a batch was yielded to it from the id a, completely or
\* up to the point where it went away: n events after from.
Received(c, from, n) ==
  /\ from + n <= last
  /\ seen' = [seen EXCEPT ![c] = seen'[c]]
  /\ seen'[c] \in Seq(1..MaxEvents)
  /\ Ordered(seen'[c])
  /\ ToSet(seen'[c]) = ToSet(seen[c]) \cup ((from + 1)..(from + n))
  /\ n > 0 => seen'[c] # <<>> /\ Last(seen'[c]) = from + n
  /\ n = 0 => seen'[c] = seen[c]

\* A batch that is yielded, completely or in part, is received in order, and
\* the cursor follows it.
LEMMA YieldReceives ==
  ASSUME TypeOK, NEW c \in Clients, Ordered(seen[c]), NEW a \in Int,
         seen[c] # <<>> => Last(seen[c]) <= a,
         After(a) # <<>>, Yield(c, After(a)),
         NEW from, from = IF a > gone THEN a ELSE gone
  PROVE  \E n \in Nat :
           /\ Received(c, from, n)
           /\ \/ /\ n > 0
                 /\ cursor' = [cursor EXCEPT ![c] = from + n]
                 /\ pc' = [pc EXCEPT ![c] = "replay"]
                 /\ closes' = closes
              \/ /\ pc' = [pc EXCEPT ![c] = "off"]
                 /\ closes' \in 0..MaxCloses
                 /\ cursor' = cursor
<1> USE EventsAssumption, ClosesAssumption
<1>1. /\ last \in Nat /\ gone \in Nat /\ last <= MaxEvents /\ from \in Nat
      /\ seen[c] \in Seq(1..MaxEvents) /\ seen \in [Clients -> Seq(1..MaxEvents)]
      /\ closes \in 0..MaxCloses
  BY DEF TypeOK
<1>2. PICK b : b = After(a)
  OBVIOUS
<1>3. last > from /\ Run(b, from, last - from)
  BY <1>1, <1>2, AfterFacts
<1>4. seen[c] # <<>> => Last(seen[c]) <= from
  <2>1. ASSUME seen[c] # <<>> PROVE Last(seen[c]) \in Int
    <3>1. Len(seen[c]) \in 1..Len(seen[c])
      BY <1>1, <2>1, EmptySeq
    <3>2. QED
      BY <1>1, <3>1, ElementOfSeq DEF Last
  <2>2. QED
    BY <1>1, <2>1
<1>5. ASSUME NEW n \in Nat, from + n <= last, NEW p, Run(p, from, n), seen' = [seen EXCEPT ![c] = @ \o p]
      PROVE  Received(c, from, n)
  <2>1. seen'[c] = seen[c] \o p
    BY <1>1, <1>5
  <2>2. from + n <= MaxEvents /\ MaxEvents \in Nat
    BY <1>1, <1>5
  <2>3. /\ seen'[c] \in Seq(1..MaxEvents)
        /\ Ordered(seen'[c])
        /\ ToSet(seen'[c]) = ToSet(seen[c]) \cup ((from + 1)..(from + n))
        /\ n > 0 => seen'[c] # <<>> /\ Last(seen'[c]) = from + n
        /\ n = 0 => seen'[c] = seen[c]
    BY <1>1, <1>4, <1>5, <2>1, <2>2, ReceiveMore
  <2>4. seen' = [seen EXCEPT ![c] = seen'[c]]
    BY <1>5, <2>1
  <2>5. QED
    BY <1>5, <2>3, <2>4 DEF Received
<1>6. CASE /\ seen' = [seen EXCEPT ![c] = @ \o b]
           /\ cursor' = [cursor EXCEPT ![c] = Last(b)]
           /\ pc' = [pc EXCEPT ![c] = "replay"]
           /\ UNCHANGED closes
  <2>1. PICK n \in Nat : n = last - from
    <3>1. last - from \in Nat
      BY <1>1, <1>3
    <3>2. QED
      BY <3>1
  <2>2. Received(c, from, n)
    <3>1. from + n <= last /\ Run(b, from, n)
      BY <1>1, <1>3, <2>1
    <3>2. QED
      BY <1>5, <1>6, <3>1
  <2>3. Last(b) = from + n /\ n > 0
    BY <1>1, <1>3, <2>1 DEF Last, Run
  <2>4. QED
    BY <1>6, <2>2, <2>3
<1>7. CASE /\ closes < MaxCloses
           /\ \E n \in 0..(Len(b) - 1) : seen' = [seen EXCEPT ![c] = @ \o SubSeq(b, 1, n)]
           /\ pc' = [pc EXCEPT ![c] = "off"]
           /\ closes' = closes + 1
           /\ UNCHANGED cursor
  <2>1. PICK n \in 0..(Len(b) - 1) : seen' = [seen EXCEPT ![c] = @ \o SubSeq(b, 1, n)]
    BY <1>7
  <2>2. n \in Nat /\ from + n <= last
    BY <1>1, <1>3 DEF Run
  <2>3. PICK p : p = SubSeq(b, 1, n)
    OBVIOUS
  <2>4. \A i \in 1..n : b[i] = from + i /\ b[i] \in Int
    BY <1>1, <1>3 DEF Run
  <2>5. Run(p, from, n)
    <3>1. /\ p \in Seq(Int)
          /\ Len(p) = IF 1 <= n THEN n - 1 + 1 ELSE 0
          /\ \A i \in 1..(n - 1 + 1) : p[i] = b[1 + i - 1]
      BY <2>2, <2>3, <2>4, SubSeqProperties
    <3>2. QED
      BY <2>2, <2>4, <3>1 DEF Run
  <2>6. Received(c, from, n)
    BY <1>5, <2>1, <2>2, <2>3, <2>5
  <2>7. closes' \in 0..MaxCloses
    BY <1>1, <1>7
  <2>8. QED
    BY <1>7, <2>2, <2>6, <2>7
<1>8. QED
  BY <1>2, <1>6, <1>7 DEF Yield

-----------------------------------------------------------------------------
(* The invariants. *)

\* Both keep under a batch, from the cursor or from the start of the XREAD.
LEMMA YieldKeeps ==
  ASSUME TypeOK, OrderInv, NEW c \in Clients, NEW a \in Int, a = cursor[c] \/ a = start[c],
         seen[c] # <<>> => a = Position(c), pc[c] \in Loop,
         After(a) # <<>>, Yield(c, After(a)), UNCHANGED <<last, gone, start>>
  PROVE  TypeOK' /\ OrderInv'
<1> USE EventsAssumption, ClosesAssumption
<1>1. PICK from : from = IF a > gone THEN a ELSE gone
  OBVIOUS
<1>2. Ordered(seen[c]) /\ (seen[c] # <<>> => Last(seen[c]) <= a)
  <2>1. seen[c] # <<>> => Last(seen[c]) = a
    BY DEF Position
  <2>2. QED
    BY <2>1 DEF OrderInv
<1>3. PICK n \in Nat :
        /\ Received(c, from, n)
        /\ \/ /\ n > 0
              /\ cursor' = [cursor EXCEPT ![c] = from + n]
              /\ pc' = [pc EXCEPT ![c] = "replay"]
              /\ closes' = closes
           \/ /\ pc' = [pc EXCEPT ![c] = "off"]
              /\ closes' \in 0..MaxCloses
              /\ cursor' = cursor
  BY <1>1, <1>2, YieldReceives
<1>4. from \in Nat /\ from + n \in 0..MaxEvents /\ from + n <= last
  BY <1>1, <1>3 DEF TypeOK, Received
<1>5. TypeOK'
  <2>1. seen' \in [Clients -> Seq(1..MaxEvents)]
    BY <1>3 DEF TypeOK, Received
  <2>2. cursor' \in [Clients -> 0..MaxEvents]
    BY <1>3, <1>4 DEF TypeOK
  <2>3. pc' \in [Clients -> Loop] /\ closes' \in 0..MaxCloses
    BY <1>3 DEF TypeOK, Loop
  <2>4. QED
    BY <2>1, <2>2, <2>3 DEF TypeOK
<1>6. \A d \in Clients : d # c => seen'[d] = seen[d] /\ pc'[d] = pc[d] /\ cursor'[d] = cursor[d]
  <2>1. \A d \in Clients : d # c => seen'[d] = seen[d]
    BY <1>3 DEF TypeOK, Received
  <2>2. \A d \in Clients : d # c => pc'[d] = pc[d] /\ cursor'[d] = cursor[d]
    BY <1>3 DEF TypeOK
  <2>3. QED
    BY <2>1, <2>2
<1>7. \/ n > 0 /\ cursor'[c] = from + n /\ pc'[c] = "replay"
      \/ pc'[c] = "off"
  BY <1>3 DEF TypeOK
<1>8. n > 0 => Position(c)' = from + n
  BY <1>3 DEF Position, Received
<1>9. n = 0 => Position(c)' = Position(c)
  BY <1>3 DEF Position, Received
<1>10. CursorsAtPosition'
  BY <1>6, <1>7, <1>8 DEF OrderInv, CursorsAtPosition, Position
<1>11. StartsAtPosition'
  BY <1>6, <1>7 DEF OrderInv, StartsAtPosition, Position
<1>12. ASSUME NEW d \in Clients PROVE (Ordered(seen[d]) /\ Position(d) <= last)'
  <2>1. CASE d = c
    <3>1. Position(c) <= last
      BY DEF OrderInv
    <3>2. Position(c)' <= last
      <4>1. CASE n > 0
        BY <1>4, <1>8, <4>1
      <4>2. CASE n = 0
        BY <1>9, <3>1, <4>2
      <4>3. QED
        BY <4>1, <4>2
    <3>3. Ordered(seen'[c])
      BY <1>3 DEF Received
    <3>4. QED
      BY <2>1, <3>2, <3>3 DEF Ordered
  <2>2. CASE d # c
    <3>1. Ordered(seen[d]) /\ Position(d) <= last /\ seen'[d] = seen[d]
      BY <1>6, <2>2 DEF OrderInv
    <3>2. QED
      BY <3>1 DEF Ordered, Position
  <2>3. QED
    BY <2>1, <2>2
<1>13. QED
  BY <1>5, <1>10, <1>11, <1>12 DEF OrderInv

\* At first nobody has received anything.
LEMMA Initially == Init => TypeOK /\ OrderInv
<1> SUFFICES ASSUME Init PROVE TypeOK /\ OrderInv
  OBVIOUS
<1>1. TypeOK
  <2>1. <<>> \in Seq(1..MaxEvents)
    BY EmptySeq
  <2>2. QED
    BY <2>1, EventsAssumption, ClosesAssumption DEF Init, TypeOK, Loop, NoCursor, Dollar
<1>2. \A c \in Clients : seen[c] = <<>> /\ pc[c] = "off"
  BY DEF Init
<1>3. ASSUME NEW c \in Clients PROVE Ordered(seen[c]) /\ Position(c) <= last
  <2>1. Len(seen[c]) = 0
    BY <1>2, EmptySeq
  <2>2. QED
    BY <1>2, <2>1 DEF Ordered, Position, NoCursor, Init
<1>4. QED
  BY <1>1, <1>2, <1>3 DEF OrderInv, CursorsAtPosition, StartsAtPosition

\* The position of a client with an empty view is NoCursor, of another one an event.
LEMMA Positions ==
  ASSUME TypeOK, NEW c \in Clients
  PROVE  IF seen[c] = <<>> THEN Position(c) = NoCursor ELSE Position(c) \in 1..MaxEvents
<1>1. CASE seen[c] = <<>>
  BY <1>1 DEF Position
<1>2. CASE seen[c] # <<>>
  <2>1. seen[c] \in Seq(1..MaxEvents)
    BY DEF TypeOK
  <2>2. Len(seen[c]) \in 1..Len(seen[c])
    BY <1>2, <2>1, EmptySeq
  <2>3. QED
    BY <1>2, <2>1, <2>2, ElementOfSeq DEF Position, Last
<1>3. QED
  BY <1>1, <1>2

\* Nothing but the batches changes what the clients have received.
LEMMA QuietKeeps ==
  ASSUME TypeOK, OrderInv, seen' = seen, last' \in Nat, last' >= last,
         CursorsAtPosition', StartsAtPosition'
  PROVE  OrderInv'
<1>1. ASSUME NEW c \in Clients PROVE (Ordered(seen[c]) /\ Position(c) <= last)'
  <2>1. Ordered(seen[c]) /\ Position(c) <= last
    BY DEF OrderInv
  <2>2. Position(c) \in Int /\ Position(c)' = Position(c) /\ last \in Int
    BY Positions, EventsAssumption DEF Position, NoCursor, TypeOK
  <2>3. QED
    BY <2>1, <2>2 DEF Ordered
<1>2. QED
  BY <1>1 DEF OrderInv

\* Types, cursors and order, step by step.
LEMMA StepKeeps == TypeOK /\ OrderInv /\ [Next]_vars => TypeOK' /\ OrderInv'
<1> SUFFICES ASSUME TypeOK, OrderInv, [Next]_vars PROVE TypeOK' /\ OrderInv'
  OBVIOUS
<1> USE EventsAssumption, ClosesAssumption
<1> DEFINE Kept == UNCHANGED <<pc, cursor, start, seen>>
<1>1. ASSUME Kept, TypeOK', last' >= last PROVE OrderInv'
  <2>1. CursorsAtPosition' /\ StartsAtPosition'
    BY <1>1 DEF OrderInv, CursorsAtPosition, StartsAtPosition, Position
  <2>2. QED
    BY <1>1, <2>1, QuietKeeps DEF TypeOK
<1>2. CASE AppendEvent
  <2>1. TypeOK'
    BY <1>2 DEF AppendEvent, TypeOK
  <2>2. QED
    BY <1>1, <1>2, <2>1 DEF AppendEvent, TypeOK
<1>3. CASE Expire
  <2>1. TypeOK'
    BY <1>3 DEF Expire, TypeOK
  <2>2. QED
    BY <1>1, <1>3, <2>1 DEF Expire, TypeOK
<1>4. CASE UNCHANGED vars
  <2>1. TypeOK'
    BY <1>4 DEF vars, TypeOK
  <2>2. QED
    BY <1>1, <1>4, <2>1 DEF vars, TypeOK
<1>5. ASSUME NEW c \in Clients, Connect(c) PROVE TypeOK' /\ OrderInv'
  <2>1. cursor' = [cursor EXCEPT ![c] = Position(c)]
    BY <1>5 DEF Connect, Position
  <2>2. Position(c) \in 0..MaxEvents
    BY Positions DEF NoCursor
  <2>3. TypeOK'
    BY <1>5, <2>1, <2>2 DEF Connect, TypeOK, Loop
  <2>4. \A d \in Clients : d # c => pc'[d] = pc[d] /\ cursor'[d] = cursor[d]
    BY <1>5, <2>1 DEF Connect, TypeOK
  <2>5. pc'[c] = "replay" /\ cursor'[c] = Position(c) /\ seen' = seen /\ start' = start
    BY <1>5, <2>1 DEF Connect, TypeOK
  <2>6. CursorsAtPosition' /\ StartsAtPosition'
    BY <2>4, <2>5 DEF OrderInv, CursorsAtPosition, StartsAtPosition, Position
  <2>7. QED
    BY <1>5, <2>3, <2>5, <2>6, QuietKeeps DEF Connect, TypeOK
<1>6. ASSUME NEW c \in Clients, Replay(c) PROVE TypeOK' /\ OrderInv'
  <2>1. cursor[c] = Position(c) /\ cursor[c] \in Int /\ pc[c] \in Loop
    BY <1>6 DEF Replay, OrderInv, CursorsAtPosition, TypeOK
  <2>2. CASE After(cursor[c]) # <<>>
    BY <1>6, <2>1, <2>2, YieldKeeps DEF Replay
  <2>3. CASE /\ pc' = [pc EXCEPT ![c] = IF cursor[c] = NoCursor THEN "latest" ELSE "xread"]
             /\ start' = [start EXCEPT ![c] = cursor[c]]
             /\ UNCHANGED <<cursor, seen, closes, last, gone>>
    <3>1. TypeOK'
      BY <2>3 DEF TypeOK, Loop, Dollar
    <3>2. \A d \in Clients : d # c => pc'[d] = pc[d] /\ start'[d] = start[d]
      BY <2>3 DEF TypeOK
    <3>3. start'[c] = cursor[c] /\ pc[c] # "off"
          /\ pc'[c] = IF cursor[c] = NoCursor THEN "latest" ELSE "xread"
      BY <1>6, <2>3 DEF TypeOK, Replay
    <3>4. CursorsAtPosition'
      BY <2>1, <2>3, <3>2 DEF OrderInv, CursorsAtPosition, Position
    <3>5. seen[c] # <<>> => pc'[c] = "xread" /\ start'[c] = Position(c)
      BY <2>1, <3>3, Positions DEF NoCursor
    <3>6. StartsAtPosition'
      BY <2>3, <3>2, <3>5 DEF OrderInv, StartsAtPosition, Position
    <3>7. QED
      BY <2>3, <3>1, <3>4, <3>6, QuietKeeps DEF TypeOK
  <2>4. QED
    BY <1>6, <2>2, <2>3 DEF Replay
<1>7. ASSUME NEW c \in Clients, Latest(c) PROVE TypeOK' /\ OrderInv'
  <2>1. TypeOK'
    BY <1>7 DEF Latest, TypeOK, Loop, Dollar
  <2>2. \A d \in Clients : d # c => pc'[d] = pc[d] /\ start'[d] = start[d]
    BY <1>7 DEF Latest, TypeOK
  <2>3. seen[c] = <<>> /\ pc[c] # "off" /\ seen' = seen /\ cursor' = cursor
    BY <1>7 DEF Latest, OrderInv, StartsAtPosition
  <2>4. CursorsAtPosition' /\ StartsAtPosition'
    BY <2>2, <2>3 DEF OrderInv, CursorsAtPosition, StartsAtPosition, Position
  <2>5. QED
    BY <1>7, <2>1, <2>3, <2>4, QuietKeeps DEF Latest, TypeOK
<1>8. ASSUME NEW c \in Clients, XRead(c) PROVE TypeOK' /\ OrderInv'
  <2>1. TypeOK'
    BY <1>8 DEF XRead, TypeOK, Loop, Dollar
  <2>2. \A d \in Clients : d # c => pc'[d] = pc[d] /\ start'[d] = start[d]
    BY <1>8 DEF XRead, TypeOK
  <2>3. pc[c] = "xread" /\ pc'[c] = "blocked" /\ seen' = seen /\ cursor' = cursor
        /\ (start[c] # Dollar => start'[c] = start[c])
    BY <1>8 DEF XRead, TypeOK
  <2>4. seen[c] # <<>> => start'[c] = Position(c)
    BY <2>3, Positions DEF OrderInv, StartsAtPosition, Dollar
  <2>5. CursorsAtPosition' /\ StartsAtPosition'
    BY <2>2, <2>3, <2>4 DEF OrderInv, CursorsAtPosition, StartsAtPosition, Position
  <2>6. QED
    BY <1>8, <2>1, <2>3, <2>5, QuietKeeps DEF XRead, TypeOK
<1>9. ASSUME NEW c \in Clients, XReadReturns(c) PROVE TypeOK' /\ OrderInv'
  <2>1. start[c] \in Int /\ pc[c] \in Loop
    BY DEF TypeOK, Dollar
  <2>2. seen[c] # <<>> => start[c] = Position(c)
    BY <1>9 DEF XReadReturns, OrderInv, StartsAtPosition
  <2>3. QED
    BY <1>9, <2>1, <2>2, YieldKeeps DEF XReadReturns
<1>10. ASSUME NEW c \in Clients, KeepAlive(c) \/ Close(c) PROVE TypeOK' /\ OrderInv'
  <2>1. TypeOK'
    <3>1. pc' \in [Clients -> Loop] /\ UNCHANGED <<last, gone, cursor, start, seen>>
      BY <1>10 DEF KeepAlive, Close, TypeOK, Loop
    <3>2. closes' \in 0..MaxCloses
      BY <1>10 DEF KeepAlive, Close, TypeOK
    <3>3. QED
      BY <3>1, <3>2 DEF TypeOK
  <2>2. /\ \A d \in Clients : d # c => pc'[d] = pc[d]
        /\ pc'[c] \in {"replay", "off"} /\ pc[c] # "off"
        /\ seen' = seen /\ cursor' = cursor /\ start' = start /\ last' = last
    BY <1>10 DEF KeepAlive, Close, TypeOK
  <2>3. CursorsAtPosition' /\ StartsAtPosition'
    BY <2>2 DEF OrderInv, CursorsAtPosition, StartsAtPosition, Position
  <2>4. QED
    BY <2>1, <2>2, <2>3, QuietKeeps DEF TypeOK
<1>11. QED
  BY <1>2, <1>3, <1>4, <1>5, <1>6, <1>7, <1>8, <1>9, <1>10 DEF Next

\* Every variable keeps its type.
THEOREM TypeCorrect == Spec => []TypeOK
<1>1. TypeOK /\ OrderInv => TypeOK
  OBVIOUS
<1>2. QED
  BY Initially, StepKeeps, <1>1, PTL DEF Spec

\* No client receives an event twice, or after a later one: not when a poll times
\* out, the connection breaks in the middle of a batch, the client comes back, or
\* the stream expires in between.
THEOREM InOrder == Spec => []ReceivedInOrder
<1>1. OrderInv => ReceivedInOrder
  BY DEF OrderInv, Ordered, ReceivedInOrder
<1>2. QED
  BY Initially, StepKeeps, <1>1, PTL DEF Spec

-----------------------------------------------------------------------------
(* The refinement. *)

\* A batch is a Receive of the feed, or nothing for a client that went away at once.
LEMMA YieldFeeds ==
  ASSUME TypeOK, OrderInv, FeedInv, NEW c \in Clients, NEW a \in Int,
         seen[c] # <<>> => a = Position(c),
         c \in Warm /\ seen[c] = <<>> => a <= gone,
         After(a) # <<>>, Yield(c, After(a)), UNCHANGED <<last, gone>>
  PROVE  FeedInv' /\ [Feed!Next]_(Feed!feedVars)
<1>1. PICK from : from = IF a > gone THEN a ELSE gone
  OBVIOUS
<1>2. Ordered(seen[c]) /\ (seen[c] # <<>> => Last(seen[c]) <= a)
  <2>1. seen[c] # <<>> => Last(seen[c]) = a
    BY DEF Position
  <2>2. QED
    BY <2>1 DEF OrderInv
<1>3. PICK n \in Nat :
        /\ Received(c, from, n)
        /\ \/ n > 0 /\ pc' = [pc EXCEPT ![c] = "replay"]
           \/ pc' = [pc EXCEPT ![c] = "off"]
  BY <1>1, <1>2, YieldReceives
<1>4. \A d \in Clients : d # c => seen'[d] = seen[d] /\ pc'[d] = pc[d]
  BY <1>3 DEF TypeOK, Received
<1>5. pc'[c] = "off" \/ (n > 0 /\ pc'[c] = "replay")
  BY <1>3 DEF TypeOK
<1>6. from \in Nat /\ gone \in Nat /\ from >= gone /\ last \in Nat /\ from + n <= last
  BY <1>1, <1>3, EventsAssumption DEF TypeOK, Received
<1>7. c \in Warm => (gone + 1)..from \subseteq ToSet(seen[c])
  <2> SUFFICES ASSUME c \in Warm PROVE (gone + 1)..from \subseteq ToSet(seen[c])
    OBVIOUS
  <2>1. CASE from = gone
    BY <1>6, <2>1
  <2>2. CASE from # gone
    <3>1. from = a /\ ~(a <= gone)
      BY <1>1, <1>6, <2>2
    <3>2. from = Position(c)
      BY <3>1
    <3>3. QED
      BY <3>2 DEF FeedInv
  <2>3. QED
    BY <2>1, <2>2
<1>8. c \in Warm => ToSet(seen'[c]) = ToSet(seen[c]) \cup ((gone + 1)..(from + n))
  <2>1. (gone + 1)..(from + n) = ((gone + 1)..from) \cup ((from + 1)..(from + n))
    BY <1>6
  <2>2. QED
    BY <1>3, <1>7, <2>1 DEF Received
<1>9. FeedInv'
  <2> SUFFICES ASSUME NEW d \in Warm
               PROVE  ((gone + 1)..Position(d) \subseteq ToSet(seen[d])
                       /\ (pc[d] # "off" /\ seen[d] = <<>> => last > gone /\ pc[d] = "replay"))'
    BY DEF FeedInv, Warm
  <2>1. d \in Clients
    BY DEF Warm
  <2>2. CASE d # c
    BY <1>4, <2>1, <2>2 DEF FeedInv, Position
  <2>3. CASE d = c /\ n = 0
    <3>1. seen'[d] = seen[d] /\ pc'[d] = "off"
      BY <1>3, <1>5, <2>3 DEF Received
    <3>2. QED
      BY <3>1 DEF FeedInv, Position
  <2>4. CASE d = c /\ n > 0
    <3>1. seen'[d] # <<>> /\ Position(d)' = from + n
      BY <1>3, <2>4 DEF Received, Position
    <3>2. QED
      BY <1>8, <2>4, <3>1
  <2>5. QED
    BY <2>2, <2>3, <2>4
<1> DEFINE Got == [d \in Warm |-> ToSet(seen[d])]
<1>10. [Feed!Next]_(Feed!feedVars)
  <2>1. CASE c \in Warm /\ n > 0
    <3>1. from + n \in (gone + 1)..last
      BY <1>6, <2>1
    <3>2. Got' = [Got EXCEPT ![c] = @ \cup ((gone + 1)..(from + n))]
      <4>1. \A d \in Warm : d # c => ToSet(seen'[d]) = ToSet(seen[d])
        BY <1>4 DEF Warm
      <4>2. QED
        BY <1>8, <2>1, <4>1
    <3>3. Feed!Receive(c)
      BY <3>1, <3>2 DEF Feed!Receive
    <3>4. QED
      BY <2>1, <3>3 DEF Feed!Next
  <2>2. CASE c \notin Warm \/ n = 0
    <3>1. \A d \in Warm : ToSet(seen'[d]) = ToSet(seen[d])
      BY <1>3, <1>4, <2>2 DEF Warm, Received
    <3>2. Got' = Got
      BY <3>1
    <3>3. QED
      BY <3>2 DEF Feed!feedVars
  <2>3. QED
    BY <2>1, <2>2
<1>11. QED
  BY <1>9, <1>10

\* Every step of the stream is one of the feed, or none.
LEMMA FeedStep ==
  TypeOK /\ OrderInv /\ FeedInv /\ [Next]_vars => FeedInv' /\ [Feed!Next]_(Feed!feedVars)
<1> SUFFICES ASSUME TypeOK, OrderInv, FeedInv, [Next]_vars
             PROVE  FeedInv' /\ [Feed!Next]_(Feed!feedVars)
  OBVIOUS
<1> USE EventsAssumption
<1>1. ASSUME seen' = seen, last' = last, gone' = gone PROVE [Feed!Next]_(Feed!feedVars)
  BY <1>1 DEF Feed!feedVars
<1>2. ASSUME seen' = seen, gone' = gone, last' = last,
             NEW c \in Clients, \A d \in Clients : d # c => pc'[d] = pc[d],
             c \in Warm /\ pc'[c] # "off" /\ seen[c] = <<>> => last > gone /\ pc'[c] = "replay"
      PROVE  FeedInv'
  BY <1>2 DEF FeedInv, Position, Warm
<1>3. CASE UNCHANGED vars
  BY <1>1, <1>3 DEF FeedInv, vars, Position
<1>4. CASE AppendEvent
  <2>1. FeedInv'
    BY <1>4 DEF AppendEvent, FeedInv, Position, TypeOK
  <2>2. Feed!Publish
    BY <1>4 DEF AppendEvent, Feed!Publish
  <2>3. QED
    BY <2>1, <2>2 DEF Feed!Next
<1>5. CASE Expire
  <2>1. ASSUME NEW c \in Warm
        PROVE  ((gone + 1)..Position(c) \subseteq ToSet(seen[c])
                /\ (pc[c] # "off" /\ seen[c] = <<>> => last > gone /\ pc[c] = "replay"))'
    <3>1. c \in Clients /\ Position(c) <= last /\ last \in Nat /\ gone < last /\ gone \in Nat
      BY <1>5 DEF Warm, OrderInv, TypeOK, Expire
    <3>2. Position(c) \in Int
      BY <3>1, Positions DEF NoCursor
    <3>3. (last + 1)..Position(c) = {}
      BY <3>1, <3>2
    <3>4. pc[c] # "off" => cursor[c] = last /\ cursor[c] = Position(c)
      BY <1>5, <3>1 DEF Expire, OrderInv, CursorsAtPosition
    <3>5. ~(pc[c] # "off" /\ seen[c] = <<>>)
      BY <3>1, <3>4 DEF Position, NoCursor
    <3>6. gone' = last /\ Position(c)' = Position(c) /\ seen' = seen /\ pc' = pc
      BY <1>5 DEF Expire, Position
    <3>7. QED
      BY <3>3, <3>5, <3>6
  <2>2. Feed!Lapse
    BY <1>5 DEF Expire, Feed!Lapse
  <2>3. FeedInv'
    BY <2>1 DEF FeedInv, Warm
  <2>4. QED
    BY <2>2, <2>3 DEF Feed!Next
<1>6. ASSUME NEW c \in Clients, Connect(c) PROVE FeedInv' /\ [Feed!Next]_(Feed!feedVars)
  <2>1. /\ seen' = seen /\ gone' = gone /\ last' = last /\ pc'[c] = "replay"
        /\ \A d \in Clients : d # c => pc'[d] = pc[d]
    BY <1>6 DEF Connect, TypeOK
  <2>2. c \in Warm /\ seen[c] = <<>> => last > gone
    BY <1>6 DEF Connect, Warm
  <2>3. QED
    BY <1>1, <1>2, <2>1, <2>2
<1>7. ASSUME NEW c \in Clients, Replay(c) PROVE FeedInv' /\ [Feed!Next]_(Feed!feedVars)
  <2>1. cursor[c] = Position(c) /\ cursor[c] \in Int /\ gone \in Nat /\ last \in Nat
    BY <1>7 DEF Replay, OrderInv, CursorsAtPosition, TypeOK
  <2>2. CASE After(cursor[c]) # <<>>
    <3>1. seen[c] = <<>> => cursor[c] <= gone
      BY <2>1 DEF Position, NoCursor
    <3>2. Yield(c, After(cursor[c])) /\ UNCHANGED <<last, gone>>
      BY <1>7, <2>2 DEF Replay
    <3>3. QED
      BY <2>1, <2>2, <3>1, <3>2, YieldFeeds
  <2>3. CASE After(cursor[c]) = <<>>
    <3>1. ~(c \in Warm /\ seen[c] = <<>>)
      <4> SUFFICES ASSUME c \in Warm, seen[c] = <<>> PROVE FALSE
        OBVIOUS
      <4>1. last > gone
        BY <1>7 DEF FeedInv, Replay
      <4>2. cursor[c] = 0
        BY <2>1 DEF Position, NoCursor
      <4>3. PICK from : from = IF cursor[c] > gone THEN cursor[c] ELSE gone
        OBVIOUS
      <4>4. last <= from
        BY <2>1, <2>3, <4>3, AfterFacts
      <4>5. QED
        BY <2>1, <4>1, <4>2, <4>3, <4>4
    <3>2. /\ seen' = seen /\ gone' = gone /\ last' = last
          /\ \A d \in Clients : d # c => pc'[d] = pc[d]
      BY <1>7, <2>3 DEF Replay, TypeOK
    <3>3. QED
      BY <1>1, <1>2, <3>1, <3>2
  <2>4. QED
    BY <2>2, <2>3
<1>8. ASSUME NEW c \in Clients, XReadReturns(c) PROVE FeedInv' /\ [Feed!Next]_(Feed!feedVars)
  <2>1. start[c] \in Int /\ pc[c] = "blocked"
    BY <1>8 DEF XReadReturns, TypeOK, Dollar
  <2>2. seen[c] # <<>> => start[c] = Position(c)
    BY <2>1 DEF OrderInv, StartsAtPosition
  <2>3. ~(c \in Warm /\ seen[c] = <<>>)
    BY <2>1 DEF FeedInv
  <2>4. After(start[c]) # <<>> /\ Yield(c, After(start[c])) /\ UNCHANGED <<last, gone>>
    BY <1>8 DEF XReadReturns
  <2>5. QED
    BY <2>1, <2>2, <2>3, <2>4, YieldFeeds
<1>9. ASSUME NEW c \in Clients, Latest(c) \/ XRead(c) \/ KeepAlive(c) \/ Close(c)
      PROVE  FeedInv' /\ [Feed!Next]_(Feed!feedVars)
  <2>1. /\ seen' = seen /\ gone' = gone /\ last' = last
        /\ \A d \in Clients : d # c => pc'[d] = pc[d]
    BY <1>9 DEF Latest, XRead, KeepAlive, Close, TypeOK
  <2>2. pc[c] \in {"latest", "xread", "blocked"} \/ pc'[c] = "off"
    BY <1>9 DEF Latest, XRead, KeepAlive, Close, TypeOK
  <2>3. c \in Warm /\ pc'[c] # "off" => seen[c] # <<>>
    BY <2>2 DEF FeedInv
  <2>4. QED
    BY <1>1, <1>2, <2>1, <2>3
<1>10. QED
  BY <1>3, <1>4, <1>5, <1>6, <1>7, <1>8, <1>9 DEF Next

\* The Redis stream implements the feed: a client that comes with a cursor, or finds
\* an event stored, resumes from its last event without a hole, for any number of
\* clients, broken connections and expiries.
THEOREM StreamImplementsFeed == Spec => ImplementsFeed
<1>1. Init => FeedInv /\ Feed!Init
  <2> SUFFICES ASSUME Init PROVE FeedInv /\ Feed!Init
    OBVIOUS
  <2>1. \A c \in Warm : seen[c] = <<>> /\ pc[c] = "off"
    BY DEF Init, Warm
  <2>2. \A c \in Warm : ToSet(seen[c]) = {}
    <3>1. DOMAIN <<>> = {}
      OBVIOUS
    <3>2. QED
      BY <2>1, <3>1 DEF ToSet
  <2>3. gone = 0 /\ last = 0
    BY DEF Init
  <2>4. FeedInv
    <3>1. \A c \in Warm : (gone + 1)..Position(c) = {}
      BY <2>1, <2>3 DEF Position, NoCursor
    <3>2. QED
      BY <2>1, <3>1 DEF FeedInv
  <2>5. Feed!Init
    BY <2>2, <2>3 DEF Feed!Init
  <2>6. QED
    BY <2>4, <2>5
<1>2. QED
  BY <1>1, Initially, StepKeeps, FeedStep, PTL DEF Spec, ImplementsFeed, Feed!Spec

-----------------------------------------------------------------------------
(* The in-memory stream keeps the same variables and three of its own.  As long as *)
(* the process lives, what a client has received is exactly the events up to its   *)
(* last id, so each of its steps is one of the feed.                               *)

CONSTANT MaxRestarts
VARIABLES unnotified, lastId, restarts

Memory == INSTANCE EventStreamMemory

\* The connections of a process that has not restarted stand at their last id.
Lived ==
  /\ last \in Nat /\ gone = 0
  /\ pc \in [Clients -> {"off", "poll", "waiting", "woken"}]
  /\ cursor \in [Clients -> Nat]
  /\ lastId \in [Clients -> Nat]
  /\ seen \in [Clients -> Seq(Int)]
  /\ \A c \in Clients : /\ lastId[c] <= last
                        /\ Run(seen[c], 0, lastId[c])
                        /\ pc[c] # "off" => cursor[c] = lastId[c]

MemoryInv == restarts \in Nat /\ (restarts = 0 => Lived)

\* The events up to k and the n after them are the events up to k + n.
LEMMA RunOn ==
  ASSUME NEW k \in Nat, NEW n \in Nat, NEW s, Run(s, 0, k), NEW b, Run(b, k, n)
  PROVE  Run(s \o b, 0, k + n)
<1>1. /\ s \o b \in Seq(Int) /\ Len(s \o b) = k + n
      /\ \A i \in 1..(k + n) : (s \o b)[i] = IF i <= k THEN s[i] ELSE b[i - k]
  BY ConcatProperties DEF Run
<1>2. ASSUME NEW i \in 1..(k + n) PROVE (s \o b)[i] = i
  <2>1. CASE i <= k
    BY <1>1, <2>1 DEF Run
  <2>2. CASE ~(i <= k)
    <3>1. i - k \in 1..n
      BY <2>2
    <3>2. b[i - k] = k + (i - k)
      BY <3>1 DEF Run
    <3>3. (s \o b)[i] = b[i - k]
      BY <1>1, <2>2
    <3>4. k + (i - k) = i
      OBVIOUS
    <3>5. QED
      BY ONLY <3>2, <3>3, <3>4
  <2>3. QED
    BY <2>1, <2>2
<1>3. QED
  BY <1>1, <1>2 DEF Run

\* Such a view has received exactly the events up to k.
LEMMA RunIsInterval ==
  ASSUME NEW k \in Nat, NEW s, Run(s, 0, k)
  PROVE  Memory!ToSet(s) = 1..k
<1>1. DOMAIN s = 1..k /\ \A i \in 1..k : s[i] = i
  BY LenProperties DEF Run
<1>2. QED
  BY <1>1 DEF Memory!ToSet

\* A batch of the in-memory stream.
LEMMA MemoryAfter ==
  ASSUME last \in Nat, gone = 0, NEW a \in Nat
  PROVE  /\ Memory!After(a) # <<>> => last > a /\ Run(Memory!After(a), a, last - a)
         /\ Memory!After(a) = <<>> => last <= a
<1>1. CASE last > a
  <2> DEFINE n == last - a
  <2>1. n \in Nat \ {0} /\ Memory!After(a) = [i \in 1..n |-> a + i]
    BY <1>1 DEF Memory!After
  <2>2. Memory!After(a) \in [1..n -> Int]
    BY <2>1
  <2>3. Memory!After(a) \in Seq(Int)
    BY <2>1, <2>2, SeqDef
  <2>4. Len(Memory!After(a)) \in Nat /\ 1..Len(Memory!After(a)) = 1..n
    BY <2>2, <2>3, LenProperties
  <2>5. Len(Memory!After(a)) = n
    BY <2>1, <2>4
  <2>6. Memory!After(a) # <<>>
    BY <2>1, <2>5, EmptySeq
  <2>7. QED
    BY <1>1, <2>1, <2>3, <2>5, <2>6 DEF Run
<1>2. CASE ~(last > a)
  BY <1>2 DEF Memory!After
<1>3. QED
  BY <1>1, <1>2

\* A batch of the in-memory stream is a Receive of the feed.
LEMMA MemoryYield ==
  ASSUME Lived, NEW c \in Clients, pc[c] # "off", Memory!After(cursor[c]) # <<>>, Memory!Yield(c),
         UNCHANGED <<last, gone>>
  PROVE  Lived' /\ [Memory!Feed!Next]_(Memory!Feed!feedVars)
<1>1. PICK k \in Nat : k = cursor[c]
  BY DEF Lived
<1>2. lastId[c] = k /\ Run(seen[c], 0, k) /\ last \in Nat /\ gone = 0
  BY <1>1 DEF Lived
<1>3. PICK b : b = Memory!After(cursor[c])
  OBVIOUS
<1>4. last > k /\ Run(b, k, last - k)
  BY <1>1, <1>2, <1>3, MemoryAfter
<1>5. ASSUME NEW n \in Nat, k + n <= last, NEW p, Run(p, k, n),
             seen' = [seen EXCEPT ![c] = @ \o p],
             lastId' = [lastId EXCEPT ![c] = k + n],
             \/ pc' = [pc EXCEPT ![c] = "poll"] /\ cursor' = [cursor EXCEPT ![c] = k + n]
             \/ pc' = [pc EXCEPT ![c] = "off"] /\ cursor' = cursor
      PROVE  Lived' /\ [Memory!Feed!Next]_(Memory!Feed!feedVars)
  <2>1. seen'[c] = seen[c] \o p
    BY <1>5 DEF Lived
  <2>2. Run(seen'[c], 0, k + n)
    <3>1. Run(seen[c] \o p, 0, k + n)
      BY <1>2, <1>5, RunOn
    <3>2. QED
      BY <2>1, <3>1
  <2>3. \A d \in Clients : d # c => seen'[d] = seen[d] /\ lastId'[d] = lastId[d]
    BY <1>5 DEF Lived
  <2>4. \A d \in Clients : d # c => pc'[d] = pc[d] /\ cursor'[d] = cursor[d]
    BY <1>5 DEF Lived
  <2>5. lastId'[c] = k + n /\ (pc'[c] = "off" \/ cursor'[c] = k + n)
    BY <1>5 DEF Lived
  <2>6. /\ pc' \in [Clients -> {"off", "poll", "waiting", "woken"}]
        /\ cursor' \in [Clients -> Nat] /\ lastId' \in [Clients -> Nat]
        /\ last' = last /\ gone' = gone
    BY <1>5 DEF Lived
  <2>7. seen' \in [Clients -> Seq(Int)]
    <3>1. seen'[c] \in Seq(Int)
      BY <2>2 DEF Run
    <3>2. seen' = [seen EXCEPT ![c] = seen'[c]]
      BY <1>5, <2>1
    <3>3. QED
      BY <3>1, <3>2 DEF Lived
  <2>8. ASSUME NEW d \in Clients
        PROVE  /\ lastId'[d] <= last
               /\ Run(seen'[d], 0, lastId'[d])
               /\ pc'[d] # "off" => cursor'[d] = lastId'[d]
    <3>1. CASE d = c
      BY <1>5, <2>2, <2>5, <3>1
    <3>2. CASE d # c
      BY <2>3, <2>4, <3>2 DEF Lived
    <3>3. QED
      BY <3>1, <3>2
  <2>9. Lived'
    BY <1>2, <2>6, <2>7, <2>8 DEF Lived, Run
  <2> DEFINE Got == [d \in Clients |-> Memory!ToSet(seen[d])]
  <2>10. CASE n = 0
    <3>1. Memory!ToSet(seen'[c]) = Memory!ToSet(seen[c])
      BY <1>2, <2>2, <2>10, RunIsInterval
    <3>2. \A d \in Clients : Memory!ToSet(seen'[d]) = Memory!ToSet(seen[d])
      BY <2>3, <3>1
    <3>3. Got' = Got
      BY <3>2
    <3>4. last' = last /\ gone' = gone
      BY <2>6
    <3>5. UNCHANGED Memory!Feed!feedVars
      BY <3>3, <3>4 DEF Memory!Feed!feedVars
    <3>6. QED
      BY <2>9, <3>5
  <2>11. CASE n # 0
    <3>1. Memory!ToSet(seen[c]) = 1..k /\ Memory!ToSet(seen'[c]) = 1..(k + n)
      BY <1>2, <2>2, RunIsInterval
    <3>2. Memory!ToSet(seen'[c]) = Memory!ToSet(seen[c]) \cup ((gone + 1)..(k + n))
      BY <1>2, <3>1
    <3>3. Got' = [Got EXCEPT ![c] = @ \cup ((gone + 1)..(k + n))]
      BY <2>3, <3>2
    <3>4. k + n \in (gone + 1)..last
      BY <1>2, <1>5, <2>11
    <3>5. last' = last /\ gone' = gone
      BY <2>6
    <3>6. Memory!Feed!Receive(c)
      BY <3>3, <3>4, <3>5 DEF Memory!Feed!Receive
    <3>7. QED
      BY <2>9, <3>6 DEF Memory!Feed!Next
  <2>12. QED
    BY <2>10, <2>11
<1>6. CASE /\ seen' = [seen EXCEPT ![c] = @ \o b]
           /\ cursor' = [cursor EXCEPT ![c] = last - gone]
           /\ lastId' = [lastId EXCEPT ![c] = last - gone]
           /\ pc' = [pc EXCEPT ![c] = "poll"]
  <2>1. PICK n \in Nat : n = last - k
    <3>1. last - k \in Nat
      BY <1>2, <1>4
    <3>2. QED
      BY <3>1
  <2>2. last - gone = k + n /\ k + n <= last /\ Run(b, k, n)
    BY <1>2, <1>4, <2>1
  <2>3. QED
    BY <1>5, <1>6, <2>2
<1>7. CASE /\ \E n \in 0..(Len(b) - 1) :
                /\ seen' = [seen EXCEPT ![c] = @ \o SubSeq(b, 1, n)]
                /\ lastId' = [lastId EXCEPT ![c] = IF n = 0 THEN @ ELSE b[n] - gone]
           /\ pc' = [pc EXCEPT ![c] = "off"]
           /\ UNCHANGED cursor
  <2>1. PICK n \in 0..(Len(b) - 1) :
          /\ seen' = [seen EXCEPT ![c] = @ \o SubSeq(b, 1, n)]
          /\ lastId' = [lastId EXCEPT ![c] = IF n = 0 THEN @ ELSE b[n] - gone]
    BY <1>7
  <2>2. n \in Nat /\ k + n <= last
    BY <1>2, <1>4 DEF Run
  <2>3. PICK p : p = SubSeq(b, 1, n)
    OBVIOUS
  <2>4. \A i \in 1..n : b[i] = k + i /\ b[i] \in Int
    BY <1>4, <1>2 DEF Run
  <2>5. Run(p, k, n)
    <3>1. /\ p \in Seq(Int)
          /\ Len(p) = IF 1 <= n THEN n - 1 + 1 ELSE 0
          /\ \A i \in 1..(n - 1 + 1) : p[i] = b[1 + i - 1]
      BY <2>2, <2>3, <2>4, SubSeqProperties
    <3>2. QED
      BY <2>2, <2>4, <3>1 DEF Run
  <2>6. (IF n = 0 THEN lastId[c] ELSE b[n] - gone) = k + n
    BY <1>2, <2>2, <2>4
  <2>7. lastId' = [lastId EXCEPT ![c] = k + n]
    BY <2>1, <2>6
  <2>8. seen' = [seen EXCEPT ![c] = @ \o p]
    BY <2>1, <2>3
  <2>9. QED
    BY <1>5, <1>7, <2>2, <2>5, <2>7, <2>8
<1>8. QED
  BY <1>3, <1>6, <1>7 DEF Memory!Yield

\* Every step before the restart is one of the feed, or none.
LEMMA MemoryStep ==
  MemoryInv /\ [Memory!Next]_(Memory!vars) =>
    MemoryInv' /\ [restarts' = 0 => Memory!Feed!Next]_(Memory!Feed!feedVars)
<1> SUFFICES ASSUME MemoryInv, [Memory!Next]_(Memory!vars)
             PROVE  MemoryInv' /\ [restarts' = 0 => Memory!Feed!Next]_(Memory!Feed!feedVars)
  OBVIOUS
<1>1. CASE Memory!Restart
  BY <1>1 DEF Memory!Restart, MemoryInv
<1>2. CASE ~Memory!Restart /\ restarts # 0
  <2>1. restarts' = restarts
    BY <1>2 DEF Memory!Next, Memory!vars, Memory!AppendEvent, Memory!Notify, Memory!Connect,
                Memory!Poll, Memory!Woken, Memory!KeepAlive, Memory!Close
  <2>2. QED
    BY <1>2, <2>1 DEF MemoryInv
<1>3. CASE ~Memory!Restart /\ restarts = 0
  <2> SUFFICES restarts' = restarts /\ Lived' /\ [Memory!Feed!Next]_(Memory!Feed!feedVars)
    BY <1>3 DEF MemoryInv
  <2>1. restarts' = restarts
    BY <1>3 DEF Memory!Next, Memory!vars, Memory!AppendEvent, Memory!Notify, Memory!Connect,
                Memory!Poll, Memory!Woken, Memory!KeepAlive, Memory!Close
  <2> USE <1>3 DEF MemoryInv
  <2>2. CASE Memory!AppendEvent
    <3>1. Lived'
      BY <2>2 DEF Memory!AppendEvent, Lived, Run
    <3>2. Memory!Feed!Publish
      BY <2>2 DEF Memory!AppendEvent, Memory!Feed!Publish
    <3>3. QED
      BY <2>1, <3>1, <3>2 DEF Memory!Feed!Next
  <2>3. ASSUME UNCHANGED <<last, gone, seen, lastId>>,
               pc' \in [Clients -> {"off", "poll", "waiting", "woken"}],
               cursor' \in [Clients -> Nat],
               \A c \in Clients : pc'[c] # "off" => cursor'[c] = lastId[c]
        PROVE  Lived' /\ [Memory!Feed!Next]_(Memory!Feed!feedVars)
    <3>1. Lived'
      BY <2>3 DEF Lived, Run
    <3>2. QED
      BY <2>3, <3>1 DEF Memory!Feed!feedVars
  <2>4. CASE Memory!Notify
    <3>1. UNCHANGED <<last, gone, seen, lastId, cursor>>
      BY <2>4 DEF Memory!Notify
    <3>2. /\ pc' \in [Clients -> {"off", "poll", "waiting", "woken"}]
          /\ \A c \in Clients : pc'[c] # "off" => pc[c] # "off"
      BY <2>4 DEF Memory!Notify, Lived
    <3>3. QED
      BY <2>1, <2>3, <3>1, <3>2 DEF Lived
  <2>5. CASE UNCHANGED Memory!vars
    BY <2>1, <2>3, <2>5 DEF Memory!vars, Lived
  <2>6. ASSUME NEW c \in Clients, Memory!Connect(c)
        PROVE  Lived' /\ [Memory!Feed!Next]_(Memory!Feed!feedVars)
    <3>1. /\ UNCHANGED <<last, gone, seen, lastId>>
          /\ pc' \in [Clients -> {"off", "poll", "waiting", "woken"}]
          /\ cursor' \in [Clients -> Nat]
          /\ cursor'[c] = lastId[c]
          /\ \A d \in Clients : d # c => pc'[d] = pc[d] /\ cursor'[d] = cursor[d]
      BY <2>6 DEF Memory!Connect, Lived
    <3>2. QED
      BY <2>3, <3>1 DEF Lived
  <2>7. ASSUME NEW c \in Clients, Memory!KeepAlive(c) \/ Memory!Close(c)
        PROVE  Lived' /\ [Memory!Feed!Next]_(Memory!Feed!feedVars)
    <3>1. /\ UNCHANGED <<last, gone, seen, lastId, cursor>>
          /\ pc' \in [Clients -> {"off", "poll", "waiting", "woken"}]
          /\ \A d \in Clients : pc'[d] # "off" => pc[d] # "off"
      BY <2>7 DEF Memory!KeepAlive, Memory!Close, Lived
    <3>2. QED
      BY <2>3, <3>1 DEF Lived
  <2>8. ASSUME NEW c \in Clients, Memory!Poll(c) \/ Memory!Woken(c)
        PROVE  Lived' /\ [Memory!Feed!Next]_(Memory!Feed!feedVars)
    <3>1. CASE Memory!After(cursor[c]) # <<>> /\ Memory!Yield(c) /\ UNCHANGED <<last, gone>>
      <4>1. pc[c] # "off"
        BY <2>8 DEF Memory!Poll, Memory!Woken
      <4>2. QED
        BY <3>1, <4>1, MemoryYield
    <3>2. CASE /\ pc' = [pc EXCEPT ![c] = "waiting"] \/ pc' = [pc EXCEPT ![c] = "poll"]
               /\ pc[c] # "off"
               /\ UNCHANGED <<cursor, lastId, seen, last, gone>>
      <4>1. /\ pc' \in [Clients -> {"off", "poll", "waiting", "woken"}]
            /\ \A d \in Clients : pc'[d] # "off" => pc[d] # "off"
        BY <3>2 DEF Lived
      <4>2. QED
        BY <2>3, <3>2, <4>1 DEF Lived
    <3>3. QED
      BY <2>8, <3>1, <3>2 DEF Memory!Poll, Memory!Woken
  <2>9. QED
    BY <1>3, <2>1, <2>2, <2>4, <2>5, <2>6, <2>7, <2>8 DEF Memory!Next
<1>4. QED
  BY <1>1, <1>2, <1>3 DEF MemoryInv

\* Until the process restarts, the in-memory stream implements the feed, too: no
\* client misses an event over timeouts, broken connections and lost notifications.
THEOREM MemoryFollowsFeed == Memory!Spec => Memory!FollowsFeed
<1>1. Memory!Init => MemoryInv
  <2> SUFFICES ASSUME Memory!Init PROVE MemoryInv
    OBVIOUS
  <2>1. Run(<<>>, 0, 0)
    BY EmptySeq DEF Run
  <2>2. <<>> \in Seq(Int)
    BY EmptySeq
  <2>3. QED
    BY <2>1, <2>2 DEF Memory!Init, MemoryInv, Lived
<1>2. QED
  BY <1>1, MemoryStep, PTL DEF Memory!Spec, Memory!FollowsFeed
=============================================================================

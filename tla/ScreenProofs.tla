---------------------------- MODULE ScreenProofs ----------------------------
(***************************************************************************)
(* Proofs about the pages of the dashboard, for any pages that keep the    *)
(* rules of ScreenRules, any keys and any number of moves and of failures. *)
(*                                                                         *)
(* Buttons.  The flags up are the flags of the live handlers because no    *)
(* two live handlers share one: a control is disabled while a flag that it *)
(* shares is up, a change of the selection starts loads whose predecessors *)
(* die with it, and a load that an answer starts as well waits for that    *)
(* very answer.                                                            *)
(*                                                                         *)
(* Selection.  A slot is of the selection, empty, or being loaded again by *)
(* a load whose flag hides it, and what handlers bring is of the selection *)
(* they were started for.                                                  *)
(*                                                                         *)
(* Saves.  A form is of the row it was opened for, or it is tied to the    *)
(* slot it was opened from, or it follows the selection and is loaded.     *)
(*                                                                         *)
(* Typing.  Whatever may discard a form was started after it was last      *)
(* typed into.                                                             *)
(*                                                                         *)
(* Writes.  What is written and not yet shown is brought by the handler    *)
(* that wrote it, in this step or a later one, and until it has written no *)
(* other handler uses the list.                                            *)
(***************************************************************************)
EXTENDS ScreenRules, TLAPS

\* Flags and liveness of a call, of a page p at an epoch e.
FlagsOf(p, c) == p.ops[c.op].up \union p.ops[c.op].steps[c.pos].during
LiveAt(p, e, c) == p.ops[c.op].steps[c.pos].guarded => c.epoch = e

\* The flags up are those of the live handlers, and these do not share any.
Busied(p, e, C, flags) == flags = UNION {FlagsOf(p, c) : c \in {d \in C : LiveAt(p, e, d)}}
Apart(p, e, C) == \A c, d \in C : c # d /\ LiveAt(p, e, c) /\ LiveAt(p, e, d) => ~Share(p, c.op, d.op)

\* A handler of a page.
HandlerOf(p, c) ==
  /\ c = [op |-> c.op, n |-> c.n, key |-> c.key, epoch |-> c.epoch, pos |-> c.pos, sent |-> c.sent,
          base |-> c.base, wrote |-> c.wrote, from |-> c.from]
  /\ c.op \in DOMAIN p.ops /\ c.pos \in DOMAIN p.ops[c.op].steps
  /\ c.key # Nil

\* At any place of a handler its flags are among those that it raises.
LEMMA FlagsAreRaised ==
  ASSUME NEW p, NEW c, c.pos \in DOMAIN p.ops[c.op].steps
  PROVE  /\ FlagsOf(p, c) \subseteq Raises(p, c.op)
         /\ p.ops[c.op].up \subseteq FlagsOf(p, c)
         /\ p.ops[c.op].steps[c.pos].during \subseteq Raises(p, c.op)
         /\ p.ops[c.op].steps[c.pos].guarded => Guarded(p, c.op)
  BY DEF FlagsOf, Raises, Guarded

\* New handlers are added: they share no flags, neither with each other nor with
\* those that stay alive, and they take over the flags of those that do not.
LEMMA Added ==
  ASSUME NEW p, NEW e, NEW e2, NEW C, NEW N, NEW flags,
         \A c \in C \union N : c.pos \in DOMAIN p.ops[c.op].steps,
         Busied(p, e, C, flags), Apart(p, e, C), Apart(p, e2, N),
         \A c \in N : LiveAt(p, e2, c),
         \A c \in C : LiveAt(p, e2, c) => LiveAt(p, e, c) \/ Quiet(p, c.op),
         \A c \in C : LiveAt(p, e, c) => \/ LiveAt(p, e2, c) \/ Quiet(p, c.op)
                                         \/ \E d \in N : FlagsOf(p, c) \subseteq FlagsOf(p, d),
         \A c \in C, d \in N : LiveAt(p, e2, c) /\ c # d => ~Share(p, c.op, d.op)
  PROVE  /\ Busied(p, e2, C \union N, flags \union UNION {FlagsOf(p, c) : c \in N})
         /\ Apart(p, e2, C \union N)
<1> DEFINE new == UNION {FlagsOf(p, c) : c \in N}
<1>1. ASSUME NEW x \in flags PROVE \E c \in C \union N : LiveAt(p, e2, c) /\ x \in FlagsOf(p, c)
  <2>1. PICK c \in C : LiveAt(p, e, c) /\ x \in FlagsOf(p, c)
    BY <1>1 DEF Busied
  <2>2. ~Quiet(p, c.op)
    BY <2>1, FlagsAreRaised DEF Quiet
  <2>3. QED
    BY <2>1, <2>2
<1>2. ASSUME NEW c \in C \union N, LiveAt(p, e2, c), NEW x \in FlagsOf(p, c) PROVE x \in flags \union new
  <2>1. CASE c \in N
    BY <2>1, <1>2
  <2>2. CASE c \in C
    <3>1. ~Quiet(p, c.op)
      BY <1>2, FlagsAreRaised DEF Quiet
    <3>2. LiveAt(p, e, c)
      BY <1>2, <2>2, <3>1
    <3>3. QED
      BY <1>2, <2>2, <3>2 DEF Busied
  <2>3. QED
    BY <2>1, <2>2
<1>3. Busied(p, e2, C \union N, flags \union new)
  <2>1. ASSUME NEW x \in new PROVE \E c \in C \union N : LiveAt(p, e2, c) /\ x \in FlagsOf(p, c)
    BY <2>1
  <2> HIDE DEF new
  <2>2. QED
    BY <1>1, <1>2, <2>1 DEF Busied
<1>4. ASSUME NEW c \in C \union N, NEW d \in C \union N, c # d, LiveAt(p, e2, c), LiveAt(p, e2, d)
      PROVE  ~Share(p, c.op, d.op)
  <2>1. CASE c \in N /\ d \in N
    BY <1>4, <2>1 DEF Apart
  <2>2. CASE c \in C /\ d \in N
    BY <1>4, <2>2
  <2>3. CASE c \in N /\ d \in C
    <3>1. ~Share(p, d.op, c.op)
      BY <1>4, <2>3
    <3>2. QED
      BY <3>1 DEF Share
  <2>4. CASE c \in C /\ d \in C
    <3>1. CASE Quiet(p, c.op) \/ Quiet(p, d.op)
      BY <3>1 DEF Quiet, Share
    <3>2. CASE ~Quiet(p, c.op) /\ ~Quiet(p, d.op)
      BY <1>4, <2>4, <3>2 DEF Apart
    <3>3. QED
      BY <3>1, <3>2
  <2>5. QED
    BY <2>1, <2>2, <2>3, <2>4
<1>5. QED
  BY <1>3, <1>4 DEF Apart

\* A handler goes on as one of the same operation, or ends: the flags that it
\* drops and raises are its own.
LEMMA Replaced ==
  ASSUME NEW p, NEW e, NEW C, NEW c \in C, NEW R, NEW flags, NEW new,
         \A d \in C \union R : d.pos \in DOMAIN p.ops[d.op].steps,
         Busied(p, e, C, flags), Apart(p, e, C),
         \A d \in R : d.op = c.op /\ (LiveAt(p, e, d) <=> LiveAt(p, e, c)),
         \A d1, d2 \in R : d1 = d2,
         \/ LiveAt(p, e, c) /\ new \ Raises(p, c.op) = flags \ Raises(p, c.op)
                            /\ new \cap Raises(p, c.op) = UNION {FlagsOf(p, d) : d \in R}
         \/ ~LiveAt(p, e, c) /\ new = flags
         \/ Quiet(p, c.op) /\ new = flags
  PROVE  Busied(p, e, (C \ {c}) \union R, new) /\ Apart(p, e, (C \ {c}) \union R)
<1> DEFINE D == (C \ {c}) \union R
<1>1. CASE Quiet(p, c.op) /\ new = flags
  <2>1. \A d \in C \union R : d.op = c.op => FlagsOf(p, d) = {}
    BY <1>1, FlagsAreRaised DEF Quiet
  <2>2. ASSUME NEW x PROVE x \in flags <=> \E d \in D : LiveAt(p, e, d) /\ x \in FlagsOf(p, d)
    BY <2>1 DEF Busied
  <2>3. Apart(p, e, D)
    BY <1>1 DEF Apart, Share, Quiet
  <2>4. QED
    BY <1>1, <2>2, <2>3 DEF Busied
<1>2. CASE ~LiveAt(p, e, c) /\ new = flags
  <2>1. {d \in D : LiveAt(p, e, d)} = {d \in C : LiveAt(p, e, d)}
    BY <1>2
  <2>2. QED
    BY <1>2, <2>1 DEF Busied, Apart
<1>3. CASE /\ LiveAt(p, e, c) /\ new \ Raises(p, c.op) = flags \ Raises(p, c.op)
           /\ new \cap Raises(p, c.op) = UNION {FlagsOf(p, d) : d \in R}
  <2>1. ASSUME NEW d \in C, d # c, LiveAt(p, e, d) PROVE ~Share(p, c.op, d.op)
    BY <1>3, <2>1 DEF Apart
  <2>2. ASSUME NEW d \in C, d # c, LiveAt(p, e, d) PROVE FlagsOf(p, d) \cap Raises(p, c.op) = {}
    BY <2>1, <2>2, FlagsAreRaised DEF Share
  <2>3. FlagsOf(p, c) \subseteq Raises(p, c.op)
    BY FlagsAreRaised
  <2>4. ASSUME NEW x \in new PROVE \E d \in D : LiveAt(p, e, d) /\ x \in FlagsOf(p, d)
    <3>1. CASE x \in Raises(p, c.op)
      BY <1>3, <2>4, <3>1
    <3>2. CASE x \notin Raises(p, c.op)
      <4>1. PICK d \in C : LiveAt(p, e, d) /\ x \in FlagsOf(p, d)
        BY <1>3, <2>4, <3>2 DEF Busied
      <4>2. QED
        BY <2>3, <3>2, <4>1
    <3>3. QED
      BY <3>1, <3>2
  <2>5. ASSUME NEW d \in D, LiveAt(p, e, d), NEW x \in FlagsOf(p, d) PROVE x \in new
    <3>1. CASE d \in R
      <4>1. x \in Raises(p, c.op)
        BY <2>5, <3>1, FlagsAreRaised
      <4>2. QED
        BY <1>3, <2>5, <3>1, <4>1
    <3>2. CASE d \in C \ {c}
      <4>1. x \in flags
        BY <2>5, <3>2 DEF Busied
      <4>2. QED
        BY <1>3, <2>2, <2>5, <3>2, <4>1
    <3>3. QED
      BY <3>1, <3>2
  <2>6. Apart(p, e, D)
    <3>1. ASSUME NEW d1 \in D, NEW d2 \in D, d1 # d2, LiveAt(p, e, d1), LiveAt(p, e, d2)
          PROVE  ~Share(p, d1.op, d2.op)
      BY <2>1, <3>1 DEF Apart, Share
    <3>2. QED
      BY <3>1 DEF Apart
  <2>7. QED
    BY <2>4, <2>5, <2>6 DEF Busied
<1>4. QED
  BY <1>1, <1>2, <1>3

(***************************************************************************)
(* What is known of the page that is open and of its handlers.             *)
(***************************************************************************)
\* Each handler is at a step of its operation and was started for a key, at an
\* epoch that is now or was before.
TypeInv ==
  /\ name \in DOMAIN Pages /\ page = Pages[name]
  /\ mode \in {"careful", "unlucky", "hasty", "roaming"}
  /\ sel # Nil /\ epoch \in Nat
  /\ DOMAIN view = page.slots
  /\ \A c \in calls : HandlerOf(page, c) /\ c.epoch \in 0..epoch
  /\ Patient => \A c \in calls : c.epoch = epoch

\* The rules of the page that is open.
LEMMA PageRules ==
  ASSUME TypeInv
  PROVE  /\ WellDescribed(page) /\ StartsApart(page)
         /\ Kept(LocksWrongly) /\ ~Patient => LocksInTime(page)
         /\ Kept(LocksWrongly) /\ mode = "roaming" => LoadsAgain(page)
<1>1. LocksWrongly["hasty"] = LocksWrongly.hasty /\ LocksWrongly["roaming"] = LocksWrongly.roaming
  OBVIOUS
<1>2. CASE mode = "hasty"
  BY <1>1, <1>2, FlagsAssumption DEF TypeInv, Kept, Patient
<1>3. CASE mode = "roaming"
  BY <1>1, <1>3, FlagsAssumption DEF TypeInv, Kept, Patient
<1>4. CASE mode \in {"careful", "unlucky"}
  BY <1>4, FlagsAssumption DEF TypeInv, Patient
<1>5. QED
  BY <1>2, <1>3, <1>4 DEF TypeInv

\* What starts is at its first step, alive, and raises its flags.
LEMMA BegunWell ==
  ASSUME WellDescribed(page), NEW os, os \subseteq DOMAIN page.ops, NEW k, k # Nil, NEW e, NEW n
  PROVE  /\ \A c \in Begun(os, k, e, n) :
              /\ HandlerOf(page, c) /\ c.op \in os /\ c.epoch = e /\ c.key = k /\ c.pos = 1
              /\ LiveAt(page, e, c)
              /\ FlagsOf(page, c) = page.ops[c.op].up \union page.ops[c.op].steps[1].during
         /\ \A o \in os : page.ops[o].steps # <<>> => \E c \in Begun(os, k, e, n) : c.op = o
         /\ \A c, d \in Begun(os, k, e, n) : c.op = d.op => c = d
         /\ Raised(os) = UNION {FlagsOf(page, c) : c \in Begun(os, k, e, n)}
<1>1. WellDescribed(page)
  OBVIOUS
<1>2. ASSUME NEW o \in os, page.ops[o].steps # <<>>
      PROVE  /\ HandlerOf(page, Call(o, k, e, n)) /\ Call(o, k, e, n).op = o
             /\ Call(o, k, e, n).epoch = e /\ Call(o, k, e, n).key = k /\ Call(o, k, e, n).pos = 1
  BY <1>1, <1>2 DEF Call, HandlerOf, WellDescribed
<1>3. ASSUME NEW c \in Begun(os, k, e, n)
      PROVE  \E o \in os : page.ops[o].steps # <<>> /\ c = Call(o, k, e, n)
  BY <1>3 DEF Begun, Asynchronous, Op
<1>4. ASSUME NEW o \in os, page.ops[o].steps # <<>>
      PROVE  Call(o, k, e, n) \in Begun(os, k, e, n)
  BY <1>4 DEF Begun, Asynchronous, Op
<1> HIDE DEF Begun
<1>5. ASSUME NEW c \in Begun(os, k, e, n)
      PROVE  /\ HandlerOf(page, c) /\ c.op \in os /\ c.epoch = e /\ c.key = k /\ c.pos = 1
             /\ LiveAt(page, e, c)
             /\ FlagsOf(page, c) = page.ops[c.op].up \union page.ops[c.op].steps[1].during
  BY <1>2, <1>3, <1>5 DEF LiveAt, FlagsOf
<1>6. ASSUME NEW c \in Begun(os, k, e, n), NEW d \in Begun(os, k, e, n), c.op = d.op PROVE c = d
  BY <1>2, <1>3, <1>6
<1>7. ASSUME NEW x PROVE x \in Raised(os) <=> \E c \in Begun(os, k, e, n) : x \in FlagsOf(page, c)
  <2>1. x \in Raised(os) <=> \E o \in os : /\ page.ops[o].steps # <<>>
                                         /\ x \in page.ops[o].up \union page.ops[o].steps[1].during
    BY DEF Raised, Asynchronous, Op
  <2>2. ASSUME NEW o \in os, page.ops[o].steps # <<>>, x \in page.ops[o].up \union page.ops[o].steps[1].during
        PROVE  \E c \in Begun(os, k, e, n) : x \in FlagsOf(page, c)
    BY <1>2, <1>4, <1>5, <2>2
  <2>3. ASSUME NEW c \in Begun(os, k, e, n), x \in FlagsOf(page, c)
        PROVE  \E o \in os : page.ops[o].steps # <<>> /\ x \in page.ops[o].up \union page.ops[o].steps[1].during
    BY <1>2, <1>3, <1>5, <2>3
  <2>4. QED
    BY <2>1, <2>2, <2>3
<1>8. QED
  BY <1>2, <1>4, <1>5, <1>6, <1>7

\* The same of a page that is open.
LEMMA BegunAre ==
  ASSUME TypeInv, NEW os, os \subseteq DOMAIN page.ops, NEW k, k # Nil, NEW e, NEW n
  PROVE  /\ \A c \in Begun(os, k, e, n) :
              /\ HandlerOf(page, c) /\ c.op \in os /\ c.epoch = e /\ c.key = k /\ c.pos = 1
              /\ LiveAt(page, e, c)
              /\ FlagsOf(page, c) = page.ops[c.op].up \union page.ops[c.op].steps[1].during
         /\ \A o \in os : page.ops[o].steps # <<>> => \E c \in Begun(os, k, e, n) : c.op = o
         /\ \A c, d \in Begun(os, k, e, n) : c.op = d.op => c = d
         /\ Raised(os) = UNION {FlagsOf(page, c) : c \in Begun(os, k, e, n)}
  BY PageRules, BegunWell

\* Some handlers start.
Starts(os, k, e, n) ==
  /\ os \subseteq DOMAIN page.ops /\ k # Nil
  /\ epoch' = e /\ e \in Nat /\ epoch <= e /\ (Patient /\ e # epoch => calls = {})
  /\ calls' = calls \union Begun(os, k, e, n)

\* What a handler keeps when it goes on.
Carries(c, d) ==
  /\ d.n = c.n /\ d.sent = c.sent /\ d.base = c.base
  /\ d.pos = c.pos => d.from = c.from
  /\ d.pos # c.pos => /\ d.wrote = <<>>
                      /\ d.from = [s \in page.ops[c.op].steps[d.pos].reads |-> Version(s, c.key)]

\* One handler goes on, as R, or ends, and some are spawned.
Follows(c, R) ==
  /\ \A d \in R : /\ HandlerOf(page, d) /\ d.op = c.op /\ d.epoch = c.epoch /\ d.key = c.key
                  /\ c.pos + 1 \in DOMAIN page.ops[c.op].steps => d.pos \in {c.pos, c.pos + 1}
                  /\ c.pos + 1 \notin DOMAIN page.ops[c.op].steps => d.pos = c.pos
  /\ \A d \in R : Carries(c, d)
  /\ \A d1, d2 \in R : d1 = d2

Goes(c, R, spawns) ==
  /\ c \in calls /\ UNCHANGED <<epoch, sel>>
  /\ spawns = {} \/ (Live(c) /\ spawns = At(c).spawns)
  /\ Follows(c, R)
  /\ calls' = ((calls \ {c}) \union R) \union Begun(spawns, sel, epoch, c.n)

\* A handler's own flags are the only ones up that it could raise.
LEMMA OwnFlags ==
  ASSUME NEW p, NEW e, NEW C, NEW c \in C, NEW flags, \A d \in C : d.pos \in DOMAIN p.ops[d.op].steps,
         Busied(p, e, C, flags), Apart(p, e, C), LiveAt(p, e, c)
  PROVE  flags \cap Raises(p, c.op) = FlagsOf(p, c)
<1>1. ASSUME NEW d \in C, d # c, LiveAt(p, e, d) PROVE FlagsOf(p, d) \cap Raises(p, c.op) = {}
  <2>1. ~Share(p, c.op, d.op)
    BY <1>1 DEF Apart
  <2>2. QED
    BY <2>1, FlagsAreRaised DEF Share
<1>2. FlagsOf(p, c) \subseteq Raises(p, c.op)
  BY FlagsAreRaised
<1>3. QED
  BY <1>1, <1>2 DEF Busied

\* Flags stay right when handlers start that share none with those alive, and
\* start again those that this cuts off.
LEMMA StartsKeep ==
  ASSUME TypeInv, Busied(page, epoch, calls, up), Apart(page, epoch, calls),
         NEW os, NEW k, NEW e, NEW n, Starts(os, k, e, n),
         \A o, q \in os : o # q => ~Share(page, o, q),
         \A c \in calls, o \in os : LiveAt(page, e, c) => ~Share(page, c.op, o),
         \A c \in calls : LiveAt(page, epoch, c) =>
                          LiveAt(page, e, c) \/ Quiet(page, c.op) \/ c.op \in os
  PROVE  Busied(page, e, calls', up \union Raised(os)) /\ Apart(page, e, calls')
<1> DEFINE N == Begun(os, k, e, n)
<1>1. /\ \A c \in N : /\ HandlerOf(page, c) /\ c.op \in os /\ c.epoch = e /\ c.key = k /\ c.pos = 1
                      /\ LiveAt(page, e, c)
                      /\ FlagsOf(page, c) = page.ops[c.op].up \union page.ops[c.op].steps[1].during
      /\ \A o \in os : page.ops[o].steps # <<>> => \E c \in N : c.op = o
      /\ \A c, d \in N : c.op = d.op => c = d
      /\ Raised(os) = UNION {FlagsOf(page, c) : c \in N}
  BY BegunAre DEF Starts
<1> HIDE DEF N
<1>2. WellDescribed(page) /\ \A c \in calls : HandlerOf(page, c) /\ c.epoch \in 0..epoch
  BY PageRules DEF TypeInv
<1>3. \A c \in calls \union N : c.pos \in DOMAIN page.ops[c.op].steps
  BY <1>1, <1>2 DEF HandlerOf
<1>4. Apart(page, e, N)
  BY <1>1 DEF Apart
<1>5. ASSUME NEW c \in calls, LiveAt(page, e, c) PROVE LiveAt(page, epoch, c)
  <2>1. c.epoch \in 0..epoch /\ epoch \in Nat /\ e \in Nat /\ epoch <= e
    BY <1>2 DEF Starts, TypeInv
  <2>2. c.epoch = e => c.epoch = epoch
    BY <2>1
  <2>3. QED
    BY <1>5, <2>2 DEF LiveAt
<1>6. ASSUME NEW c \in calls, LiveAt(page, epoch, c), ~LiveAt(page, e, c)
      PROVE  Quiet(page, c.op) \/ \E d \in N : FlagsOf(page, c) \subseteq FlagsOf(page, d)
  <2>1. CASE c.op \in os
    <3>1. HandlerOf(page, c) /\ page.ops[c.op].steps[c.pos].guarded
      BY <1>2, <1>6 DEF LiveAt
    <3>2. Len(page.ops[c.op].steps) = 1 /\ DOMAIN page.ops[c.op].steps = 1..Len(page.ops[c.op].steps)
      BY <1>2, <3>1, FlagsAreRaised DEF HandlerOf, WellDescribed
    <3>3. c.pos = 1 /\ page.ops[c.op].steps # <<>>
      BY <3>1, <3>2 DEF HandlerOf
    <3>4. PICK d \in N : d.op = c.op
      BY <1>1, <2>1, <3>3
    <3>5. FlagsOf(page, c) = FlagsOf(page, d)
      BY <1>1, <3>3, <3>4 DEF FlagsOf
    <3>6. QED
      BY <3>5
  <2>2. QED
    BY <1>6, <2>1
<1>7. \A c \in calls, d \in N : LiveAt(page, e, c) /\ c # d => ~Share(page, c.op, d.op)
  BY <1>1
<1>8. calls' = calls \union N
  BY DEF Starts, N
<1>9. /\ \A c \in N : LiveAt(page, e, c)
      /\ \A c \in calls : LiveAt(page, e, c) => LiveAt(page, epoch, c) \/ Quiet(page, c.op)
      /\ \A c \in calls : LiveAt(page, epoch, c) =>
           LiveAt(page, e, c) \/ Quiet(page, c.op) \/ \E d \in N : FlagsOf(page, c) \subseteq FlagsOf(page, d)
  BY <1>1, <1>5, <1>6
<1>10. Busied(page, e, calls \union N, up \union UNION {FlagsOf(page, c) : c \in N}) /\ Apart(page, e, calls \union N)
  BY <1>3, <1>4, <1>7, <1>9, Added
<1>11. QED
  BY <1>1, <1>8, <1>10

\* A step that starts handlers keeps what is known of the handlers.
LEMMA StartsTyped ==
  ASSUME TypeInv, NEW os, NEW k, NEW e, NEW n, Starts(os, k, e, n), UNCHANGED <<name, page, mode>>
  PROVE  /\ \A c \in calls' : HandlerOf(page', c) /\ c.epoch \in 0..epoch'
         /\ Patient' => \A c \in calls' : c.epoch = epoch'
<1> DEFINE N == Begun(os, k, e, n)
<1>1. \A c \in N : HandlerOf(page, c) /\ c.epoch = e
  <2>1. os \subseteq DOMAIN page.ops /\ k # Nil
    BY DEF Starts
  <2>2. \A c \in N : /\ HandlerOf(page, c) /\ c.op \in os /\ c.epoch = e /\ c.key = k /\ c.pos = 1
                     /\ LiveAt(page, e, c)
                     /\ FlagsOf(page, c) = page.ops[c.op].up \union page.ops[c.op].steps[1].during
    BY <2>1, BegunAre
  <2>3. QED
    BY <2>2
<1>2. calls' = calls \union N
  BY DEF Starts
<1> HIDE DEF N
<1>3. QED
  BY <1>1, <1>2 DEF Starts, TypeInv, Patient

\* So does one where a handler goes on.
LEMMA GoesTyped ==
  ASSUME TypeInv, NEW c, NEW R, NEW spawns, Goes(c, R, spawns), UNCHANGED <<name, page, mode>>
  PROVE  /\ \A d \in calls' : HandlerOf(page', d) /\ d.epoch \in 0..epoch'
         /\ Patient' => \A d \in calls' : d.epoch = epoch'
<1> DEFINE N == Begun(spawns, sel, epoch, c.n)
<1>1. spawns \subseteq DOMAIN page.ops
  <2>1. HandlerOf(page, c) /\ WellDescribed(page)
    BY PageRules DEF Goes, TypeInv
  <2>2. QED
    BY <2>1 DEF Goes, HandlerOf, WellDescribed, Spawns, At, Op
<1>2. \A d \in N : HandlerOf(page, d) /\ d.epoch = epoch
  <2>1. sel # Nil
    BY DEF TypeInv
  <2>2. \A d \in N : /\ HandlerOf(page, d) /\ d.op \in spawns /\ d.epoch = epoch /\ d.key = sel /\ d.pos = 1
                     /\ LiveAt(page, epoch, d)
                     /\ FlagsOf(page, d) = page.ops[d.op].up \union page.ops[d.op].steps[1].during
    BY <1>1, <2>1, BegunAre
  <2>3. QED
    BY <2>2
<1>3. calls' = ((calls \ {c}) \union R) \union N
  BY DEF Goes
<1> HIDE DEF N
<1>4. QED
  BY <1>2, <1>3 DEF Goes, Follows, TypeInv, Patient

\* What pressing a control starts.
LEMMA PressStarts ==
  ASSUME TypeInv, NEW o \in DOMAIN page.ops, Press(o)
  PROVE  \E os, k, e :
           /\ Starts(os, k, e, moves + 1) /\ up' = up \union Raised(os)
           /\ page.ops[o].user /\ page.ops[o].idle \cap up = {} /\ (Patient => calls = {})
           /\ \/ os = {o}
              \/ os = {o} \union Effects /\ page.ops[o].selects /\ (mode = "roaming" \/ calls = {})
           /\ e # epoch => page.ops[o].selects
           /\ sel' # Nil
<1>1. PICK k \in Targets(o) :
         LET turns == Op(o).selects /\ k # sel
             started == {o} \union IF turns THEN Effects ELSE {}
             e == IF Op(o).selects THEN epoch + 1 ELSE epoch
         IN  /\ turns => MaySelect
             /\ sel' = IF Op(o).selects THEN k ELSE sel
             /\ epoch' = e
             /\ calls' = calls \union Begun(started, k, e, moves + 1)
             /\ up' = up \union Raised(started)
  BY DEF Press
<1>2. k # Nil
  BY KeysAssumption DEF Targets, TypeInv
<1>3. Effects \subseteq DOMAIN page.ops
  BY PageRules DEF Effects, WellDescribed
<1>4. MayMove /\ page.ops[o].user /\ page.ops[o].idle \cap up = {}
  BY DEF Press, Op
<1>5. Patient => calls = {}
  BY <1>4 DEF MayMove
<1> DEFINE turns == Op(o).selects /\ k # sel
           os == {o} \union IF turns THEN Effects ELSE {}
           e == IF Op(o).selects THEN epoch + 1 ELSE epoch
<1>6. Starts(os, k, e, moves + 1)
  BY <1>1, <1>2, <1>3, <1>5 DEF Starts, TypeInv
<1>7. os = {o} \/ (os = {o} \union Effects /\ page.ops[o].selects /\ (mode = "roaming" \/ calls = {}))
  <2>1. CASE turns
    BY <1>1, <2>1 DEF MaySelect, Op
  <2>2. CASE ~turns
    BY <2>2
  <2>3. QED
    BY <2>1, <2>2
<1>8. sel' # Nil
  BY <1>1, <1>2 DEF TypeInv
<1>9. e # epoch => page.ops[o].selects
  BY DEF Op
<1>10. up' = up \union Raised(os)
  BY <1>1
<1> HIDE DEF os, e
<1>11. QED
  BY <1>4, <1>5, <1>6, <1>7, <1>8, <1>9, <1>10

\* What the other steps start.
LEMMA OthersStart ==
  ASSUME TypeInv
  PROVE  /\ \A k \in Keys : Move(k) =>
              /\ Starts(Effects, k, epoch + 1, moves + 1) /\ up' = up \union Raised(Effects)
              /\ mode = "roaming" \/ calls = {}
              /\ sel' # Nil
         /\ \A f \in page.forms : Type(f) =>
              /\ \/ Starts(Effects, sel, epoch, moves + 1) /\ up' = up \union Raised(Effects) /\ page.watches # {}
                 \/ UNCHANGED <<calls, up, epoch>>
              /\ (page.hides \union page.covers) \cap up = {} /\ (Patient => calls = {})
              /\ sel' # Nil
<1>1. Effects \subseteq DOMAIN page.ops
  BY PageRules DEF Effects, WellDescribed
<1>2. ASSUME NEW k \in Keys, Move(k)
      PROVE  /\ Starts(Effects, k, epoch + 1, moves + 1) /\ up' = up \union Raised(Effects)
             /\ mode = "roaming" \/ calls = {}
             /\ sel' # Nil
  BY <1>1, <1>2, KeysAssumption DEF Move, MaySelect, MayMove, Starts, TypeInv
<1>3. ASSUME NEW f \in page.forms, Type(f)
      PROVE  /\ \/ Starts(Effects, sel, epoch, moves + 1) /\ up' = up \union Raised(Effects) /\ page.watches # {}
                \/ UNCHANGED <<calls, up, epoch>>
             /\ (page.hides \union page.covers) \cap up = {} /\ (Patient => calls = {})
             /\ sel' # Nil
  <2>1. /\ (page.hides \union page.covers) \cap up = {} /\ (Patient => calls = {}) /\ sel' # Nil
        /\ UNCHANGED epoch
    BY <1>3 DEF Type, Offered, Visible, MayMove, TypeInv
  <2>2. CASE f \in page.watches
    BY <1>1, <1>3, <2>1, <2>2 DEF Type, Starts, TypeInv
  <2>3. CASE f \notin page.watches
    <3>1. calls' = calls \union Begun({}, sel, epoch, moves + 1) /\ up' = up \union Raised({})
      BY <1>3, <2>3 DEF Type
    <3>2. Begun({}, sel, epoch, moves + 1) = {} /\ Raised({}) = {}
      BY DEF Begun, Raised, Asynchronous
    <3>3. QED
      BY <2>1, <3>1, <3>2
  <2>4. QED
    BY <2>1, <2>2, <2>3
<1>4. QED
  BY <1>2, <1>3

\* A timer's request changes what it refreshes, and nothing else of the page.
LEMMA PollingChanges ==
  ASSUME TypeInv, NEW o \in Timers, Polling(o)
  PROVE  /\ UNCHANGED <<name, page, mode, sel, epoch, db, up, calls, moves, faults>>
         /\ DOMAIN view' = page.slots
         /\ \A s \in page.slots \ Refreshed(page) : view'[s] = view[s]
<1>1. Op(o).steps[1].reads \subseteq Refreshed(page)
  BY DEF Timers, Refreshed, Op
<1>2. CASE Poll(o) \/ PollFails(o)
  BY <1>2 DEF Poll, PollFails, TypeInv
<1>3. CASE PollAnswer(o)
  <2> DEFINE shown == Op(o).steps[1].reads
  <2>1. PICK q \in PollsOf(o) :
          /\ \E seen \in [shown -> 0..(MaxMoves + MaxHasty[name])] :
               view' = [s \in page.slots |->
                 IF s \in shown THEN [of |-> q.key, has |-> 1..seen[s], edits |-> 0] ELSE view[s]]
          /\ UNCHANGED <<name, page, mode, sel, epoch, db, up, calls, moves, faults>>
    BY <1>3 DEF PollAnswer
  <2>2. PICK seen \in [shown -> 0..(MaxMoves + MaxHasty[name])] :
               view' = [s \in page.slots |->
                 IF s \in shown THEN [of |-> q.key, has |-> 1..seen[s], edits |-> 0] ELSE view[s]]
    BY <2>1
  <2>3. QED
    BY <1>1, <2>1, <2>2
<1>4. QED
  BY <1>2, <1>3 DEF Polling

\* The flags that stay up when a handler goes on, as R, or ends.
Drops(c, R, flags) ==
  \/ /\ R = {}
     /\ flags = IF LiveAt(page, epoch, c) \/ page.ops[c.op].finally THEN up \ FlagsOf(page, c) ELSE up
     /\ LiveAt(page, epoch, c) \/ Len(page.ops[c.op].steps) = 1
  \/ \E d : /\ R = {d} /\ d.pos = c.pos + 1 /\ d.pos \in DOMAIN page.ops[c.op].steps
            /\ flags = (up \ page.ops[c.op].steps[c.pos].during) \union page.ops[c.op].steps[d.pos].during
  \/ \E d : R = {d} /\ d.pos = c.pos /\ flags = up

\* A handler that goes on to its next request differs in nothing else.
LEMMA Advanced ==
  ASSUME NEW c, NEW q, NEW w, NEW f, NEW d, d = [c EXCEPT !.pos = q, !.wrote = w, !.from = f],
         c = [op |-> c.op, n |-> c.n, key |-> c.key, epoch |-> c.epoch, pos |-> c.pos, sent |-> c.sent,
              base |-> c.base, wrote |-> c.wrote, from |-> c.from]
  PROVE  d = [op |-> c.op, n |-> c.n, key |-> c.key, epoch |-> c.epoch, pos |-> q, sent |-> c.sent,
              base |-> c.base, wrote |-> w, from |-> f]
  OBVIOUS

\* A handler goes on or ends, and spawns.
Continues(c, spawns) ==
  \E R, flags : /\ Goes(c, R, spawns) /\ Drops(c, R, flags) /\ up' = flags \union Raised(spawns)
                /\ Len(page.ops[c.op].steps) = 1 => R = {}

\* Proceeding is that.
LEMMA ProceedGoes ==
  ASSUME TypeInv, NEW c \in calls, NEW spawns, Proceed(c, spawns), epoch' = epoch, sel' = sel,
         spawns = {} \/ (Live(c) /\ spawns = At(c).spawns)
  PROVE  Continues(c, spawns)
<1>1. /\ HandlerOf(page, c) /\ WellDescribed(page)
      /\ DOMAIN page.ops[c.op].steps = 1..Len(page.ops[c.op].steps) /\ Len(page.ops[c.op].steps) \in Nat
      /\ c.pos \in 1..Len(page.ops[c.op].steps)
  BY PageRules DEF TypeInv, WellDescribed, HandlerOf
<1>2. LiveAt(page, epoch, c) <=> Live(c)
  BY DEF LiveAt, Live, Op
<1>3. CASE c.pos < Len(page.ops[c.op].steps)
  <2> DEFINE next == page.ops[c.op].steps[c.pos + 1]
             from == [s \in next.reads |-> Version(s, c.key)]
             flags == (up \ page.ops[c.op].steps[c.pos].during) \union next.during
  <2>0. PICK d : d = [c EXCEPT !.pos = @ + 1, !.wrote = <<>>, !.from = from]
    OBVIOUS
  <2>1. /\ calls' = (Others(c) \union Begun(spawns, sel, epoch, c.n)) \union {d}
        /\ up' = flags \union Raised(spawns)
    BY <1>3, <2>0 DEF Proceed, Op, At
  <2>2. c.pos + 1 \in DOMAIN page.ops[c.op].steps
    BY <1>1, <1>3
  <2>3. /\ d.op = c.op /\ d.epoch = c.epoch /\ d.key = c.key /\ d.pos = c.pos + 1
        /\ HandlerOf(page, d) /\ Carries(c, d)
    <3> HIDE DEF from
    <3>1. c = [op |-> c.op, n |-> c.n, key |-> c.key, epoch |-> c.epoch, pos |-> c.pos, sent |-> c.sent,
               base |-> c.base, wrote |-> c.wrote, from |-> c.from]
      BY <1>1 DEF HandlerOf
    <3>2. d = [op |-> c.op, n |-> c.n, key |-> c.key, epoch |-> c.epoch, pos |-> c.pos + 1, sent |-> c.sent,
               base |-> c.base, wrote |-> <<>>, from |-> from]
      BY <2>0, <3>1, Advanced
    <3>3. /\ d.op = c.op /\ d.n = c.n /\ d.key = c.key /\ d.epoch = c.epoch /\ d.pos = c.pos + 1
          /\ d.sent = c.sent /\ d.base = c.base /\ d.wrote = <<>> /\ d.from = from
      BY <3>2
    <3>4. c.op \in DOMAIN page.ops /\ c.key # Nil
      BY <1>1 DEF HandlerOf
    <3>5. HandlerOf(page, d)
      BY <2>2, <3>2, <3>3, <3>4 DEF HandlerOf
    <3>6. d.pos # c.pos
      BY <1>1, <3>3
    <3>7. Carries(c, d)
      BY <3>3, <3>6 DEF Carries, from
    <3>8. QED
      BY <3>3, <3>5, <3>7
  <2> HIDE DEF flags
  <2>4. Drops(c, {d}, flags)
    BY <2>2, <2>3 DEF Drops, flags
  <2>5. Goes(c, {d}, spawns)
    BY <2>1, <2>2, <2>3 DEF Goes, Follows, Others
  <2>6. Len(page.ops[c.op].steps) # 1
    <3>1. PICK len \in Nat : len = Len(page.ops[c.op].steps)
      BY <1>1
    <3>2. c.pos \in 1..len /\ c.pos < len
      BY <1>1, <1>3, <3>1
    <3>3. len # 1
      BY <3>2
    <3>4. QED
      BY <3>1, <3>3
  <2>7. QED
    BY <2>1, <2>4, <2>5, <2>6 DEF Continues
<1>4. CASE ~(c.pos < Len(page.ops[c.op].steps))
  <2> DEFINE flags == IF LiveAt(page, epoch, c) \/ page.ops[c.op].finally THEN up \ FlagsOf(page, c) ELSE up
  <2>1. calls' = Others(c) \union Begun(spawns, sel, epoch, c.n)
    BY <1>4 DEF Proceed, Op
  <2>2. up' = flags \union Raised(spawns)
    BY <1>2, <1>4 DEF Proceed, Op, Flags, FlagsOf, At
  <2>3. LiveAt(page, epoch, c) \/ Len(page.ops[c.op].steps) = 1
    BY <1>1, FlagsAreRaised DEF LiveAt, WellDescribed, HandlerOf
  <2>4. Drops(c, {}, flags)
    BY <2>3 DEF Drops
  <2>5. Goes(c, {}, spawns)
    BY <2>1 DEF Goes, Follows, Others
  <2> HIDE DEF flags
  <2>6. QED
    BY <2>2, <2>4, <2>5 DEF Continues
<1>5. QED
  BY <1>3, <1>4

\* Nothing is raised for nobody.
LEMMA NoneBegun == Raised({}) = {} /\ \A k, e, n : Begun({}, k, e, n) = {}
  BY DEF Raised, Begun, Asynchronous

\* What a request does to its handler: it is served, answered or fails.
LEMMA RequestsGo ==
  ASSUME TypeInv, NEW c \in calls, Serve(c) \/ Answer(c) \/ Fail(c)
  PROVE  \E R, spawns, flags :
           /\ Goes(c, R, spawns) /\ Drops(c, R, flags) /\ up' = flags \union Raised(spawns)
           /\ Answer(c) /\ Len(page.ops[c.op].steps) = 1 => R = {}
           /\ spawns # {} => Answer(c)
<1>1. /\ HandlerOf(page, c) /\ WellDescribed(page)
      /\ Len(page.ops[c.op].steps) \in Nat /\ DOMAIN page.ops[c.op].steps = 1..Len(page.ops[c.op].steps)
      /\ c.pos \in DOMAIN page.ops[c.op].steps
  BY PageRules DEF TypeInv, WellDescribed, HandlerOf
<1>2. LiveAt(page, epoch, c) <=> Live(c)
  BY DEF LiveAt, Live, Op
<1>3. CASE Answer(c)
  <2>1. PICK spawns : spawns = IF Live(c) THEN At(c).spawns ELSE {}
    OBVIOUS
  <2>2. /\ Proceed(c, spawns) /\ epoch' = epoch /\ sel' = sel
        /\ spawns = {} \/ (Live(c) /\ spawns = At(c).spawns)
    BY <1>3, <2>1 DEF Answer
  <2>3. PICK R, flags : /\ Goes(c, R, spawns) /\ Drops(c, R, flags) /\ up' = flags \union Raised(spawns)
                        /\ Len(page.ops[c.op].steps) = 1 => R = {}
    <3>1. Continues(c, spawns)
      BY <2>2, ProceedGoes
    <3>2. QED
      BY <3>1 DEF Continues
  <2>4. QED
    BY <1>3, <2>3
<1>4. CASE Serve(c) /\ ~Answer(c)
  <2>1. PICK w : calls' = (calls \ {c}) \union {[c EXCEPT !.wrote = w]}
    BY <1>4 DEF Serve
  <2>2. PICK d : d = [c EXCEPT !.wrote = w]
    OBVIOUS
  <2>3. c = [op |-> c.op, n |-> c.n, key |-> c.key, epoch |-> c.epoch, pos |-> c.pos, sent |-> c.sent,
             base |-> c.base, wrote |-> c.wrote, from |-> c.from]
    BY <1>1 DEF HandlerOf
  <2>4. d = [op |-> c.op, n |-> c.n, key |-> c.key, epoch |-> c.epoch, pos |-> c.pos, sent |-> c.sent,
             base |-> c.base, wrote |-> w, from |-> c.from]
    BY <2>2, <2>3
  <2>5. /\ d.op = c.op /\ d.n = c.n /\ d.key = c.key /\ d.epoch = c.epoch /\ d.pos = c.pos
        /\ d.sent = c.sent /\ d.base = c.base /\ d.wrote = w /\ d.from = c.from
    BY <2>4
  <2>6. HandlerOf(page, d)
    BY <1>1, <2>4, <2>5 DEF HandlerOf
  <2>7. UNCHANGED <<up, epoch, sel>>
    BY <1>4 DEF Serve
  <2>8. Goes(c, {d}, {})
    <3>1. Carries(c, d)
      BY <2>5 DEF Carries
    <3>2. QED
      BY <2>1, <2>2, <2>5, <2>6, <2>7, <3>1, NoneBegun DEF Goes, Follows
  <2>9. Drops(c, {d}, up)
    BY <2>5 DEF Drops
  <2>10. QED
    BY <1>4, <2>7, <2>8, <2>9, NoneBegun
<1>5. CASE Fail(c) /\ ~Answer(c)
  <2>1. epoch' = epoch /\ sel' = sel
    BY <1>5 DEF Fail
  <2>2. CASE At(c).soft
    <3>1. Proceed(c, {})
      BY <1>5, <2>2 DEF Fail
    <3>2. PICK R, flags : /\ Goes(c, R, {}) /\ Drops(c, R, flags) /\ up' = flags \union Raised({})
                          /\ Len(page.ops[c.op].steps) = 1 => R = {}
      <4>1. Continues(c, {})
        BY <2>1, <3>1, ProceedGoes
      <4>2. QED
        BY <4>1 DEF Continues
    <3>3. QED
      BY <1>5, <3>2
  <2>3. CASE ~At(c).soft
    <3> DEFINE flags == IF LiveAt(page, epoch, c) \/ page.ops[c.op].finally THEN up \ FlagsOf(page, c) ELSE up
    <3>1. calls' = Others(c) /\ up' = flags
      BY <1>2, <1>5, <2>3 DEF Fail, Op, Flags, FlagsOf, At
    <3>2. LiveAt(page, epoch, c) \/ Len(page.ops[c.op].steps) = 1
      BY <1>1, FlagsAreRaised DEF LiveAt, WellDescribed, HandlerOf
    <3>3. Drops(c, {}, flags)
      BY <3>2 DEF Drops
    <3>4. Goes(c, {}, {})
      BY <2>1, <3>1, NoneBegun DEF Goes, Follows, Others
    <3> HIDE DEF flags
    <3>5. QED
      BY <1>5, <3>1, <3>3, <3>4, NoneBegun
  <2>4. QED
    BY <2>2, <2>3
<1>6. QED
  BY <1>3, <1>4, <1>5

(***************************************************************************)
(* Slots that one operation alone fills: loads wait for these.             *)
(***************************************************************************)
\* A slot as the pages know them.
SlotOf(v) == v = [of |-> v.of, has |-> v.has, edits |-> v.edits]

\* Each such slot is as it should be, and is empty while the operation runs.
SlotsInv ==
  \A o \in DOMAIN page.ops :
     /\ RunsOnce(page, o) => \A c, d \in calls : c.op = o /\ d.op = o => c = d
     /\ \A s \in page.slots : FilledBy(page, s, o) =>
          SlotOf(view[s]) /\ (RunsOnce(page, o) => \A c \in calls : c.op = o => ~Loaded(s))

\* What is known of the effect of a handler on such a slot.
LEMMA FilledRules ==
  ASSUME NEW s, NEW o, FilledBy(page, s, o), NEW q \in DOMAIN page.ops
  PROVE  /\ s \in page.slots /\ s \notin page.resets /\ s \notin page.derives /\ s # "rail"
         /\ s \notin page.ops[q].blanks /\ s \notin page.ops[q].opens
         /\ \A i \in DOMAIN page.ops[q].steps :
              /\ s \notin page.ops[q].steps[i].clears /\ s \notin page.ops[q].steps[i].empties
              /\ s \notin page.ops[q].steps[i].lost /\ s \notin page.ops[q].steps[i].rebuilds
              /\ s \notin page.ops[q].steps[i].appends
              /\ s \in page.ops[q].steps[i].reads =>
                   q = o /\ s \notin page.ops[q].steps[i].patches /\ s \notin page.ops[q].steps[i].drops
  BY DEF FilledBy

\* An edit leaves a slot what it is, and so does another list of writes.
LEMMA Edited ==
  ASSUME NEW v, SlotOf(v), NEW x, NEW w, w = [v EXCEPT !.edits = x] \/ w = [v EXCEPT !.has = x]
  PROVE  SlotOf(w) /\ w.of = v.of
<1>1. v = [of |-> v.of, has |-> v.has, edits |-> v.edits]
  BY DEF SlotOf
<1>2. CASE w = [v EXCEPT !.edits = x]
  <2>1. w = [of |-> v.of, has |-> v.has, edits |-> x]
    BY <1>1, <1>2
  <2>2. QED
    BY <2>1 DEF SlotOf
<1>3. CASE w = [v EXCEPT !.has = x]
  <2>1. w = [of |-> v.of, has |-> x, edits |-> v.edits]
    BY <1>1, <1>3
  <2>2. QED
    BY <2>1 DEF SlotOf
<1>4. QED
  BY <1>2, <1>3

\* The answer to a handler sets such a slot if it is the operation that fills it.
LEMMA FilledByAnswer ==
  ASSUME TypeInv, NEW s, NEW o, FilledBy(page, s, o), SlotOf(view[s]), NEW c \in calls, Answer(c)
  PROVE  /\ SlotOf(view'[s])
         /\ view'[s].of = view[s].of \/ (c.op = o /\ view'[s].of = c.key)
         /\ Live(c) /\ s \in At(c).reads => view'[s].of = c.key
<1> DEFINE st == page.ops[c.op].steps[c.pos]
<1>1. /\ s \in page.slots /\ s \notin page.derives
      /\ s \notin st.clears /\ s \notin st.empties /\ s \notin st.rebuilds /\ s \notin st.appends
      /\ s \in st.reads => c.op = o /\ s \notin st.patches /\ s \notin st.drops
  <2>1. HandlerOf(page, c)
    BY DEF TypeInv
  <2>2. c.op \in DOMAIN page.ops /\ c.pos \in DOMAIN page.ops[c.op].steps
    BY <2>1 DEF HandlerOf
  <2>3. QED
    BY <2>2, FilledRules
<1>2. At(c) = st
  BY DEF At, Op
<1> HIDE DEF st
<1>3. PICK seen : view'[s] = IF ~Live(c) THEN view[s] ELSE Applied(c, seen, s)
  BY <1>1 DEF Answer, Derived
<1>4. CASE ~Live(c)
  BY <1>3, <1>4
<1>5. CASE Live(c) /\ s \in st.reads
  <2> DEFINE edits == IF s \in st.keeps /\ view[s].of = c.key THEN view[s].edits ELSE 0
  <2>1. Applied(c, seen, s) = [of |-> c.key, has |-> 1..seen[s], edits |-> edits]
    BY <1>1, <1>2, <1>5 DEF Applied
  <2> HIDE DEF edits
  <2>2. QED
    BY <1>1, <1>2, <1>3, <1>5, <2>1 DEF SlotOf
<1>6. CASE Live(c) /\ s \notin st.reads
  <2>1. \/ Applied(c, seen, s) = view[s]
        \/ \E x : Applied(c, seen, s) = [view[s] EXCEPT !.has = x]
    <3> DEFINE own == IF Mirror(s) \in DOMAIN c.wrote THEN {c.wrote[Mirror(s)]} ELSE {}
    <3>1. \/ Applied(c, seen, s) = view[s]
          \/ Applied(c, seen, s) = [view[s] EXCEPT !.has = Patched(c, s, own)]
          \/ Applied(c, seen, s) = [view[s] EXCEPT !.has = @ \union own]
      BY <1>1, <1>2, <1>6 DEF Applied
    <3> HIDE DEF own
    <3>2. QED
      BY <3>1
  <2>2. SlotOf(Applied(c, seen, s)) /\ Applied(c, seen, s).of = view[s].of
    BY <2>1, Edited
  <2>3. QED
    BY <1>2, <1>3, <1>6, <2>2
<1>7. QED
  BY <1>4, <1>5, <1>6

\* Nothing else does.
LEMMA FilledElsewhere ==
  ASSUME TypeInv, NEW s, NEW o, FilledBy(page, s, o), SlotOf(view[s]),
         \/ \E q \in DOMAIN page.ops : Press(q)
         \/ \E q \in Timers : Polling(q)
         \/ \E k \in Keys : Move(k)
         \/ \E f \in page.forms : Type(f)
         \/ \E c \in calls : Serve(c) \/ Fail(c)
  PROVE  SlotOf(view'[s]) /\ view'[s].of = view[s].of
<1>1. s \in page.slots /\ s \notin page.resets /\ s \in DOMAIN view
  BY DEF FilledBy, TypeInv
<1>2. ASSUME NEW q \in DOMAIN page.ops, Press(q) PROVE view'[s] = view[s]
  <2>1. s \notin page.ops[q].blanks /\ s \notin page.ops[q].opens
    BY FilledRules
  <2>2. QED
    BY <1>1, <1>2, <2>1 DEF Press, Op
<1>3. ASSUME NEW q \in Timers, Polling(q) PROVE view'[s] = view[s]
  <2>1. s \notin Refreshed(page)
    BY DEF FilledBy
  <2>2. QED
    BY <1>1, <1>3, <2>1, PollingChanges
<1>4. ASSUME NEW k \in Keys, Move(k) PROVE view'[s] = view[s]
  BY <1>1, <1>4 DEF Move
<1>5. ASSUME NEW f \in page.forms, Type(f)
      PROVE  view'[s] = view[s] \/ \E x : view'[s] = [view[s] EXCEPT !.edits = x]
  BY <1>1, <1>5 DEF Type
<1>6. ASSUME NEW c \in calls, Serve(c) \/ Fail(c) PROVE view'[s] = view[s]
  <2>1. c.op \in DOMAIN page.ops /\ c.pos \in DOMAIN page.ops[c.op].steps
    BY DEF TypeInv, HandlerOf
  <2>2. s \notin At(c).lost
    BY <2>1, FilledRules DEF At, Op
  <2>3. QED
    BY <1>1, <1>6, <2>2 DEF Serve, Fail
<1>7. QED
  <2>1. view'[s] = view[s] \/ \E x : view'[s] = [view[s] EXCEPT !.edits = x]
    BY <1>2, <1>3, <1>4, <1>5, <1>6
  <2>2. CASE view'[s] = view[s]
    BY <2>2
  <2>3. ASSUME NEW x, view'[s] = [view[s] EXCEPT !.edits = x]
        PROVE  SlotOf(view'[s]) /\ view'[s].of = view[s].of
    BY <2>3, Edited
  <2>4. QED
    BY <2>1, <2>2, <2>3

\* Where the handlers come from when some start.
LEMMA StartsOps ==
  ASSUME TypeInv, NEW os, NEW k, NEW e, NEW n, Starts(os, k, e, n), NEW d \in calls'
  PROVE  d \in calls \/ d.op \in os
<1> DEFINE N == Begun(os, k, e, n)
<1>1. os \subseteq DOMAIN page.ops /\ k # Nil /\ calls' = calls \union N
  BY DEF Starts
<1>2. \A c \in N : /\ HandlerOf(page, c) /\ c.op \in os /\ c.epoch = e /\ c.key = k /\ c.pos = 1
                   /\ LiveAt(page, e, c)
                   /\ FlagsOf(page, c) = page.ops[c.op].up \union page.ops[c.op].steps[1].during
  BY <1>1, BegunAre
<1> HIDE DEF N
<1>3. QED
  BY <1>1, <1>2

\* And where they come from when one goes on.
LEMMA GoesOps ==
  ASSUME TypeInv, NEW c, NEW R, NEW spawns, Goes(c, R, spawns)
  PROVE  /\ c \in calls /\ HandlerOf(page, c)
         /\ spawns \subseteq Spawns(page, c.op) /\ spawns \subseteq DOMAIN page.ops
         /\ \A d \in R : d.op = c.op
         /\ \A d, d2 \in R : d = d2
         /\ \A d \in calls' : (d \in calls /\ d # c) \/ d \in R \/ d.op \in spawns
<1> DEFINE N == Begun(spawns, sel, epoch, c.n)
<1>1. /\ c \in calls /\ HandlerOf(page, c) /\ sel # Nil
      /\ calls' = ((calls \ {c}) \union R) \union N
      /\ \A d \in R : d.op = c.op
      /\ \A d, d2 \in R : d = d2
  BY DEF Goes, Follows, TypeInv
<1>2. spawns \subseteq Spawns(page, c.op)
  BY <1>1 DEF Goes, HandlerOf, Spawns, At, Op
<1>3. spawns \subseteq DOMAIN page.ops
  BY <1>1, <1>2, PageRules DEF HandlerOf, WellDescribed
<1>4. \A d \in N : /\ HandlerOf(page, d) /\ d.op \in spawns /\ d.epoch = epoch /\ d.key = sel /\ d.pos = 1
                   /\ LiveAt(page, epoch, d)
                   /\ FlagsOf(page, d) = page.ops[d.op].up \union page.ops[d.op].steps[1].during
  BY <1>1, <1>3, BegunAre
<1> HIDE DEF N
<1>5. QED
  BY <1>1, <1>2, <1>3, <1>4

\* An operation that runs once is started by nothing but the opening of the page.
LEMMA StartedOnce ==
  ASSUME TypeInv, NEW o \in DOMAIN page.ops, RunsOnce(page, o),
         \/ \E q \in DOMAIN page.ops : Press(q)
         \/ \E q \in Timers : Polling(q)
         \/ \E k \in Keys : Move(k)
         \/ \E f \in page.forms : Type(f)
  PROVE  \A d \in calls' : d.op = o => d \in calls
<1>1. o \notin Effects /\ ~page.ops[o].user
  BY DEF RunsOnce, Effects
<1>2. ASSUME NEW q \in DOMAIN page.ops, Press(q) PROVE \A d \in calls' : d.op = o => d \in calls
  <2>1. PICK os, k, e :
           /\ Starts(os, k, e, moves + 1) /\ up' = up \union Raised(os)
           /\ page.ops[q].user /\ page.ops[q].idle \cap up = {} /\ (Patient => calls = {})
           /\ \/ os = {q}
              \/ os = {q} \union Effects /\ page.ops[q].selects /\ (mode = "roaming" \/ calls = {})
           /\ e # epoch => page.ops[q].selects
           /\ sel' # Nil
    BY <1>2, PressStarts
  <2>2. o \notin os
    BY <1>1, <2>1
  <2>3. QED
    BY <2>1, <2>2, StartsOps
<1>3. ASSUME NEW q \in Timers, Polling(q) PROVE \A d \in calls' : d.op = o => d \in calls
  BY <1>3, PollingChanges
<1>4. ASSUME NEW k \in Keys, Move(k) PROVE \A d \in calls' : d.op = o => d \in calls
  <2>1. Starts(Effects, k, epoch + 1, moves + 1)
    BY <1>4, OthersStart
  <2>2. QED
    BY <1>1, <2>1, StartsOps
<1>5. ASSUME NEW f \in page.forms, Type(f) PROVE \A d \in calls' : d.op = o => d \in calls
  <2>1. Starts(Effects, sel, epoch, moves + 1) \/ UNCHANGED calls
    BY <1>5, OthersStart
  <2>2. QED
    BY <1>1, <2>1, StartsOps
<1>6. QED
  BY <1>2, <1>3, <1>4, <1>5

\* Every step keeps these slots as they should be.
LEMMA SlotsKept == TypeInv /\ SlotsInv /\ [Next]_vars /\ UNCHANGED page => SlotsInv'
<1> SUFFICES ASSUME TypeInv, SlotsInv, [Next]_vars, UNCHANGED page PROVE SlotsInv'
  OBVIOUS
<1> DEFINE Moved == \/ \E q \in DOMAIN page.ops : Press(q)
                    \/ \E q \in Timers : Polling(q)
                    \/ \E k \in Keys : Move(k)
                    \/ \E f \in page.forms : Type(f)
<1>1. CASE Moved
  <2>1. ASSUME NEW o \in DOMAIN page.ops, RunsOnce(page, o) PROVE \A d \in calls' : d.op = o => d \in calls
    BY <1>1, <2>1, StartedOnce
  <2>2. ASSUME NEW o \in DOMAIN page.ops, NEW s \in page.slots, FilledBy(page, s, o)
        PROVE  SlotOf(view'[s]) /\ view'[s].of = view[s].of
    BY <1>1, <2>2, FilledElsewhere DEF SlotsInv
  <2> HIDE DEF Moved
  <2>3. QED
    BY <2>1, <2>2 DEF SlotsInv, Loaded
<1>2. ASSUME NEW c \in calls, Serve(c) \/ Answer(c) \/ Fail(c) PROVE SlotsInv'
  <2>1. PICK R, spawns, flags :
           /\ Goes(c, R, spawns) /\ Drops(c, R, flags) /\ up' = flags \union Raised(spawns)
           /\ Answer(c) /\ Len(page.ops[c.op].steps) = 1 => R = {}
           /\ spawns # {} => Answer(c)
    BY <1>2, RequestsGo
  <2>2. /\ c \in calls /\ HandlerOf(page, c)
        /\ spawns \subseteq Spawns(page, c.op) /\ spawns \subseteq DOMAIN page.ops
        /\ \A d \in R : d.op = c.op
        /\ \A d, d2 \in R : d = d2
        /\ \A d \in calls' : (d \in calls /\ d # c) \/ d \in R \/ d.op \in spawns
    BY <2>1, GoesOps
  <2>3. ASSUME NEW o \in DOMAIN page.ops, RunsOnce(page, o)
        PROVE  \A d \in calls' : d.op = o => (d \in calls /\ d # c) \/ d \in R
    <3>1. o \notin Spawns(page, c.op)
      BY <2>2, <2>3 DEF RunsOnce, HandlerOf
    <3>2. QED
      BY <2>2, <3>1
  <2>4. ASSUME NEW o \in DOMAIN page.ops, RunsOnce(page, o), NEW d \in calls', NEW d2 \in calls',
               d.op = o, d2.op = o
        PROVE  d = d2
    BY <2>2, <2>3, <2>4 DEF SlotsInv
  <2>5. ASSUME NEW o \in DOMAIN page.ops, NEW s \in page.slots, FilledBy(page, s, o)
        PROVE  /\ SlotOf(view'[s])
               /\ view'[s].of = view[s].of \/ (Answer(c) /\ c.op = o)
    <3>1. SlotOf(view[s])
      BY <2>5 DEF SlotsInv
    <3>2. CASE Answer(c)
      BY <2>5, <3>1, <3>2, FilledByAnswer
    <3>3. CASE ~Answer(c)
      BY <1>2, <2>5, <3>1, <3>3, FilledElsewhere
    <3>4. QED
      BY <3>2, <3>3
  <2>6. ASSUME NEW o \in DOMAIN page.ops, NEW s \in page.slots, FilledBy(page, s, o), RunsOnce(page, o),
               NEW d \in calls', d.op = o
        PROVE  view'[s].of = Nil
    <3>1. (d \in calls /\ d # c) \/ d \in R
      BY <2>3, <2>6
    <3>2. view'[s].of = view[s].of
      <4>1. CASE d \in R
        <5>1. Len(page.ops[c.op].steps) = 1
          BY <2>2, <2>6, <4>1 DEF RunsOnce
        <5>2. QED
          BY <2>1, <2>5, <2>6, <4>1, <5>1
      <4>2. CASE d \in calls /\ d # c
        BY <2>5, <2>6, <4>2 DEF SlotsInv
      <4>3. QED
        BY <3>1, <4>1, <4>2
    <3>3. \E d2 \in calls : d2.op = o
      BY <2>2, <2>6, <3>1
    <3>4. QED
      BY <2>6, <3>2, <3>3 DEF SlotsInv, Loaded
  <2>7. QED
    BY <2>4, <2>5, <2>6 DEF SlotsInv, Loaded
<1>3. CASE UNCHANGED vars
  BY <1>3 DEF SlotsInv, vars, Loaded
<1>4. QED
  BY <1>1, <1>2, <1>3 DEF Next

\* What a load with a flag waits for is there while it runs.
LoadsReady ==
  \A c \in calls : c.op \in page.loads /\ ~Quiet(page, c.op) =>
     \A s \in page.ops[c.op].needs : Loaded(s)

\* What it waits for does not go away.
LEMMA StaysLoaded ==
  ASSUME TypeInv, SlotsInv, [Next]_vars, NEW q \in page.loads, ~Quiet(page, q),
         NEW s \in page.ops[q].needs, Loaded(s)
  PROVE  view'[s].of # Nil
<1>1. PICK o \in DOMAIN page.ops : FilledBy(page, s, o)
  BY PageRules DEF StartsApart
<1>2. SlotOf(view[s])
  BY <1>1 DEF SlotsInv, FilledBy
<1>3. view[s].of # Nil
  BY DEF Loaded
<1>4. CASE UNCHANGED vars
  BY <1>3, <1>4 DEF vars
<1>5. ASSUME NEW c \in calls, Answer(c) PROVE view'[s].of # Nil
  <2>1. view'[s].of = view[s].of \/ view'[s].of = c.key
    BY <1>1, <1>2, <1>5, FilledByAnswer
  <2>2. c.key # Nil
    BY DEF TypeInv, HandlerOf
  <2>3. QED
    BY <1>3, <2>1, <2>2
<1>6. CASE \/ \E p \in DOMAIN page.ops : Press(p)
           \/ \E p \in Timers : Polling(p)
           \/ \E k \in Keys : Move(k)
           \/ \E f \in page.forms : Type(f)
           \/ \E c \in calls : Serve(c) \/ Fail(c)
  BY <1>1, <1>2, <1>3, <1>6, FilledElsewhere
<1>7. QED
  BY <1>4, <1>5, <1>6 DEF Next

\* Loads are started when what they wait for is there.
LEMMA LoadsStart ==
  ASSUME TypeInv, SlotsInv, [Next]_vars, LoadsReady, UNCHANGED page,
         NEW os, NEW k, NEW e, NEW n, Starts(os, k, e, n),
         \A q \in os : q \in page.loads /\ ~Quiet(page, q) => q \in Effects
  PROVE  LoadsReady'
<1>1. ASSUME NEW d \in calls', d.op \in page.loads, ~Quiet(page, d.op), NEW s \in page.ops[d.op].needs
      PROVE  view'[s].of # Nil
  <2>1. d \in calls \/ d.op \in os
    BY StartsOps
  <2>2. Loaded(s)
    BY <1>1, <2>1 DEF LoadsReady, Effects, Op
  <2>3. QED
    BY <1>1, <2>2, StaysLoaded
<1>2. QED
  BY <1>1 DEF LoadsReady, Loaded

\* What there is to keep of flags and loads.
Holds == Busied(page, epoch, calls, up) /\ Apart(page, epoch, calls) /\ LoadsReady

\* A handler that a control would disturb keeps the control disabled.
LEMMA Disabled ==
  ASSUME TypeInv, Busied(page, epoch, calls, up), NEW c \in calls, LiveAt(page, epoch, c), NEW F, F \cap up = {}
  PROVE  F \cap page.ops[c.op].up = {}
<1>1. page.ops[c.op].up \subseteq FlagsOf(page, c)
  BY DEF FlagsOf
<1>2. FlagsOf(page, c) \subseteq up
  BY DEF Busied
<1>3. QED
  BY <1>1, <1>2

\* A handler that lives at a later epoch lives now.
LEMMA LivesNow ==
  ASSUME TypeInv, NEW c \in calls, NEW e \in Nat, epoch <= e, LiveAt(page, e, c)
  PROVE  LiveAt(page, epoch, c) /\ (page.ops[c.op].steps[c.pos].guarded => e = epoch)
<1>1. c.epoch \in 0..epoch /\ epoch \in Nat
  BY DEF TypeInv
<1>2. c.epoch = e => c.epoch = epoch
  BY <1>1
<1>3. QED
  BY <1>2 DEF LiveAt

\* A control that is pressed is enabled: nothing under way shares its flags, and
\* the loads that a new selection starts replace those that it cuts off.
LEMMA PressHolds ==
  ASSUME TypeInv, SlotsInv, Holds, Kept(LocksWrongly), NEW o \in DOMAIN page.ops, Press(o)
  PROVE  Holds'
<1>1. PICK os, k, e :
         /\ Starts(os, k, e, moves + 1) /\ up' = up \union Raised(os)
         /\ page.ops[o].user /\ page.ops[o].idle \cap up = {} /\ (Patient => calls = {})
         /\ \/ os = {o}
            \/ os = {o} \union Effects /\ page.ops[o].selects /\ (mode = "roaming" \/ calls = {})
         /\ e # epoch => page.ops[o].selects
         /\ sel' # Nil
  BY PressStarts
<1>2. /\ WellDescribed(page) /\ StartsApart(page)
      /\ ~Patient => LocksInTime(page)
      /\ mode = "roaming" => LoadsAgain(page)
  BY PageRules
<1>3. Effects \subseteq page.loads /\ page.loads \subseteq DOMAIN page.ops /\ o \notin page.loads
  BY <1>1, <1>2 DEF Effects, WellDescribed
<1>4. page' = page /\ epoch' = e /\ e \in Nat /\ epoch <= e
  BY <1>1 DEF Press, Starts
<1>5. ASSUME NEW p \in os, NEW q \in os, p # q PROVE ~Share(page, p, q)
  <2>1. p \in {o} \union Effects /\ q \in {o} \union Effects /\ page.ops[o].selects
    BY <1>1, <1>5
  <2>2. \A r \in Effects : ~Share(page, o, r)
    BY <1>1, <1>2, <1>3, <2>1 DEF StartsApart
  <2>3. \A r \in Effects : ~Share(page, r, o)
    BY <2>2 DEF Share
  <2>4. \A r1, r2 \in Effects : r1 # r2 => ~Share(page, r1, r2)
    BY <1>2, <1>3 DEF StartsApart
  <2>5. QED
    BY <1>5, <2>1, <2>2, <2>3, <2>4
<1>6. ASSUME NEW c \in calls PROVE ~Patient /\ c.op \in DOMAIN page.ops /\ c.pos \in DOMAIN page.ops[c.op].steps
  BY <1>1, <1>6 DEF TypeInv, HandlerOf
<1>7. ASSUME NEW c \in calls, LiveAt(page, e, c), NEW q \in os PROVE ~Share(page, c.op, q)
  <2>1. LocksInTime(page) /\ LiveAt(page, epoch, c)
    BY <1>2, <1>4, <1>6, <1>7, LivesNow
  <2>2. CASE q = o
    <3>1. page.ops[o].idle \cap page.ops[c.op].up = {}
      BY <1>1, <2>1, Disabled DEF Holds
    <3>2. ~Share(page, o, c.op)
      BY <1>1, <1>6, <2>1, <3>1 DEF LocksInTime
    <3>3. QED
      BY <2>2, <3>2 DEF Share
  <2>3. CASE q \in Effects
    <3>1. CASE q = o
      BY <1>3, <2>3, <3>1
    <3>2. CASE q # o
      <4>1. page.ops[o].selects /\ mode = "roaming"
        BY <1>1, <1>7, <2>3, <3>2
      <4>2. CASE Quiet(page, q)
        BY <4>2 DEF Quiet, Share
      <4>3. CASE ~Quiet(page, q)
        <5>1. Guarded(page, q)
          BY <1>2, <1>3, <2>3, <4>1, <4>3 DEF LoadsAgain
        <5>2. QED
          BY <1>1, <1>3, <2>1, <2>3, <4>1, <4>3, <5>1 DEF LocksInTime
      <4>4. QED
        BY <4>2, <4>3
    <3>3. QED
      BY <3>1, <3>2
  <2>4. QED
    BY <1>1, <1>7, <2>2, <2>3
<1>8. ASSUME NEW c \in calls, LiveAt(page, epoch, c) PROVE LiveAt(page, e, c) \/ Quiet(page, c.op)
  <2>1. CASE e = epoch
    BY <1>8, <2>1
  <2>2. CASE e # epoch
    <3>1. page.ops[o].selects /\ LocksInTime(page)
      BY <1>1, <1>2, <1>6, <2>2
    <3>2. Guarded(page, c.op) => Quiet(page, c.op)
      BY <1>1, <1>6, <3>1 DEF LocksInTime
    <3>3. QED
      BY <1>6, <3>2, FlagsAreRaised DEF LiveAt
  <2>3. QED
    BY <2>1, <2>2
<1>9. Busied(page, e, calls', up \union Raised(os)) /\ Apart(page, e, calls')
  BY <1>1, <1>5, <1>7, <1>8, StartsKeep DEF Holds
<1>10. LoadsReady'
  <2>1. \A q \in os : q \in page.loads /\ ~Quiet(page, q) => q \in Effects
    BY <1>1, <1>3
  <2>2. [Next]_vars
    BY DEF Next
  <2>3. QED
    BY <1>1, <1>4, <2>1, <2>2, LoadsStart DEF Holds
<1>11. QED
  BY <1>1, <1>4, <1>9, <1>10 DEF Holds

\* Another app in the url starts the loads anew, and cuts off those under way.
LEMMA MoveHolds ==
  ASSUME TypeInv, SlotsInv, Holds, Kept(LocksWrongly), NEW k \in Keys, Move(k)
  PROVE  Holds'
<1>1. /\ Starts(Effects, k, epoch + 1, moves + 1) /\ up' = up \union Raised(Effects)
      /\ mode = "roaming" \/ calls = {}
  BY OthersStart
<1>2. WellDescribed(page) /\ StartsApart(page) /\ (mode = "roaming" => LoadsAgain(page))
  BY PageRules DEF Patient
<1>3. Effects \subseteq page.loads /\ page.loads \subseteq DOMAIN page.ops
  BY <1>2 DEF Effects, WellDescribed
<1>4. page' = page /\ epoch' = epoch + 1 /\ epoch \in Nat
  BY DEF Move, TypeInv
<1>5. \A p, q \in Effects : p # q => ~Share(page, p, q)
  BY <1>2, <1>3 DEF StartsApart
<1>6. ASSUME NEW c \in calls
      PROVE  /\ LoadsAgain(page) /\ c.epoch # epoch + 1
             /\ c.op \in DOMAIN page.ops /\ c.pos \in DOMAIN page.ops[c.op].steps
  <2>1. LoadsAgain(page) /\ HandlerOf(page, c) /\ c.epoch \in 0..epoch
    BY <1>1, <1>2 DEF TypeInv
  <2>2. QED
    BY <1>4, <2>1 DEF HandlerOf
<1>7. ASSUME NEW c \in calls, LiveAt(page, epoch + 1, c), NEW q \in Effects PROVE ~Share(page, c.op, q)
  <2>1. CASE Quiet(page, q)
    BY <2>1 DEF Quiet, Share
  <2>2. CASE ~Quiet(page, q)
    <3>1. Guarded(page, q) /\ \A r \in DOMAIN page.ops \ {q} : ~Share(page, q, r)
      BY <1>3, <1>6, <2>2 DEF LoadsAgain
    <3>2. CASE c.op = q
      <4>1. \E i \in DOMAIN page.ops[q].steps : page.ops[q].steps[i].guarded
        BY <3>1 DEF Guarded
      <4>2. Len(page.ops[q].steps) = 1 /\ DOMAIN page.ops[q].steps = 1..Len(page.ops[q].steps)
        BY <1>2, <1>3, <3>1 DEF WellDescribed
      <4>3. page.ops[c.op].steps[c.pos].guarded
        BY <1>6, <3>2, <4>1, <4>2
      <4>4. QED
        BY <1>6, <1>7, <4>3 DEF LiveAt
    <3>3. CASE c.op # q
      <4>1. ~Share(page, q, c.op)
        BY <1>6, <3>1, <3>3
      <4>2. QED
        BY <4>1 DEF Share
    <3>4. QED
      BY <3>2, <3>3
  <2>3. QED
    BY <2>1, <2>2
<1>8. ASSUME NEW c \in calls, ~LiveAt(page, epoch + 1, c), ~Quiet(page, c.op) PROVE c.op \in Effects
  <2>1. Guarded(page, c.op)
    BY <1>6, <1>8, FlagsAreRaised DEF LiveAt
  <2>2. c.op \in page.loads
    BY <1>6, <1>8, <2>1 DEF LoadsAgain
  <2>3. QED
    BY <1>8, <2>2 DEF Holds, LoadsReady, Effects, Op
<1>9. Busied(page, epoch + 1, calls', up \union Raised(Effects)) /\ Apart(page, epoch + 1, calls')
  <2>1. \A c \in calls : LiveAt(page, epoch, c) =>
          LiveAt(page, epoch + 1, c) \/ Quiet(page, c.op) \/ c.op \in Effects
    BY <1>8
  <2>2. QED
    BY <1>1, <1>5, <1>7, <2>1, StartsKeep DEF Holds
<1>10. LoadsReady'
  <2>1. [Next]_vars
    BY DEF Next
  <2>2. QED
    BY <1>1, <1>4, <2>1, LoadsStart DEF Holds
<1>11. QED
  BY <1>1, <1>4, <1>9, <1>10 DEF Holds

\* Typing starts the loads of the form, unless they are under way.
LEMMA TypeHolds ==
  ASSUME TypeInv, SlotsInv, Holds, Kept(LocksWrongly), NEW f \in page.forms, Type(f)
  PROVE  Holds'
<1>1. /\ \/ Starts(Effects, sel, epoch, moves + 1) /\ up' = up \union Raised(Effects) /\ page.watches # {}
         \/ UNCHANGED <<calls, up, epoch>>
      /\ (page.hides \union page.covers) \cap up = {} /\ (Patient => calls = {})
  BY OthersStart
<1>2. StartsApart(page) /\ WellDescribed(page) /\ (~Patient => LocksInTime(page))
  BY PageRules
<1>3. page' = page /\ epoch' = epoch /\ [Next]_vars
  BY DEF Type, Next
<1>4. CASE Starts(Effects, sel, epoch, moves + 1) /\ up' = up \union Raised(Effects) /\ page.watches # {}
  <2>1. Effects \subseteq page.loads /\ page.loads \subseteq DOMAIN page.ops
    BY <1>2 DEF Effects, WellDescribed
  <2>2. \A p, q \in Effects : p # q => ~Share(page, p, q)
    BY <1>2, <2>1 DEF StartsApart
  <2>3. ASSUME NEW c \in calls, LiveAt(page, epoch, c), NEW q \in Effects PROVE ~Share(page, c.op, q)
    <3>1. c.op \in DOMAIN page.ops /\ LocksInTime(page)
      BY <1>1, <1>2, <2>3 DEF TypeInv, HandlerOf
    <3>2. (page.hides \union page.covers) \cap page.ops[c.op].up = {}
      BY <1>1, <2>3, Disabled DEF Holds
    <3>3. ~Share(page, q, c.op)
      BY <1>4, <2>1, <2>3, <3>1, <3>2 DEF LocksInTime
    <3>4. QED
      BY <3>3 DEF Share
  <2>4. \A c \in calls : LiveAt(page, epoch, c) =>
          LiveAt(page, epoch, c) \/ Quiet(page, c.op) \/ c.op \in Effects
    OBVIOUS
  <2>5. Busied(page, epoch, calls', up \union Raised(Effects)) /\ Apart(page, epoch, calls')
    BY <1>4, <2>2, <2>3, <2>4, StartsKeep DEF Holds
  <2>6. LoadsReady'
    BY <1>3, <1>4, LoadsStart DEF Holds
  <2>7. QED
    BY <1>3, <1>4, <2>5, <2>6 DEF Holds
<1>5. CASE UNCHANGED <<calls, up, epoch>>
  <2>1. ASSUME NEW d \in calls, d.op \in page.loads, ~Quiet(page, d.op), NEW s \in page.ops[d.op].needs
        PROVE  view'[s].of # Nil
    <3>1. Loaded(s)
      BY <2>1 DEF Holds, LoadsReady
    <3>2. QED
      BY <1>3, <2>1, <3>1, StaysLoaded
  <2>2. QED
    BY <1>3, <1>5, <2>1 DEF Holds, LoadsReady, Loaded
<1>6. QED
  BY <1>1, <1>4, <1>5

\* A timer's request raises no flag and takes nothing that a load waits for.
LEMMA PollingHolds ==
  ASSUME TypeInv, SlotsInv, Holds, NEW o \in Timers, Polling(o)
  PROVE  Holds'
<1>1. UNCHANGED <<page, epoch, up, calls>> /\ [Next]_vars
  BY PollingChanges DEF Next
<1>2. LoadsReady'
  BY <1>1, StaysLoaded DEF Holds, LoadsReady, Loaded
<1>3. QED
  BY <1>1, <1>2 DEF Holds

\* The handler itself goes on with the right flags.
LEMMA GoesOn ==
  ASSUME TypeInv, Holds, Kept(LocksWrongly), NEW c, NEW R, NEW spawns, NEW flags,
         Goes(c, R, spawns), Drops(c, R, flags)
  PROVE  /\ Busied(page, epoch, (calls \ {c}) \union R, flags) /\ Apart(page, epoch, (calls \ {c}) \union R)
         /\ \A d \in (calls \ {c}) \union R : HandlerOf(page, d)
<1>1. /\ c \in calls /\ WellDescribed(page)
      /\ \A d \in calls : HandlerOf(page, d)
      /\ \A d \in R : HandlerOf(page, d) /\ d.op = c.op /\ d.epoch = c.epoch
      /\ \A d, d2 \in R : d = d2
  BY PageRules DEF Goes, Follows, TypeInv
<1>2. /\ c.op \in DOMAIN page.ops /\ c.pos \in DOMAIN page.ops[c.op].steps
      /\ \A d \in calls \union R : d.op \in DOMAIN page.ops /\ d.pos \in DOMAIN page.ops[d.op].steps
      /\ Len(page.ops[c.op].steps) \in Nat /\ DOMAIN page.ops[c.op].steps = 1..Len(page.ops[c.op].steps)
  BY <1>1 DEF HandlerOf, WellDescribed
<1>3. FlagsOf(page, c) \subseteq Raises(page, c.op)
  BY <1>2, FlagsAreRaised
<1>4. LiveAt(page, epoch, c) => up \cap Raises(page, c.op) = FlagsOf(page, c)
  BY <1>1, <1>2, OwnFlags DEF Holds
<1>5. ~LiveAt(page, epoch, c) => Quiet(page, c.op) \/ ~page.ops[c.op].finally
  <2>1. SUFFICES ASSUME ~LiveAt(page, epoch, c) PROVE Quiet(page, c.op) \/ ~page.ops[c.op].finally
    OBVIOUS
  <2>2. page.ops[c.op].steps[c.pos].guarded /\ c.epoch # epoch
    BY <2>1 DEF LiveAt
  <2>3. ~Patient
    BY <1>1, <2>2 DEF TypeInv
  <2>4. LocksInTime(page)
    BY <2>3, PageRules
  <2>5. Guarded(page, c.op)
    BY <1>2, <2>2, FlagsAreRaised
  <2>6. QED
    BY <1>2, <2>4, <2>5 DEF LocksInTime
<1>6. (\A d \in R : LiveAt(page, epoch, d) <=> LiveAt(page, epoch, c)) /\
      ( \/ LiveAt(page, epoch, c) /\ flags \ Raises(page, c.op) = up \ Raises(page, c.op)
                                  /\ flags \cap Raises(page, c.op) = UNION {FlagsOf(page, d) : d \in R}
        \/ ~LiveAt(page, epoch, c) /\ flags = up
        \/ Quiet(page, c.op) /\ flags = up)
  <2>1. CASE /\ R = {}
             /\ flags = IF LiveAt(page, epoch, c) \/ page.ops[c.op].finally THEN up \ FlagsOf(page, c) ELSE up
    <3>1. CASE LiveAt(page, epoch, c)
      BY <1>3, <1>4, <2>1, <3>1
    <3>2. CASE ~LiveAt(page, epoch, c)
      BY <1>3, <1>5, <2>1, <3>2 DEF Quiet
    <3>3. QED
      BY <3>1, <3>2
  <2>2. ASSUME NEW d, R = {d}, d.pos = c.pos + 1, d.pos \in DOMAIN page.ops[c.op].steps,
               flags = (up \ page.ops[c.op].steps[c.pos].during) \union page.ops[c.op].steps[d.pos].during
        PROVE  /\ LiveAt(page, epoch, d) <=> LiveAt(page, epoch, c)
               /\ LiveAt(page, epoch, c) /\ flags \ Raises(page, c.op) = up \ Raises(page, c.op)
               /\ flags \cap Raises(page, c.op) = UNION {FlagsOf(page, x) : x \in R}
    <3>1. Len(page.ops[c.op].steps) # 1
      <4>1. PICK len \in Nat : len = Len(page.ops[c.op].steps)
        BY <1>2
      <4>2. c.pos \in 1..len /\ c.pos + 1 \in 1..len
        BY <1>2, <2>2, <4>1
      <4>3. len # 1
        BY <4>2
      <4>4. QED
        BY <4>1, <4>3
    <3>2. ~Guarded(page, c.op)
      BY <1>1, <1>2, <3>1 DEF WellDescribed
    <3>3. d.op = c.op
      BY <1>1, <2>2
    <3>4. LiveAt(page, epoch, c) /\ LiveAt(page, epoch, d)
      BY <1>2, <2>2, <3>2, <3>3 DEF LiveAt, Guarded
    <3>5. page.ops[c.op].up \cap page.ops[c.op].steps[c.pos].during = {}
      BY <1>1, <1>2 DEF WellDescribed
    <3>6. /\ page.ops[c.op].steps[c.pos].during \subseteq Raises(page, c.op)
          /\ page.ops[c.op].steps[d.pos].during \subseteq Raises(page, c.op)
      BY <1>2, <2>2 DEF Raises
    <3>7. FlagsOf(page, d) = page.ops[c.op].up \union page.ops[c.op].steps[d.pos].during
      BY <3>3 DEF FlagsOf
    <3>8. up \cap Raises(page, c.op) = page.ops[c.op].up \union page.ops[c.op].steps[c.pos].during
      BY <1>4, <3>4 DEF FlagsOf
    <3>9. UNION {FlagsOf(page, x) : x \in R} = FlagsOf(page, d)
      BY <2>2
    <3>10. flags \ Raises(page, c.op) = up \ Raises(page, c.op)
      BY <2>2, <3>6
    <3>11. flags \cap Raises(page, c.op) = FlagsOf(page, d)
      BY <2>2, <3>5, <3>6, <3>7, <3>8
    <3>12. QED
      BY <3>4, <3>9, <3>10, <3>11
  <2>3. ASSUME NEW d, R = {d}, d.pos = c.pos, flags = up
        PROVE  /\ LiveAt(page, epoch, d) <=> LiveAt(page, epoch, c)
               /\ LiveAt(page, epoch, c) => up \cap Raises(page, c.op) = UNION {FlagsOf(page, x) : x \in R}
    <3>1. d.op = c.op /\ d.epoch = c.epoch
      BY <1>1, <2>3
    <3>2. FlagsOf(page, d) = FlagsOf(page, c) /\ (LiveAt(page, epoch, d) <=> LiveAt(page, epoch, c))
      BY <2>3, <3>1 DEF FlagsOf, LiveAt
    <3>3. QED
      BY <1>4, <2>3, <3>2
  <2>4. QED
    BY <2>1, <2>2, <2>3 DEF Drops
<1>7. Busied(page, epoch, (calls \ {c}) \union R, flags) /\ Apart(page, epoch, (calls \ {c}) \union R)
  BY <1>1, <1>2, <1>6, Replaced DEF Holds
<1>8. QED
  BY <1>1, <1>7

\* What an answer starts shares no flag with anything under way.
LEMMA SpawnsApart ==
  ASSUME TypeInv, SlotsInv, LoadsReady, NEW c, NEW R, NEW spawns, Goes(c, R, spawns), spawns # {} => Answer(c),
         NEW q \in spawns, ~Quiet(page, q)
  PROVE  /\ \A d \in calls : ~Share(page, d.op, q)
         /\ \A r \in DOMAIN page.ops \ {q} : ~Share(page, q, r)
         /\ \A s \in page.ops[q].needs : view'[s].of # Nil
<1>1. /\ c \in calls /\ HandlerOf(page, c)
      /\ spawns \subseteq Spawns(page, c.op) /\ spawns \subseteq DOMAIN page.ops
  BY GoesOps
<1>2. c.op \in DOMAIN page.ops /\ c.pos \in DOMAIN page.ops[c.op].steps /\ c.key # Nil
  BY <1>1 DEF HandlerOf
<1>3. /\ RunsOnce(page, c.op) /\ q \in page.loads \ page.opening /\ page.ops[q].needs # {}
      /\ \A s \in page.ops[q].needs : FilledBy(page, s, c.op) /\ s \in page.ops[c.op].steps[1].reads
      /\ \A r \in DOMAIN page.ops \ {q} : ~Share(page, q, r)
  BY <1>1, <1>2, PageRules DEF StartsApart
<1>4. Live(c) /\ Answer(c)
  BY DEF Goes
<1>5. c.pos = 1
  <2>1. Len(page.ops[c.op].steps) = 1 /\ DOMAIN page.ops[c.op].steps = 1..Len(page.ops[c.op].steps)
    BY <1>2, <1>3, PageRules DEF RunsOnce, WellDescribed
  <2>2. QED
    BY <1>2, <2>1
<1>6. ASSUME NEW s \in page.ops[q].needs PROVE view'[s].of # Nil /\ ~Loaded(s)
  <2>1. FilledBy(page, s, c.op) /\ s \in At(c).reads
    BY <1>3, <1>5 DEF At, Op
  <2>2. SlotOf(view[s]) /\ ~Loaded(s)
    BY <1>1, <1>2, <1>3, <2>1 DEF SlotsInv, FilledBy
  <2>3. view'[s].of = c.key
    BY <1>1, <1>4, <2>1, <2>2, FilledByAnswer
  <2>4. QED
    BY <1>2, <2>2, <2>3
<1>7. ASSUME NEW d \in calls PROVE ~Share(page, d.op, q)
  <2>1. d.op # q
    BY <1>3, <1>6, <1>7 DEF LoadsReady
  <2>2. d.op \in DOMAIN page.ops
    BY DEF TypeInv, HandlerOf
  <2>3. ~Share(page, q, d.op)
    BY <1>3, <2>1, <2>2
  <2>4. QED
    BY <2>3 DEF Share
<1>8. QED
  BY <1>3, <1>6, <1>7

\* A request that is served, answered or fails moves its own handler only, and
\* starts loads that were not under way.
LEMMA RequestHolds ==
  ASSUME TypeInv, SlotsInv, Holds, Kept(LocksWrongly), NEW c \in calls, Serve(c) \/ Answer(c) \/ Fail(c)
  PROVE  Holds'
<1>1. PICK R, spawns, flags :
         /\ Goes(c, R, spawns) /\ Drops(c, R, flags) /\ up' = flags \union Raised(spawns)
         /\ Answer(c) /\ Len(page.ops[c.op].steps) = 1 => R = {}
         /\ spawns # {} => Answer(c)
  BY RequestsGo
<1>2. /\ HandlerOf(page, c)
      /\ spawns \subseteq DOMAIN page.ops
      /\ \A d \in R : d.op = c.op
      /\ \A d \in calls' : (d \in calls /\ d # c) \/ d \in R \/ d.op \in spawns
  BY <1>1, GoesOps
<1>3. page' = page /\ epoch' = epoch /\ [Next]_vars
  BY DEF Serve, Answer, Fail, Next
<1> DEFINE D == (calls \ {c}) \union R
           N == Begun(spawns, sel, epoch, c.n)
<1>4. /\ Busied(page, epoch, D, flags) /\ Apart(page, epoch, D)
      /\ \A d \in D : HandlerOf(page, d)
  BY <1>1, GoesOn
<1>5. /\ \A d \in N : /\ HandlerOf(page, d) /\ d.op \in spawns /\ d.epoch = epoch /\ d.key = sel /\ d.pos = 1
                      /\ LiveAt(page, epoch, d)
                      /\ FlagsOf(page, d) = page.ops[d.op].up \union page.ops[d.op].steps[1].during
      /\ \A o \in spawns : page.ops[o].steps # <<>> => \E d \in N : d.op = o
      /\ \A d, d2 \in N : d.op = d2.op => d = d2
      /\ Raised(spawns) = UNION {FlagsOf(page, d) : d \in N}
  <2>1. sel # Nil
    BY DEF TypeInv
  <2>2. PICK n : n = c.n
    OBVIOUS
  <2>3. /\ \A d \in Begun(spawns, sel, epoch, n) :
              /\ HandlerOf(page, d) /\ d.op \in spawns /\ d.epoch = epoch /\ d.key = sel /\ d.pos = 1
              /\ LiveAt(page, epoch, d)
              /\ FlagsOf(page, d) = page.ops[d.op].up \union page.ops[d.op].steps[1].during
        /\ \A o \in spawns : page.ops[o].steps # <<>> => \E d \in Begun(spawns, sel, epoch, n) : d.op = o
        /\ \A d, d2 \in Begun(spawns, sel, epoch, n) : d.op = d2.op => d = d2
        /\ Raised(spawns) = UNION {FlagsOf(page, d) : d \in Begun(spawns, sel, epoch, n)}
    BY <1>2, <2>1, BegunAre
  <2>4. QED
    BY <2>2, <2>3
<1>6. calls' = D \union N
  BY <1>1 DEF Goes
<1>7. \A d \in D : \E d2 \in calls : d2.op = d.op
  BY <1>2
<1> HIDE DEF D, N
<1>8. ASSUME NEW q \in spawns, ~Quiet(page, q)
      PROVE  /\ \A d \in calls : ~Share(page, d.op, q)
             /\ \A r \in DOMAIN page.ops \ {q} : ~Share(page, q, r)
             /\ \A s \in page.ops[q].needs : view'[s].of # Nil
  BY <1>1, <1>8, SpawnsApart DEF Holds
<1>9. ASSUME NEW d \in D, NEW q \in spawns PROVE ~Share(page, d.op, q)
  <2>1. CASE Quiet(page, q)
    BY <2>1 DEF Quiet, Share
  <2>2. CASE ~Quiet(page, q)
    BY <1>7, <1>8, <2>2
  <2>3. QED
    BY <2>1, <2>2
<1>10. ASSUME NEW q \in spawns, NEW r \in spawns, q # r PROVE ~Share(page, q, r)
  <2>1. CASE Quiet(page, q)
    BY <2>1 DEF Quiet, Share
  <2>2. CASE ~Quiet(page, q)
    BY <1>2, <1>8, <1>10, <2>2
  <2>3. QED
    BY <2>1, <2>2
<1>11. Busied(page, epoch, calls', up') /\ Apart(page, epoch, calls')
  <2>1. \A d \in D \union N : d.pos \in DOMAIN page.ops[d.op].steps
    BY <1>4, <1>5 DEF HandlerOf
  <2>2. Apart(page, epoch, N)
    BY <1>5, <1>10 DEF Apart
  <2>3. \A d \in D, n \in N : LiveAt(page, epoch, d) /\ d # n => ~Share(page, d.op, n.op)
    BY <1>5, <1>9
  <2>4. \A n \in N : LiveAt(page, epoch, n)
    BY <1>5
  <2>5. /\ Busied(page, epoch, D \union N, flags \union UNION {FlagsOf(page, n) : n \in N})
        /\ Apart(page, epoch, D \union N)
    BY <1>4, <2>1, <2>2, <2>3, <2>4, Added
  <2>6. QED
    BY <1>1, <1>5, <1>6, <2>5
<1>12. LoadsReady'
  <2>1. ASSUME NEW d \in calls', d.op \in page.loads, ~Quiet(page, d.op), NEW s \in page.ops[d.op].needs
        PROVE  view'[s].of # Nil
    <3>1. CASE d.op \in spawns
      BY <1>8, <2>1, <3>1
    <3>2. CASE d.op \notin spawns
      <4>1. \E d2 \in calls : d2.op = d.op
        BY <1>2, <3>2
      <4>2. Loaded(s)
        BY <2>1, <4>1 DEF Holds, LoadsReady
      <4>3. QED
        BY <1>3, <2>1, <4>2, StaysLoaded
    <3>3. QED
      BY <3>1, <3>2
  <2>2. QED
    BY <1>3, <2>1 DEF LoadsReady, Loaded
<1>13. QED
  BY <1>3, <1>11, <1>12 DEF Holds

\* The inductive invariant.
FlagsInv == TypeInv /\ SlotsInv /\ (Kept(LocksWrongly) => Holds)

\* Calls, page and selection stay what they are.
StaysTyped(p) ==
  /\ \A c \in calls' : HandlerOf(p, c) /\ c.epoch \in 0..epoch'
  /\ Patient' => \A c \in calls' : c.epoch = epoch'
  /\ sel' # Nil /\ epoch' \in Nat

\* Every step keeps what is known of the handlers, and the page.
LEMMA TypesKept == TypeInv /\ [Next]_vars => TypeInv' /\ UNCHANGED <<name, page, mode>>
<1> SUFFICES ASSUME TypeInv, [Next]_vars PROVE TypeInv' /\ UNCHANGED <<name, page, mode>>
  OBVIOUS
<1>1. UNCHANGED <<name, page, mode>> /\ DOMAIN view' = page.slots
  <2>1. DOMAIN view = page.slots
    BY DEF TypeInv
  <2>2. ASSUME NEW o \in DOMAIN page.ops, Press(o)
        PROVE  UNCHANGED <<name, page, mode>> /\ DOMAIN view' = page.slots
    BY <2>2 DEF Press
  <2>3. ASSUME NEW o \in Timers, Polling(o) PROVE UNCHANGED <<name, page, mode>> /\ DOMAIN view' = page.slots
    BY <2>3, PollingChanges
  <2>4. ASSUME NEW k \in Keys, Move(k) PROVE UNCHANGED <<name, page, mode>> /\ DOMAIN view' = page.slots
    BY <2>4 DEF Move
  <2>5. ASSUME NEW f \in page.forms, Type(f) PROVE UNCHANGED <<name, page, mode>> /\ DOMAIN view' = page.slots
    BY <2>1, <2>5 DEF Type
  <2>6. ASSUME NEW c \in calls, Serve(c) \/ Answer(c) \/ Fail(c)
        PROVE  UNCHANGED <<name, page, mode>> /\ DOMAIN view' = page.slots
    <3>1. CASE Serve(c)
      BY <2>1, <3>1 DEF Serve
    <3>2. CASE Answer(c)
      BY <3>2 DEF Answer
    <3>3. CASE Fail(c)
      BY <3>3 DEF Fail
    <3>4. QED
      BY <2>6, <3>1, <3>2, <3>3
  <2>7. CASE UNCHANGED vars
    BY <2>1, <2>7 DEF vars
  <2>8. QED
    BY <2>2, <2>3, <2>4, <2>5, <2>6, <2>7 DEF Next
<1>2. /\ \A c \in calls' : HandlerOf(page', c) /\ c.epoch \in 0..epoch'
      /\ Patient' => \A c \in calls' : c.epoch = epoch'
      /\ sel' # Nil /\ epoch' \in Nat
  <2>1. ASSUME calls' = calls, epoch' = epoch, sel' = sel PROVE StaysTyped(page)
    BY <1>1, <2>1 DEF TypeInv, Patient, StaysTyped
  <2>2. ASSUME NEW os, NEW k, NEW e, NEW n, Starts(os, k, e, n), sel' # Nil PROVE StaysTyped(page)
    <3>1. epoch' \in Nat
      BY <2>2 DEF Starts
    <3>2. QED
      BY <1>1, <2>2, <3>1, StartsTyped DEF StaysTyped
  <2>3. ASSUME NEW c, NEW R, NEW spawns, Goes(c, R, spawns) PROVE StaysTyped(page)
    <3>1. sel' # Nil /\ epoch' \in Nat
      BY <2>3 DEF Goes, TypeInv
    <3>2. QED
      BY <1>1, <2>3, <3>1, GoesTyped DEF StaysTyped
  <2>4. ASSUME NEW o \in DOMAIN page.ops, Press(o) PROVE StaysTyped(page)
    <3>1. PICK os, k, e :
             /\ Starts(os, k, e, moves + 1) /\ up' = up \union Raised(os)
             /\ page.ops[o].user /\ page.ops[o].idle \cap up = {} /\ (Patient => calls = {})
             /\ \/ os = {o}
                \/ os = {o} \union Effects /\ page.ops[o].selects /\ (mode = "roaming" \/ calls = {})
             /\ e # epoch => page.ops[o].selects
             /\ sel' # Nil
      BY <2>4, PressStarts
    <3>2. QED
      BY <2>2, <3>1
  <2>5. ASSUME NEW o \in Timers, Polling(o) PROVE StaysTyped(page)
    <3>1. calls' = calls /\ epoch' = epoch /\ sel' = sel
      BY <2>5, PollingChanges
    <3>2. QED
      BY <2>1, <3>1
  <2>6. ASSUME NEW k \in Keys, Move(k) PROVE StaysTyped(page)
    <3>1. Starts(Effects, k, epoch + 1, moves + 1) /\ sel' # Nil
      BY <2>6, OthersStart
    <3>2. QED
      BY <2>2, <3>1
  <2>7. ASSUME NEW f \in page.forms, Type(f) PROVE StaysTyped(page)
    <3>1. (Starts(Effects, sel, epoch, moves + 1) \/ UNCHANGED <<calls, up, epoch>>) /\ sel' # Nil
      BY <2>7, OthersStart
    <3>2. sel' = sel
      BY <2>7 DEF Type
    <3>3. QED
      BY <2>1, <2>2, <3>1, <3>2
  <2>8. ASSUME NEW c \in calls, Serve(c) \/ Answer(c) \/ Fail(c) PROVE StaysTyped(page)
    <3>1. PICK R, spawns, flags :
             /\ Goes(c, R, spawns) /\ Drops(c, R, flags) /\ up' = flags \union Raised(spawns)
             /\ Answer(c) /\ Len(page.ops[c.op].steps) = 1 => R = {}
             /\ spawns # {} => Answer(c)
      BY <2>8, RequestsGo
    <3>2. QED
      BY <2>3, <3>1
  <2>9. ASSUME UNCHANGED vars PROVE StaysTyped(page)
    <3>1. calls' = calls /\ epoch' = epoch /\ sel' = sel
      BY <2>9 DEF vars
    <3>2. QED
      BY <2>1, <3>1
  <2>10. StaysTyped(page)
    BY <2>4, <2>5, <2>6, <2>7, <2>8, <2>9 DEF Next
  <2>11. QED
    BY <1>1, <2>10 DEF StaysTyped
<1>3. QED
  BY <1>1, <1>2 DEF TypeInv

\* It holds when a page opens.
LEMMA FlagsInit == ScreensInit => FlagsInv
<1> SUFFICES ASSUME ScreensInit PROVE FlagsInv
  OBVIOUS
<1>1. /\ name \in DOMAIN Pages /\ page = Pages[name]
      /\ mode \in {"careful", "unlucky", "hasty", "roaming"}
      /\ sel \in Keys /\ epoch = 0
      /\ view = [s \in page.slots |-> IF s = "rail" THEN [Blank EXCEPT !.of = sel] ELSE Blank]
      /\ up = Raised(FirstEffects)
      /\ calls = Begun(FirstEffects, sel, 0, 0)
  BY DEF ScreensInit, Init
<1>2. WellDescribed(page) /\ StartsApart(page)
  BY <1>1, FlagsAssumption
<1>3. /\ FirstEffects \subseteq page.opening \union page.loads /\ FirstEffects \subseteq DOMAIN page.ops
      /\ sel # Nil
  BY <1>1, <1>2, KeysAssumption DEF FirstEffects, WellDescribed
<1>4. /\ \A c \in calls :
           /\ HandlerOf(page, c) /\ c.op \in FirstEffects /\ c.epoch = 0 /\ c.key = sel /\ c.pos = 1
           /\ LiveAt(page, 0, c)
           /\ FlagsOf(page, c) = page.ops[c.op].up \union page.ops[c.op].steps[1].during
      /\ \A o \in FirstEffects : page.ops[o].steps # <<>> => \E c \in calls : c.op = o
      /\ \A c, d \in calls : c.op = d.op => c = d
      /\ Raised(FirstEffects) = UNION {FlagsOf(page, c) : c \in calls}
  <2>1. /\ \A c \in Begun(FirstEffects, sel, 0, 0) :
              /\ HandlerOf(page, c) /\ c.op \in FirstEffects /\ c.epoch = 0 /\ c.key = sel /\ c.pos = 1
              /\ LiveAt(page, 0, c)
              /\ FlagsOf(page, c) = page.ops[c.op].up \union page.ops[c.op].steps[1].during
        /\ \A o \in FirstEffects : page.ops[o].steps # <<>> => \E c \in Begun(FirstEffects, sel, 0, 0) : c.op = o
        /\ \A c, d \in Begun(FirstEffects, sel, 0, 0) : c.op = d.op => c = d
        /\ Raised(FirstEffects) = UNION {FlagsOf(page, c) : c \in Begun(FirstEffects, sel, 0, 0)}
    BY <1>2, <1>3, BegunWell
  <2>2. QED
    BY <1>1, <2>1
<1>5. TypeInv
  BY <1>1, <1>3, <1>4 DEF TypeInv
<1>6. ASSUME NEW o \in DOMAIN page.ops, NEW s \in page.slots, FilledBy(page, s, o)
      PROVE  SlotOf(view[s]) /\ view[s].of = Nil
  <2>1. s # "rail"
    BY <1>6 DEF FilledBy
  <2>2. view[s] = [of |-> Nil, has |-> {}, edits |-> 0]
    BY <1>1, <1>6, <2>1 DEF Blank
  <2>3. QED
    BY <2>2 DEF SlotOf
<1>7. SlotsInv
  BY <1>4, <1>6 DEF SlotsInv, Loaded
<1>8. Busied(page, epoch, calls, up) /\ Apart(page, epoch, calls)
  <2>1. \A c, d \in calls : c # d => ~Share(page, c.op, d.op)
    BY <1>2, <1>3, <1>4 DEF StartsApart
  <2>2. \A c \in calls : LiveAt(page, epoch, c)
    BY <1>1, <1>4
  <2>3. {d \in calls : LiveAt(page, epoch, d)} = calls
    BY <2>2
  <2>4. QED
    BY <1>1, <1>4, <2>1, <2>3 DEF Busied, Apart
<1>9. LoadsReady
  <2>1. \A c \in calls : c.op \in page.loads => page.ops[c.op].needs = {}
    BY <1>2, <1>3, <1>4 DEF FirstEffects, WellDescribed, Op
  <2>2. QED
    BY <2>1 DEF LoadsReady
<1>10. QED
  BY <1>5, <1>7, <1>8, <1>9 DEF FlagsInv, Holds

\* Every step preserves it.
LEMMA FlagsStep == FlagsInv /\ [Next]_vars => FlagsInv'
<1> SUFFICES ASSUME FlagsInv, [Next]_vars PROVE FlagsInv'
  OBVIOUS
<1>1. TypeInv' /\ UNCHANGED <<name, page, mode>>
  BY TypesKept DEF FlagsInv
<1>2. SlotsInv'
  BY <1>1, SlotsKept DEF FlagsInv
<1>3. Kept(LocksWrongly)' <=> Kept(LocksWrongly)
  BY <1>1 DEF Kept, LocksWrongly
<1>4. ASSUME Kept(LocksWrongly) PROVE Holds'
  <2>1. TypeInv /\ SlotsInv /\ Holds
    BY <1>4 DEF FlagsInv
  <2>2. CASE UNCHANGED vars
    BY <2>1, <2>2 DEF vars, Holds, LoadsReady, Loaded
  <2>3. QED
    BY <1>4, <2>1, <2>2, PressHolds, MoveHolds, TypeHolds, PollingHolds, RequestHolds DEF Next
<1>5. QED
  BY <1>1, <1>2, <1>3, <1>4 DEF FlagsInv

(***************************************************************************)
(* A spinner or a disabled button lasts exactly as long as the request it  *)
(* stands for, whatever fails and however many requests overlap.           *)
(***************************************************************************)
THEOREM ButtonsAreRight == ScreensSpec => []ButtonsLockAndFree
<1>1. FlagsInv => ButtonsLockAndFree
  <2>1. SUFFICES ASSUME Busied(page, epoch, calls, up) PROVE BusyWhileRunning
    BY DEF FlagsInv, Holds, ButtonsLockAndFree
  <2>2. \A c : (LiveAt(page, epoch, c) <=> Live(c)) /\ FlagsOf(page, c) = Flags(c)
    BY DEF LiveAt, Live, FlagsOf, Flags, At, Op
  <2>3. {d \in calls : LiveAt(page, epoch, d)} = {d \in calls : Live(d)}
    BY <2>2
  <2>4. QED
    BY <2>1, <2>2, <2>3 DEF Busied, BusyWhileRunning
<1>2. QED
  BY <1>1, FlagsInit, FlagsStep, PTL DEF ScreensSpec

(***************************************************************************)
(* Where the handlers under way come from.                                 *)
(***************************************************************************)
\* A handler that goes on has the key, the forms and the lists it started with.
Same(c, d) ==
  d.op = c.op /\ d.key = c.key /\ d.epoch = c.epoch /\ d.base = c.base /\ d.sent = c.sent

\* A handler that starts takes them from the page.
Fresh(d) ==
  /\ \A s \in Rebuilt(d.op) : d.base[s] = view[s]
  /\ DOMAIN d.sent = page.ops[d.op].sends /\ \A f \in DOMAIN d.sent : d.sent[f] = view[f]

\* What starts is as the page is.
LEMMA BegunFresh ==
  ASSUME NEW os, NEW k, NEW e, NEW n, NEW d \in Begun(os, k, e, n)
  PROVE  Fresh(d) /\ d.op \in os /\ d.key = k /\ d.epoch = e
<1>1. PICK o \in os : d = Call(o, k, e, n)
  BY DEF Begun, Asynchronous
<1>2. /\ d.op = o /\ d.key = k /\ d.epoch = e
      /\ d.base = [s \in Rebuilt(o) |-> view[s]]
      /\ d.sent = [f \in Op(o).sends |-> view[f]]
  BY <1>1 DEF Call
<1>3. QED
  BY <1>2 DEF Fresh, Op

\* What pressing a control does, slot by slot.
Shown(o, k, s) ==
  \/ view'[s] = Blank /\ s \in page.ops[o].blanks \union page.resets
  \/ /\ s \in page.ops[o].opens \ page.ops[o].blanks
     /\ view'[s] = [of |-> k, has |-> view[Mirror(s)].has, edits |-> 0]
  \/ view'[s] = view[s] /\ s \notin page.ops[o].blanks \union page.ops[o].opens

\* Pressing a control starts it, and loads if the selection turns.
LEMMA Pressed ==
  ASSUME TypeInv, NEW o \in DOMAIN page.ops, Press(o)
  PROVE  \E k \in Targets(o) : \E os, e :
           /\ k # Nil /\ calls' = calls \union Begun(os, k, e, moves + 1)
           /\ \A q \in os : q = o \/ (q \in page.loads /\ page.ops[o].selects)
           /\ sel' = IF page.ops[o].selects THEN k ELSE sel
           /\ epoch' = IF page.ops[o].selects THEN epoch + 1 ELSE epoch
           /\ sel' # sel => mode = "roaming" \/ calls = {}
           /\ Visible /\ page.ops[o].user /\ \A t \in page.ops[o].needs : Loaded(t)
           /\ \A s \in page.slots : Shown(o, k, s)
<1>1. PICK k \in Targets(o) :
        LET turns == Op(o).selects /\ k # sel
            started == {o} \union IF turns THEN Effects ELSE {}
            e == IF Op(o).selects THEN epoch + 1 ELSE epoch
        IN  /\ turns => MaySelect
            /\ sel' = IF Op(o).selects THEN k ELSE sel
            /\ epoch' = e
            /\ calls' = calls \union Begun(started, k, e, moves + 1)
            /\ up' = up \union Raised(started)
            /\ view' = [s \in page.slots |->
                 IF s \in Op(o).blanks \union (IF turns THEN page.resets ELSE {}) THEN Blank
                 ELSE IF s \in Op(o).opens
                   THEN [of |-> k, has |-> view[Mirror(s)].has, edits |-> 0]
                 ELSE view[s]]
  BY DEF Press
<1> DEFINE turns == Op(o).selects /\ k # sel
           started == {o} \union IF turns THEN Effects ELSE {}
           e == IF Op(o).selects THEN epoch + 1 ELSE epoch
<1>2. k # Nil
  <2>1. k \in {sel} \/ k \in Keys \/ k # Nil
    BY DEF Targets
  <2>2. QED
    BY <2>1, KeysAssumption DEF TypeInv
<1>3. \A q \in started : q = o \/ (q \in page.loads /\ page.ops[o].selects)
  BY DEF Effects, Op
<1>4. sel' # sel => mode = "roaming" \/ calls = {}
  BY <1>1 DEF MaySelect
<1>5. Visible /\ page.ops[o].user /\ \A t \in page.ops[o].needs : Loaded(t)
  BY DEF Press, Op
<1>6. ASSUME NEW s \in page.slots PROVE Shown(o, k, s)
  <2>1. view'[s] = IF s \in Op(o).blanks \union (IF turns THEN page.resets ELSE {}) THEN Blank
                   ELSE IF s \in Op(o).opens THEN [of |-> k, has |-> view[Mirror(s)].has, edits |-> 0]
                   ELSE view[s]
    BY <1>1
  <2> HIDE DEF turns
  <2>2. Op(o) = page.ops[o]
    BY DEF Op
  <2>3. QED
    BY <2>1, <2>2 DEF Shown
<1>7. calls' = calls \union Begun(started, k, e, moves + 1)
  BY <1>1
<1>8. /\ sel' = IF page.ops[o].selects THEN k ELSE sel
      /\ epoch' = IF page.ops[o].selects THEN epoch + 1 ELSE epoch
  BY <1>1 DEF Op
<1> HIDE DEF started, e, turns
<1>9. QED
  BY <1>2, <1>3, <1>4, <1>5, <1>6, <1>7, <1>8

\* A handler was under way before, or is an effect or a control.
LEMMA Origins ==
  ASSUME TypeInv, [Next]_vars, NEW d \in calls'
  PROVE  \/ \E c \in calls : Same(c, d)
         \/ /\ Fresh(d) /\ d.key = sel'
            /\ d.op \in page.loads \/ \E c \in calls : d.op \in Spawns(page, c.op)
         \/ /\ Fresh(d) /\ d.op \in DOMAIN page.ops /\ Press(d.op) /\ d.key \in Targets(d.op)
            /\ sel' = IF page.ops[d.op].selects THEN d.key ELSE sel
<1> DEFINE Loads(q) == q \in page.loads \/ \E c \in calls : q \in Spawns(page, c.op)
<1>1. ASSUME d \in calls PROVE \E c \in calls : Same(c, d)
  BY <1>1 DEF Same
<1>2. ASSUME NEW os, NEW n, d \in Begun(os, sel', epoch', n), \A q \in os : Loads(q)
      PROVE  Fresh(d) /\ d.key = sel' /\ Loads(d.op)
  <2>1. PICK k, e : k = sel' /\ e = epoch'
    OBVIOUS
  <2>2. d \in Begun(os, k, e, n)
    BY <1>2, <2>1
  <2> HIDE DEF Loads
  <2>3. Fresh(d) /\ d.op \in os /\ d.key = k /\ d.epoch = e
    BY <2>2, BegunFresh
  <2>4. QED
    BY <1>2, <2>1, <2>3
<1>3. \A q \in Effects : Loads(q)
  BY DEF Effects
<1>4. ASSUME NEW o \in DOMAIN page.ops, Press(o)
      PROVE  \/ d \in calls
             \/ Fresh(d) /\ d.key = sel' /\ d.op \in page.loads
             \/ /\ Fresh(d) /\ d.op = o /\ d.key \in Targets(o)
                /\ sel' = IF page.ops[o].selects THEN d.key ELSE sel
  <2>1. PICK k \in Targets(o) : \E os, e :
           /\ k # Nil /\ calls' = calls \union Begun(os, k, e, moves + 1)
           /\ \A q \in os : q = o \/ (q \in page.loads /\ page.ops[o].selects)
           /\ sel' = IF page.ops[o].selects THEN k ELSE sel
           /\ epoch' = IF page.ops[o].selects THEN epoch + 1 ELSE epoch
           /\ sel' # sel => mode = "roaming" \/ calls = {}
           /\ Visible /\ page.ops[o].user /\ \A t \in page.ops[o].needs : Loaded(t)
           /\ \A s \in page.slots : Shown(o, k, s)
    BY <1>4, Pressed
  <2>2. PICK os, e : /\ calls' = calls \union Begun(os, k, e, moves + 1)
                     /\ \A q \in os : q = o \/ (q \in page.loads /\ page.ops[o].selects)
                     /\ sel' = IF page.ops[o].selects THEN k ELSE sel
    BY <2>1
  <2>3. PICK n : n = moves + 1
    OBVIOUS
  <2>4. ASSUME d \notin calls PROVE Fresh(d) /\ d.op \in os /\ d.key = k /\ d.epoch = e
    BY <2>2, <2>3, <2>4, BegunFresh
  <2>5. QED
    BY <2>2, <2>4
<1>5. ASSUME NEW o \in Timers, Polling(o) PROVE d \in calls
  BY <1>5, PollingChanges
<1>6. ASSUME NEW k \in Keys, Move(k) PROVE d \in calls \/ (Fresh(d) /\ d.key = sel' /\ Loads(d.op))
  <2>1. calls' = calls \union Begun(Effects, sel', epoch', moves + 1)
    BY <1>6 DEF Move
  <2>2. QED
    BY <1>2, <1>3, <2>1
<1>7. ASSUME NEW f \in page.forms, Type(f) PROVE d \in calls \/ (Fresh(d) /\ d.key = sel' /\ Loads(d.op))
  <2>1. PICK os : os \subseteq Effects /\ calls' = calls \union Begun(os, sel', epoch', moves + 1)
    BY <1>7 DEF Type
  <2>2. QED
    BY <1>2, <1>3, <2>1
<1>8. ASSUME NEW c \in calls, Serve(c) \/ Answer(c) \/ Fail(c)
      PROVE  (\E b \in calls : Same(b, d)) \/ (Fresh(d) /\ d.key = sel' /\ Loads(d.op))
  <2>1. PICK R, spawns, flags :
           /\ Goes(c, R, spawns) /\ Drops(c, R, flags) /\ up' = flags \union Raised(spawns)
           /\ Answer(c) /\ Len(page.ops[c.op].steps) = 1 => R = {}
           /\ spawns # {} => Answer(c)
    BY <1>8, RequestsGo
  <2>2. spawns \subseteq Spawns(page, c.op)
    BY <2>1, GoesOps
  <2>3. /\ epoch' = epoch /\ sel' = sel
        /\ \A b \in R : b.op = c.op /\ b.epoch = c.epoch /\ b.key = c.key /\ Carries(c, b)
        /\ calls' = ((calls \ {c}) \union R) \union Begun(spawns, sel, epoch, c.n)
    BY <2>1 DEF Goes, Follows
  <2>4. CASE d \in R
    BY <2>3, <2>4 DEF Same, Carries
  <2>5. CASE d \in Begun(spawns, sel', epoch', c.n)
    BY <1>2, <2>2, <2>5
  <2>6. QED
    BY <1>1, <2>3, <2>4, <2>5
<1>9. CASE UNCHANGED vars
  BY <1>1, <1>9 DEF vars
<1>10. QED
  BY <1>1, <1>4, <1>5, <1>6, <1>7, <1>8, <1>9 DEF Next

(***************************************************************************)
(* What answers and failures do to a slot.                                 *)
(***************************************************************************)
\* What an answer is applied to: a slot, or the list that the handler has seen.
LEMMA AnsweredSlot ==
  ASSUME TypeInv, NEW c \in calls, Answer(c), NEW s \in page.slots, SlotOf(view[s]),
         s \in At(c).rebuilds => SlotOf(c.base[s])
  PROVE  /\ SlotOf(view'[s])
         /\ \/ /\ view'[s].of = view[s].of
               /\ ~(Live(c) /\ s \in At(c).reads /\ s \notin At(c).clears \union At(c).empties)
            \/ s \in page.derives /\ view'[s].of = sel
            \/ view'[s].of = Nil /\ Live(c) /\ s \in At(c).clears
            \/ view'[s].of = c.key /\ Live(c) /\ s \in (At(c).reads \union At(c).appends) \ At(c).clears
            \/ view'[s].of = c.base[s].of /\ Live(c) /\ s \in At(c).rebuilds \ At(c).clears
         /\ Live(c) /\ s \in At(c).clears \ page.derives => view'[s].of = Nil
<1>1. PICK seen \in Seen(c) :
         view' = [r \in page.slots |->
                    IF ~Live(c) THEN view[r]
                    ELSE IF Derived(c, r)
                      THEN [of |-> sel, has |-> Applied(c, seen, Mirror(r)).has, edits |-> 0]
                    ELSE Applied(c, seen, r)]
  BY DEF Answer
<1>2. view'[s] = IF ~Live(c) THEN view[s]
                 ELSE IF Derived(c, s)
                   THEN [of |-> sel, has |-> Applied(c, seen, Mirror(s)).has, edits |-> 0]
                 ELSE Applied(c, seen, s)
  BY <1>1
<1>3. CASE ~Live(c)
  BY <1>2, <1>3
<1>4. CASE Live(c) /\ Derived(c, s)
  <2>1. s \in page.derives
    BY <1>4 DEF Derived
  <2>2. view'[s] = [of |-> sel, has |-> Applied(c, seen, Mirror(s)).has, edits |-> 0]
    BY <1>2, <1>4
  <2>3. view'[s].of = sel /\ SlotOf(view'[s])
    BY <2>2 DEF SlotOf
  <2>4. QED
    BY <2>1, <2>3
<1>5. CASE Live(c) /\ ~Derived(c, s)
  <2> DEFINE st == At(c)
             own == IF Mirror(s) \in DOMAIN c.wrote THEN {c.wrote[Mirror(s)]} ELSE {}
             row == c.key = view[s].of \/ s \in page.shared
  <2>1. view'[s] =
          IF s \in st.clears THEN Blank
          ELSE IF s \in st.empties THEN [view[s] EXCEPT !.edits = 0]
          ELSE IF s \in st.reads THEN
            [of |-> c.key, has |-> 1..seen[s],
             edits |-> IF s \in st.keeps /\ view[s].of = c.key THEN view[s].edits ELSE 0]
          ELSE IF s \in st.rebuilds THEN [c.base[s] EXCEPT !.has = @ \union own]
          ELSE IF s \in st.patches /\ Loaded(s) /\ row THEN [view[s] EXCEPT !.has = Patched(c, s, own)]
          ELSE IF s \in st.drops /\ Loaded(s) /\ row THEN [view[s] EXCEPT !.has = @ \union own]
          ELSE IF s \in st.appends THEN
            [of |-> c.key, has |-> (IF row THEN view[s].has ELSE {}) \union own, edits |-> 0]
          ELSE view[s]
    BY <1>2, <1>5 DEF Applied
  <2> HIDE DEF st, own, row
  <2>2. CASE s \in st.clears
    <3>1. view'[s] = [of |-> Nil, has |-> {}, edits |-> 0]
      BY <2>1, <2>2 DEF Blank
    <3>2. SlotOf(view'[s]) /\ view'[s].of = Nil
      BY <3>1 DEF SlotOf
    <3>3. QED
      BY <1>5, <2>2, <3>2 DEF st
  <2>3. CASE s \notin st.clears /\ s \in st.empties
    <3>1. view'[s] = [view[s] EXCEPT !.edits = 0]
      BY <2>1, <2>3
    <3>2. SlotOf(view'[s]) /\ view'[s].of = view[s].of
      BY <3>1, Edited
    <3>3. QED
      BY <2>3, <3>2 DEF st
  <2>4. CASE s \notin st.clears \union st.empties /\ s \in st.reads
    <3>1. view'[s] = [of |-> c.key, has |-> 1..seen[s],
                      edits |-> IF s \in st.keeps /\ view[s].of = c.key THEN view[s].edits ELSE 0]
      BY <2>1, <2>4
    <3>2. SlotOf(view'[s]) /\ view'[s].of = c.key
      BY <3>1 DEF SlotOf
    <3>3. QED
      BY <1>5, <2>4, <3>2 DEF st
  <2>5. CASE s \notin st.clears \union st.empties \union st.reads /\ s \in st.rebuilds
    <3>1. view'[s] = [c.base[s] EXCEPT !.has = @ \union own]
      BY <2>1, <2>5
    <3>2. PICK v, w : v = c.base[s] /\ w = v.has \union own
      OBVIOUS
    <3>3. SlotOf(v) /\ view'[s] = [v EXCEPT !.has = w]
      BY <2>5, <3>1, <3>2 DEF st
    <3>4. SlotOf(view'[s]) /\ view'[s].of = v.of
      BY <3>3, Edited
    <3>5. QED
      BY <1>5, <2>5, <3>2, <3>4 DEF st
  <2>6. CASE s \notin st.clears \union st.empties \union st.reads \union st.rebuilds
    <3>1. \/ \E w : view'[s] = [view[s] EXCEPT !.has = w]
          \/ s \in st.appends /\
             view'[s] = [of |-> c.key, has |-> (IF row THEN view[s].has ELSE {}) \union own, edits |-> 0]
          \/ view'[s] = view[s]
      BY <2>1, <2>6
    <3>2. ASSUME NEW w, view'[s] = [view[s] EXCEPT !.has = w]
          PROVE  SlotOf(view'[s]) /\ view'[s].of = view[s].of
      BY <3>2, Edited
    <3>3. CASE view'[s] = view[s]
      BY <2>6, <3>3 DEF st
    <3>4. CASE /\ s \in st.appends
               /\ view'[s] = [of |-> c.key, has |-> (IF row THEN view[s].has ELSE {}) \union own, edits |-> 0]
      <4>1. SlotOf(view'[s]) /\ view'[s].of = c.key
        BY <3>4 DEF SlotOf
      <4>2. QED
        BY <1>5, <2>6, <3>4, <4>1 DEF st
    <3>5. QED
      BY <2>6, <3>1, <3>2, <3>3, <3>4 DEF st
  <2>7. QED
    BY <2>2, <2>3, <2>4, <2>5, <2>6
<1>6. QED
  BY <1>3, <1>4, <1>5

\* A slot is emptied when a request fails, or it stays.
LEMMA FailedSlot ==
  ASSUME NEW c, Fail(c), NEW s \in page.slots, SlotOf(view[s])
  PROVE  /\ SlotOf(view'[s])
         /\ view'[s].of = IF Live(c) /\ s \in At(c).lost THEN Nil ELSE view[s].of
<1>1. view'[s] = IF Live(c) /\ s \in At(c).lost THEN [of |-> Nil, has |-> {}, edits |-> 0] ELSE view[s]
  BY DEF Fail, Blank
<1>2. QED
  BY <1>1 DEF SlotOf

\* The other handlers are not concerned by a request.
LEMMA OthersStay ==
  ASSUME TypeInv, NEW c \in calls, Serve(c) \/ Answer(c) \/ Fail(c), NEW d \in calls, d # c
  PROVE  d \in calls'
<1>1. PICK R, spawns, flags :
         /\ Goes(c, R, spawns) /\ Drops(c, R, flags) /\ up' = flags \union Raised(spawns)
         /\ Answer(c) /\ Len(page.ops[c.op].steps) = 1 => R = {}
         /\ spawns # {} => Answer(c)
  BY RequestsGo
<1>2. QED
  BY <1>1 DEF Goes

(***************************************************************************)
(* The selection is followed: a slot of one's own is empty or of the       *)
(* selection, or it is being loaded again.                                 *)
(***************************************************************************)
\* What a handler brings is wanted: who roams has not gone elsewhere since.
Wanted(c) == mode = "roaming" => c.epoch = epoch

Reloading(s) == \E c \in calls : LiveAt(page, epoch, c) /\ Wanted(c) /\ Reloads(page, c.op, s)

InStep(s) ==
  /\ SlotOf(view[s])
  /\ view[s].of \in {Nil, sel} \/ Reloading(s)
  /\ ~Filled(page, s) => view[s].of = Nil
  /\ \A o \in page.loads : Reloads(page, o, s) /\ view[s].of # Nil =>
       \A t \in page.ops[o].needs : view[t].of # Nil

BuiltFrom(s) ==
  \A c \in calls : s \in Rebuilt(c.op) => SlotOf(c.base[s]) /\ c.base[s].of \in {Nil, sel}

Aimed == \A c \in calls : Wanted(c) /\ Aims(page, c.op) => c.key = sel

Followed == Aimed /\ \A s \in Own(page, mode) : InStep(s) /\ BuiltFrom(s)

\* A handler from before is wanted only if the selection is still the same.
LEMMA StillWanted ==
  ASSUME TypeInv, [Next]_vars, NEW c \in calls, mode = "roaming" => c.epoch = epoch'
  PROVE  sel' = sel /\ Wanted(c) /\ (mode = "roaming" => epoch' = epoch)
<1>1. c.epoch \in 0..epoch /\ epoch \in Nat
  BY DEF TypeInv
<1>2. ASSUME NEW o \in DOMAIN page.ops, Press(o)
      PROVE  /\ sel' # sel => mode = "roaming" /\ epoch' = epoch + 1
             /\ epoch' = epoch \/ epoch' = epoch + 1
  <2>1. PICK k \in Targets(o) : \E os, e :
           /\ k # Nil /\ calls' = calls \union Begun(os, k, e, moves + 1)
           /\ \A q \in os : q = o \/ (q \in page.loads /\ page.ops[o].selects)
           /\ sel' = IF page.ops[o].selects THEN k ELSE sel
           /\ epoch' = IF page.ops[o].selects THEN epoch + 1 ELSE epoch
           /\ sel' # sel => mode = "roaming" \/ calls = {}
           /\ Visible /\ page.ops[o].user /\ \A t \in page.ops[o].needs : Loaded(t)
           /\ \A s \in page.slots : Shown(o, k, s)
    BY <1>2, Pressed
  <2>2. QED
    BY <2>1
<1>3. ASSUME NEW k \in Keys, Move(k) PROVE mode = "roaming" /\ epoch' = epoch + 1
  BY <1>3 DEF Move, MaySelect
<1>4. ASSUME NEW o \in Timers, Polling(o) PROVE UNCHANGED <<sel, epoch>>
  BY <1>4, PollingChanges
<1>5. ASSUME NEW f \in page.forms, Type(f) PROVE UNCHANGED <<sel, epoch>>
  BY <1>5 DEF Type
<1>6. ASSUME NEW b \in calls, Serve(b) \/ Answer(b) \/ Fail(b) PROVE UNCHANGED <<sel, epoch>>
  BY <1>6 DEF Serve, Answer, Fail
<1>7. CASE UNCHANGED vars
  BY <1>1, <1>7 DEF vars, Wanted
<1>8. QED
  BY <1>1, <1>2, <1>3, <1>4, <1>5, <1>6, <1>7 DEF Next, Wanted

\* Handlers under way are about the selection, if they are about a slot that is.
LEMMA AimedKept ==
  ASSUME TypeInv, [Next]_vars, UNCHANGED <<page, mode>>, Followed
  PROVE  Aimed'
<1> SUFFICES ASSUME NEW d \in calls', mode = "roaming" => d.epoch = epoch', Aims(page, d.op)
             PROVE  d.key = sel'
  BY DEF Aimed, Wanted
<1>1. ASSUME NEW c \in calls, Same(c, d) PROVE d.key = sel'
  BY <1>1, StillWanted DEF Same, Followed, Aimed
<1>2. ASSUME d.op \in DOMAIN page.ops, d.key \in Targets(d.op), ~page.ops[d.op].selects, sel' = sel PROVE d.key = sel'
  BY <1>2 DEF Aims, Targets, Op
<1>3. CASE Fresh(d) /\ d.op \in DOMAIN page.ops /\ Press(d.op) /\ d.key \in Targets(d.op) /\ sel' = IF page.ops[d.op].selects THEN d.key ELSE sel
  BY <1>2, <1>3
<1>4. QED
  BY <1>1, <1>3, Origins

\* The flags of the loads under way are up.
Flagged == \A c \in calls : c.op \in page.loads /\ LiveAt(page, epoch, c) => page.ops[c.op].up \subseteq up

\* Lists are built from what is of the selection.
LEMMA BuiltKept ==
  ASSUME TypeInv, [Next]_vars, UNCHANGED <<page, mode>>, Followed, WellDescribed(page),
         NEW s \in Own(page, mode), Reloading(s) => Flagged
  PROVE  BuiltFrom(s)'
<1> SUFFICES ASSUME NEW d \in calls', s \in Rebuilt(d.op), d.op \in DOMAIN page.ops
             PROVE  SlotOf(d.base[s]) /\ d.base[s].of \in {Nil, sel'}
  <2>1. \A d \in calls' : d.op \in DOMAIN page'.ops
    BY TypesKept DEF TypeInv, HandlerOf
  <2>2. \A o : Rebuilt(o)' = Rebuilt(o)
    BY DEF Rebuilt, Op
  <2>3. QED
    BY <2>1, <2>2 DEF BuiltFrom
<1>1. /\ mode # "roaming" /\ page.ops[d.op].user /\ ~page.ops[d.op].selects
      /\ \A q \in DOMAIN page.ops : d.op \notin Spawns(page, q)
      /\ \A l \in page.loads : Reloads(page, l, s) => page.ops[l].up \cap page.hides # {}
  <2>1. PICK i \in DOMAIN page.ops[d.op].steps : s \in page.ops[d.op].steps[i].rebuilds
    BY DEF Rebuilt, Op
  <2>2. FilledForSelection(page, mode, s)
    BY DEF Own
  <2>3. QED
    BY <2>1, <2>2 DEF FilledForSelection
<1>2. d.op \notin page.loads
  BY <1>1 DEF WellDescribed
<1>3. \A c \in calls : c.op \in DOMAIN page.ops
  BY DEF TypeInv, HandlerOf
<1>4. ASSUME NEW c \in calls, Same(c, d) PROVE SlotOf(d.base[s]) /\ d.base[s].of \in {Nil, sel'}
  <2>1. sel' = sel
    BY <1>1, StillWanted
  <2>2. QED
    BY <1>4, <2>1 DEF Same, Followed, BuiltFrom
<1>5. ASSUME Fresh(d), Press(d.op), sel' = sel PROVE SlotOf(d.base[s]) /\ d.base[s].of \in {Nil, sel'}
  <2>1. d.base[s] = view[s] /\ InStep(s)
    BY <1>5 DEF Fresh, Followed
  <2>2. ~Reloading(s)
    <3>1. SUFFICES ASSUME NEW c \in calls, LiveAt(page, epoch, c), Reloads(page, c.op, s), Reloading(s) PROVE FALSE
      BY DEF Reloading
    <3>2. page.hides \cap up = {}
      BY <1>5 DEF Press, Visible
    <3>3. page.hides \cap page.ops[c.op].up = {}
      BY <3>1, <3>2 DEF Flagged, Reloads
    <3>4. QED
      BY <1>1, <3>1, <3>3 DEF Reloads
  <2>3. QED
    BY <1>5, <2>1, <2>2 DEF InStep
<1>6. QED
  BY <1>1, <1>2, <1>3, <1>4, <1>5, Origins

\* A load under way goes on unless it is answered or fails.
LEMMA StillReloading ==
  ASSUME TypeInv, [Next]_vars, UNCHANGED <<page, mode, epoch>>, NEW s, NEW c \in calls,
         LiveAt(page, epoch, c), Wanted(c), Reloads(page, c.op, s), c \in calls' \/ Serve(c)
  PROVE  Reloading(s)'
<1>1. SUFFICES \E d \in calls' : LiveAt(page, epoch, d) /\ (mode = "roaming" => d.epoch = epoch) /\ Reloads(page, d.op, s)
  BY DEF Reloading, Wanted, LiveAt
<1>2. CASE c \in calls'
  BY <1>2 DEF Wanted
<1>3. CASE Serve(c)
  <2>1. PICK d, w : d = [c EXCEPT !.wrote = w] /\ d \in calls'
    BY <1>3 DEF Serve
  <2>2. d.op = c.op /\ d.epoch = c.epoch /\ d.pos = c.pos
    BY <2>1 DEF TypeInv, HandlerOf
  <2>3. QED
    BY <2>1, <2>2 DEF Wanted, LiveAt
<1>4. QED
  BY <1>2, <1>3

\* What a load needs stays there while what it has loaded does.
LEMMA NeedsStay ==
  ASSUME TypeInv, SlotsInv, [Next]_vars, NEW s \in Own(page, mode), InStep(s),
         NEW o \in page.loads, Reloads(page, o, s), view[s].of # Nil
  PROVE  \A t \in page.ops[o].needs : view'[t].of # Nil
<1> SUFFICES ASSUME NEW t \in page.ops[o].needs PROVE view'[t].of # Nil
  OBVIOUS
<1>1. Loaded(t)
  BY DEF InStep, Loaded
<1>2. ~Quiet(page, o)
  BY DEF Own, LoadedForSelection
<1>3. QED
  BY <1>1, <1>2, StaysLoaded

\* A slot that stays what it is stays in step.
LEMMA SameStays ==
  ASSUME TypeInv, SlotsInv, [Next]_vars, UNCHANGED <<page, mode, sel, epoch>>,
         NEW s \in Own(page, mode), InStep(s),
         SlotOf(view'[s]), view'[s].of = view[s].of,
         \A c \in calls : LiveAt(page, epoch, c) /\ Reloads(page, c.op, s) => c \in calls' \/ Serve(c)
  PROVE  InStep(s)'
<1>1. view[s].of \in {Nil, sel} \/ Reloading(s)'
  BY StillReloading DEF InStep, Reloading
<1>2. \A o \in page.loads : Reloads(page, o, s) /\ view[s].of # Nil =>
         \A t \in page.ops[o].needs : view'[t].of # Nil
  BY NeedsStay
<1>3. QED
  BY <1>1, <1>2 DEF InStep

\* One that is emptied is in step.
LEMMA EmptyStays ==
  ASSUME NEW s, SlotOf(view'[s]), view'[s].of = Nil PROVE InStep(s)'
  BY DEF InStep

\* A control leaves it so,
LEMMA PressInStep ==
  ASSUME TypeInv, SlotsInv, UNCHANGED <<page, mode>>, NEW o \in DOMAIN page.ops, Press(o),
         Followed, NEW s \in Own(page, mode)
  PROVE  InStep(s)'
<1>1. PICK k \in Targets(o) : \E os, e :
         /\ k # Nil /\ calls' = calls \union Begun(os, k, e, moves + 1)
         /\ \A q \in os : q = o \/ (q \in page.loads /\ page.ops[o].selects)
         /\ sel' = IF page.ops[o].selects THEN k ELSE sel
         /\ epoch' = IF page.ops[o].selects THEN epoch + 1 ELSE epoch
         /\ sel' # sel => mode = "roaming" \/ calls = {}
         /\ Visible /\ page.ops[o].user /\ \A t \in page.ops[o].needs : Loaded(t)
         /\ \A r \in page.slots : Shown(o, k, r)
  BY Pressed
<1>2. [Next]_vars
  BY DEF Next
<1>3. /\ s \in page.slots /\ FilledForSelection(page, mode, s) /\ LoadedForSelection(page, mode, s)
      /\ InStep(s)
  BY DEF Own, Followed
<1>4. CASE view'[s] = Blank
  <2>1. view'[s] = [of |-> Nil, has |-> {}, edits |-> 0]
    BY <1>4 DEF Blank
  <2>2. SlotOf(view'[s]) /\ view'[s].of = Nil
    BY <2>1 DEF SlotOf
  <2>3. QED
    BY <2>2, EmptyStays
<1>5. CASE s \in page.ops[o].opens /\ view'[s] = [of |-> k, has |-> view[Mirror(s)].has, edits |-> 0]
  <2>1. k = sel'
    <3>1. Aims(page, o)
      BY <1>3, <1>5 DEF FilledForSelection
    <3>2. CASE ~page.ops[o].selects /\ page.ops[o].target = "sel"
      BY <1>1, <3>2 DEF Targets, Op
    <3>3. QED
      BY <1>1, <3>1, <3>2 DEF Aims
  <2>2. SlotOf(view'[s]) /\ view'[s].of = k
    BY <1>5 DEF SlotOf
  <2>3. Filled(page, s)
    BY <1>5 DEF Filled
  <2>4. \A l \in page.loads : Reloads(page, l, s) => page.ops[l].needs = {}
    BY <1>3, <1>5 DEF LoadedForSelection
  <2>5. QED
    BY <2>1, <2>2, <2>3, <2>4 DEF InStep
<1>6. CASE view'[s] = view[s] /\ s \notin page.ops[o].blanks \union page.ops[o].opens
  <2>1. CASE page.ops[o].selects
    <3>1. ~Filled(page, s)
      BY <1>3, <1>6, <2>1 DEF FilledForSelection
    <3>2. QED
      BY <1>3, <1>6, <3>1, EmptyStays DEF InStep
  <2>2. CASE ~page.ops[o].selects
    <3>1. sel' = sel /\ epoch' = epoch /\ calls \subseteq calls'
      BY <1>1, <2>2
    <3>2. SlotOf(view'[s]) /\ view'[s].of = view[s].of
      BY <1>3, <1>6 DEF InStep
    <3>3. QED
      BY <1>2, <1>3, <3>1, <3>2, SameStays
  <2>3. QED
    BY <2>1, <2>2
<1>7. QED
  BY <1>1, <1>3, <1>4, <1>5, <1>6 DEF Shown

\* another app in the url empties or loads it,
LEMMA MoveInStep ==
  ASSUME TypeInv, SlotsInv, WellDescribed(page), UNCHANGED <<page, mode>>, NEW k \in Keys, Move(k),
         Followed, NEW s \in Own(page, mode)
  PROVE  InStep(s)'
<1>1. /\ s \in page.slots /\ LoadedForSelection(page, mode, s) /\ InStep(s)
  BY DEF Own, Followed
<1>2. /\ view'[s] = IF s \in page.resets THEN [of |-> Nil, has |-> {}, edits |-> 0] ELSE view[s]
      /\ page.moves
  BY <1>1 DEF Move, Blank
<1>3. CASE s \in page.resets
  <2>1. SlotOf(view'[s]) /\ view'[s].of = Nil
    BY <1>2, <1>3 DEF SlotOf
  <2>2. QED
    BY <2>1, EmptyStays
<1>4. CASE s \notin page.resets
  <2>1. view'[s] = view[s] /\ SlotOf(view'[s])
    BY <1>1, <1>2, <1>4 DEF InStep
  <2>2. CASE view[s].of = Nil
    BY <2>1, <2>2, EmptyStays
  <2>3. CASE view[s].of # Nil
    <3>1. Filled(page, s)
      BY <1>1, <2>3 DEF InStep
    <3>2. PICK o \in page.loads : Reloads(page, o, s)
      BY <1>1, <1>2, <1>4, <3>1 DEF LoadedForSelection
    <3>3. o \in Effects
      BY <1>1, <2>3, <3>2 DEF InStep, Effects, Loaded, Op
    <3>4. Starts(Effects, k, epoch + 1, moves + 1)
      BY OthersStart
    <3>5. o \in DOMAIN page.ops /\ page.ops[o].steps # <<>>
      BY <3>2 DEF WellDescribed, Reloads
    <3>6. PICK n, e : n = moves + 1 /\ e = epoch + 1
      OBVIOUS
    <3>7. Effects \subseteq DOMAIN page.ops /\ k # Nil
      BY <3>4 DEF Starts
    <3>8. /\ \A c \in Begun(Effects, k, e, n) :
              /\ HandlerOf(page, c) /\ c.op \in Effects /\ c.epoch = e /\ c.key = k /\ c.pos = 1
              /\ LiveAt(page, e, c)
              /\ FlagsOf(page, c) = page.ops[c.op].up \union page.ops[c.op].steps[1].during
          /\ \A q \in Effects : page.ops[q].steps # <<>> => \E c \in Begun(Effects, k, e, n) : c.op = q
          /\ \A c, d \in Begun(Effects, k, e, n) : c.op = d.op => c = d
          /\ Raised(Effects) = UNION {FlagsOf(page, c) : c \in Begun(Effects, k, e, n)}
      BY <3>7, BegunAre
    <3>9. PICK c \in Begun(Effects, k, e, n) : c.op = o /\ c.epoch = e /\ LiveAt(page, e, c)
      BY <3>3, <3>5, <3>8
    <3>10. c \in calls' /\ epoch' = e
      BY <3>4, <3>6, <3>9 DEF Starts
    <3>11. Reloading(s)'
      BY <3>2, <3>9, <3>10 DEF Reloading, Wanted, LiveAt
    <3>12. \A q \in page.loads : Reloads(page, q, s) => \A t \in page.ops[q].needs : view'[t].of # Nil
      <4>1. [Next]_vars
        BY DEF Next
      <4>2. QED
        BY <1>1, <2>3, <4>1, NeedsStay
    <3>13. QED
      BY <2>1, <3>1, <3>11, <3>12 DEF InStep
  <2>4. QED
    BY <2>2, <2>3
<1>5. QED
  BY <1>3, <1>4

\* typing and timers do not touch it,
LEMMA OthersInStep ==
  ASSUME TypeInv, SlotsInv, UNCHANGED <<page, mode>>, Followed, NEW s \in Own(page, mode),
         \/ \E o \in Timers : Polling(o)
         \/ \E f \in page.forms : Type(f)
         \/ \E c \in calls : Serve(c)
         \/ UNCHANGED vars
  PROVE  InStep(s)'
<1>1. s \in page.slots /\ InStep(s) /\ DOMAIN view = page.slots
  BY DEF Own, Followed, TypeInv
<1>2. [Next]_vars
  BY DEF Next
<1>3. SlotOf(view'[s]) /\ view'[s].of = view[s].of /\ sel' = sel /\ epoch' = epoch
  <2>1. ASSUME NEW f \in page.forms, Type(f)
        PROVE  SlotOf(view'[s]) /\ view'[s].of = view[s].of /\ sel' = sel /\ epoch' = epoch
    <3>1. view'[s] = view[s] \/ \E x : view'[s] = [view[s] EXCEPT !.edits = x]
      BY <1>1, <2>1 DEF Type
    <3>2. ASSUME NEW x, view'[s] = [view[s] EXCEPT !.edits = x]
          PROVE  SlotOf(view'[s]) /\ view'[s].of = view[s].of
      BY <1>1, <3>2, Edited DEF InStep
    <3>3. QED
      BY <1>1, <2>1, <3>1, <3>2 DEF Type, InStep
  <2>2. CASE \E o \in Timers : Polling(o)
    <3>1. s \notin Refreshed(page)
      BY DEF Own, Followers
    <3>2. QED
      BY <1>1, <2>2, <3>1, PollingChanges DEF InStep
  <2>3. CASE \E c \in calls : Serve(c)
    BY <1>1, <2>3 DEF Serve, InStep
  <2>4. CASE UNCHANGED vars
    BY <1>1, <2>4 DEF vars, InStep
  <2>5. QED
    BY <2>1, <2>2, <2>3, <2>4
<1>4. ASSUME NEW c \in calls PROVE c \in calls' \/ Serve(c)
  <2>1. ASSUME NEW o \in Timers, Polling(o) PROVE c \in calls'
    BY <1>4, <2>1, PollingChanges
  <2>2. ASSUME NEW f \in page.forms, Type(f) PROVE c \in calls'
    BY <1>4, <2>2 DEF Type
  <2>3. ASSUME NEW b \in calls, Serve(b) PROVE c \in calls' \/ Serve(c)
    BY <1>4, <2>3, OthersStay
  <2>4. QED
    BY <1>4, <2>1, <2>2, <2>3 DEF vars
<1>5. QED
  BY <1>1, <1>2, <1>3, <1>4, SameStays

\* an answer brings what is of the selection,
LEMMA AnswerInStep ==
  ASSUME TypeInv, SlotsInv, WellDescribed(page), UNCHANGED <<page, mode>>, NEW c \in calls, Answer(c),
         Followed, NEW s \in Own(page, mode),
         \A l \in page.loads : Reloads(page, l, s) => LoadsReady
  PROVE  InStep(s)'
<1>1. /\ s \in page.slots /\ FilledForSelection(page, mode, s) /\ LoadedForSelection(page, mode, s)
      /\ InStep(s) /\ BuiltFrom(s)
  BY DEF Own, Followed
<1>2. [Next]_vars /\ sel' = sel /\ epoch' = epoch
  BY DEF Next, Answer
<1>3. c.op \in DOMAIN page.ops /\ c.pos \in DOMAIN page.ops[c.op].steps
  BY DEF TypeInv, HandlerOf
<1> DEFINE st == page.ops[c.op].steps[c.pos]
<1>4. At(c) = st /\ (Live(c) <=> LiveAt(page, epoch, c))
  BY DEF At, Op, Live, LiveAt
<1>5. s \in st.rebuilds => SlotOf(c.base[s]) /\ c.base[s].of \in {Nil, sel}
  <2>1. s \in st.rebuilds => s \in Rebuilt(c.op)
    BY <1>3 DEF Rebuilt, Op
  <2>2. QED
    BY <1>1, <2>1 DEF BuiltFrom
<1>6. ASSUME Live(c), s \in Fills(st) PROVE c.key = sel /\ Filled(page, s)
  <2>1. Aims(page, c.op) /\ (mode = "roaming" => st.guarded)
    BY <1>1, <1>3, <1>6 DEF FilledForSelection
  <2>2. Wanted(c)
    BY <1>4, <1>6, <2>1 DEF LiveAt, Wanted
  <2>3. Filled(page, s)
    BY <1>3, <1>6 DEF Filled
  <2>4. QED
    BY <2>1, <2>2, <2>3 DEF Followed, Aimed
<1>7. /\ SlotOf(view'[s])
      /\ \/ /\ view'[s].of = view[s].of
            /\ ~(Live(c) /\ s \in st.reads /\ s \notin st.clears \union st.empties)
         \/ s \in page.derives /\ view'[s].of = sel
         \/ view'[s].of = Nil /\ Live(c) /\ s \in st.clears
         \/ view'[s].of = c.key /\ Live(c) /\ s \in (st.reads \union st.appends) \ st.clears
         \/ view'[s].of = c.base[s].of /\ Live(c) /\ s \in st.rebuilds \ st.clears
  <2>1. SlotOf(view[s])
    BY <1>1 DEF InStep
  <2>2. s \in At(c).rebuilds => SlotOf(c.base[s])
    BY <1>4, <1>5
  <2>3. /\ SlotOf(view'[s])
        /\ \/ /\ view'[s].of = view[s].of
              /\ ~(Live(c) /\ s \in At(c).reads /\ s \notin At(c).clears \union At(c).empties)
           \/ s \in page.derives /\ view'[s].of = sel
           \/ view'[s].of = Nil /\ Live(c) /\ s \in At(c).clears
           \/ view'[s].of = c.key /\ Live(c) /\ s \in (At(c).reads \union At(c).appends) \ At(c).clears
           \/ view'[s].of = c.base[s].of /\ Live(c) /\ s \in At(c).rebuilds \ At(c).clears
    BY <1>1, <2>1, <2>2, AnsweredSlot
  <2>4. QED
    BY <1>4, <2>3
<1> HIDE DEF st
<1>8. CASE view'[s].of = Nil
  BY <1>7, <1>8, EmptyStays
<1>9. CASE view'[s].of = view[s].of /\ ~(Live(c) /\ s \in st.reads /\ s \notin st.clears \union st.empties)
  <2>1. ASSUME NEW d \in calls, LiveAt(page, epoch, d), Reloads(page, d.op, s) PROVE d \in calls' \/ Serve(d)
    <3>1. CASE d = c
      <4>1. c.pos = 1
        BY <1>3, <2>1, <3>1 DEF Reloads, WellDescribed
      <4>2. QED
        BY <1>4, <1>9, <2>1, <3>1, <4>1 DEF Reloads, st
    <3>2. CASE d # c
      BY <3>2, OthersStay
    <3>3. QED
      BY <3>1, <3>2
  <2>2. QED
    BY <1>1, <1>2, <1>7, <1>9, <2>1, SameStays
<1>10. ASSUME view'[s].of = sel, s \in page.derives \/ (Live(c) /\ s \in Fills(st)) PROVE InStep(s)'
  <2>1. Filled(page, s)
    BY <1>6, <1>10 DEF Filled
  <2>2. ASSUME NEW l \in page.loads, Reloads(page, l, s), NEW t \in page.ops[l].needs PROVE view'[t].of # Nil
    <3>1. ~Quiet(page, l) /\ s \notin page.derives
      BY <1>1, <2>2 DEF LoadedForSelection
    <3>2. c.op = l
      BY <1>1, <1>3, <1>10, <2>2, <3>1 DEF LoadedForSelection, st
    <3>3. Loaded(t)
      BY <2>2, <3>1, <3>2 DEF LoadsReady
    <3>4. QED
      BY <1>2, <2>2, <3>1, <3>3, StaysLoaded
  <2>3. QED
    BY <1>2, <1>7, <1>10, <2>1, <2>2 DEF InStep
<1>11. CASE view'[s].of = c.key /\ Live(c) /\ s \in (st.reads \union st.appends) \ st.clears
  BY <1>6, <1>10, <1>11 DEF Fills
<1>12. CASE view'[s].of = c.base[s].of /\ Live(c) /\ s \in st.rebuilds \ st.clears
  BY <1>5, <1>8, <1>10, <1>12 DEF Fills
<1>13. QED
  BY <1>7, <1>8, <1>9, <1>10, <1>11, <1>12

\* and a failure empties what was loaded.
LEMMA FailInStep ==
  ASSUME TypeInv, SlotsInv, WellDescribed(page), UNCHANGED <<page, mode>>, NEW c \in calls, Fail(c),
         Followed, NEW s \in Own(page, mode)
  PROVE  InStep(s)'
<1>1. /\ s \in page.slots /\ LoadedForSelection(page, mode, s) /\ InStep(s)
  BY DEF Own, Followed
<1>2. [Next]_vars /\ sel' = sel /\ epoch' = epoch /\ mode = "unlucky"
  BY DEF Next, Fail
<1>3. /\ SlotOf(view'[s])
      /\ view'[s].of = IF Live(c) /\ s \in At(c).lost THEN Nil ELSE view[s].of
  BY <1>1, FailedSlot DEF InStep
<1>4. CASE Live(c) /\ s \in At(c).lost
  BY <1>3, <1>4, EmptyStays
<1>5. CASE ~(Live(c) /\ s \in At(c).lost)
  <2>1. ASSUME NEW d \in calls, LiveAt(page, epoch, d), Reloads(page, d.op, s) PROVE d \in calls' \/ Serve(d)
    <3>1. CASE d = c
      <4>1. c.op \in DOMAIN page.ops /\ c.pos \in DOMAIN page.ops[c.op].steps
        BY DEF TypeInv, HandlerOf
      <4>2. c.pos = 1
        BY <2>1, <3>1, <4>1 DEF Reloads, WellDescribed
      <4>3. s \in At(c).lost
        BY <1>1, <1>2, <2>1, <3>1, <4>2 DEF LoadedForSelection, At, Op, Reloads
      <4>4. Live(c)
        BY <2>1, <3>1 DEF LiveAt, Live, Op
      <4>5. QED
        BY <1>5, <4>3, <4>4
    <3>2. CASE d # c
      BY <3>2, OthersStay
    <3>3. QED
      BY <3>1, <3>2
  <2>2. QED
    BY <1>1, <1>2, <1>3, <1>5, <2>1, SameStays
<1>6. QED
  BY <1>4, <1>5

\* On pages that only load, the flags of a load are up while it runs, and it
\* runs once at a time.
Shielded ==
  \A c \in calls : c.op \in page.loads =>
    page.ops[c.op].up \subseteq up /\ \A d \in calls : d.op = c.op => d = c

\* It is so when a page opens,
LEMMA ShieldedInit == ScreensInit /\ FlagsInv => Shielded
<1> SUFFICES ASSUME ScreensInit, FlagsInv PROVE Shielded
  OBVIOUS
<1>1. /\ up = Raised(FirstEffects) /\ calls = Begun(FirstEffects, sel, 0, 0)
      /\ TypeInv /\ WellDescribed(page)
  BY PageRules DEF ScreensInit, Init, FlagsInv
<1>2. FirstEffects \subseteq DOMAIN page.ops /\ sel # Nil
  BY <1>1 DEF FirstEffects, WellDescribed, TypeInv
<1>3. /\ \A c \in calls : FlagsOf(page, c) = page.ops[c.op].up \union page.ops[c.op].steps[1].during
      /\ \A c, d \in calls : c.op = d.op => c = d
      /\ up = UNION {FlagsOf(page, c) : c \in calls}
  <2>1. PICK e, n : e = 0 /\ n = 0
    OBVIOUS
  <2>2. calls = Begun(FirstEffects, sel, e, n)
    BY <1>1, <2>1
  <2>3. QED
    BY <1>1, <1>2, <2>2, BegunAre
<1>4. QED
  BY <1>3 DEF Shielded

\* what starts keeps it,
LEMMA ShieldedStarts ==
  ASSUME TypeInv, Shielded, page' = page, NEW os, NEW k, NEW e, NEW n, Starts(os, k, e, n),
         up' = up \union Raised(os), (\E o \in os : o \in page.loads) => calls = {}
  PROVE  Shielded'
<1> DEFINE N == Begun(os, k, e, n)
<1>1. calls' = calls \union N /\ os \subseteq DOMAIN page.ops /\ k # Nil
  BY DEF Starts
<1>2. /\ \A c \in N : /\ HandlerOf(page, c) /\ c.op \in os /\ c.epoch = e /\ c.key = k /\ c.pos = 1
                      /\ LiveAt(page, e, c)
                      /\ FlagsOf(page, c) = page.ops[c.op].up \union page.ops[c.op].steps[1].during
      /\ \A c, d \in N : c.op = d.op => c = d
      /\ Raised(os) = UNION {FlagsOf(page, c) : c \in N}
  BY <1>1, BegunAre
<1> HIDE DEF N
<1>3. ASSUME NEW c \in calls', c.op \in page.loads
      PROVE  page.ops[c.op].up \subseteq up' /\ \A d \in calls' : d.op = c.op => d = c
  BY <1>1, <1>2, <1>3 DEF Shielded
<1>4. QED
  BY <1>3 DEF Shielded

\* and so does what goes on or ends.
LEMMA ShieldedRequests ==
  ASSUME TypeInv, Shielded, page' = page, LoadsAlone(page, mode), NEW c \in calls,
         Serve(c) \/ Answer(c) \/ Fail(c)
  PROVE  Shielded'
<1>1. PICK R, spawns, flags :
         /\ Goes(c, R, spawns) /\ Drops(c, R, flags) /\ up' = flags \union Raised(spawns)
         /\ Answer(c) /\ Len(page.ops[c.op].steps) = 1 => R = {}
         /\ spawns # {} => Answer(c)
  BY RequestsGo
<1>2. /\ HandlerOf(page, c)
      /\ spawns \subseteq Spawns(page, c.op)
      /\ \A d \in R : d.op = c.op
      /\ \A d, d2 \in R : d = d2
      /\ \A d \in calls' : (d \in calls /\ d # c) \/ d \in R \/ d.op \in spawns
  BY <1>1, GoesOps
<1>3. c.op \in DOMAIN page.ops /\ c.pos \in DOMAIN page.ops[c.op].steps /\ WellDescribed(page)
  BY <1>2, PageRules DEF HandlerOf
<1>4. \A o \in page.loads : /\ Len(page.ops[o].steps) = 1 /\ o \notin spawns
                            /\ o # c.op => ~Share(page, o, c.op)
  BY <1>2, <1>3 DEF LoadsAlone
<1>5. FlagsOf(page, c) \subseteq Raises(page, c.op)
  BY <1>3 DEF FlagsOf, Raises
<1>6. ASSUME NEW d \in calls, d.op \in page.loads, d.op # c.op PROVE page.ops[d.op].up \subseteq flags
  <2>1. page.ops[d.op].up \cap FlagsOf(page, c) = {}
    BY <1>4, <1>5, <1>6 DEF Share, Raises
  <2>2. up \ FlagsOf(page, c) \subseteq flags
    BY <1>1 DEF Drops, FlagsOf
  <2>3. QED
    BY <1>6, <2>1, <2>2 DEF Shielded
<1>7. ASSUME c.op \in page.loads, R # {} PROVE up \subseteq flags
  <2>1. Len(page.ops[c.op].steps) = 1 /\ DOMAIN page.ops[c.op].steps = 1..Len(page.ops[c.op].steps)
    BY <1>3, <1>4, <1>7 DEF WellDescribed
  <2>2. c.pos = 1
    BY <1>3, <2>1
  <2>3. QED
    BY <1>1, <1>7, <2>1, <2>2 DEF Drops
<1>8. ASSUME NEW d \in calls', d.op \in page.loads
      PROVE  page.ops[d.op].up \subseteq up' /\ \A b \in calls' : b.op = d.op => b = d
  <2>1. d.op \notin spawns
    BY <1>4, <1>8
  <2>2. CASE d \in calls /\ d # c
    <3>1. d.op # c.op
      BY <1>8, <2>2 DEF Shielded
    <3>2. QED
      BY <1>1, <1>2, <1>6, <1>8, <2>1, <2>2, <3>1 DEF Shielded
  <2>3. CASE d \in R
    BY <1>1, <1>2, <1>7, <1>8, <2>1, <2>3 DEF Shielded
  <2>4. QED
    BY <1>2, <2>1, <2>2, <2>3
<1>9. QED
  BY <1>8 DEF Shielded

\* So every step does.
LEMMA ShieldedKept ==
  ASSUME TypeInv, [Next]_vars, UNCHANGED <<page, mode>>, LoadsAlone(page, mode), Shielded
  PROVE  Shielded'
<1>1. mode = "hasty" /\ page.watches = {} /\ WellDescribed(page)
  BY PageRules DEF LoadsAlone
<1>2. ASSUME NEW o \in DOMAIN page.ops, Press(o) PROVE Shielded'
  <2>1. PICK os, k, e :
           /\ Starts(os, k, e, moves + 1) /\ up' = up \union Raised(os)
           /\ page.ops[o].user /\ page.ops[o].idle \cap up = {} /\ (Patient => calls = {})
           /\ \/ os = {o}
              \/ os = {o} \union Effects /\ page.ops[o].selects /\ (mode = "roaming" \/ calls = {})
           /\ e # epoch => page.ops[o].selects
           /\ sel' # Nil
    BY <1>2, PressStarts
  <2>2. o \notin page.loads
    BY <1>1, <2>1 DEF WellDescribed
  <2>3. PICK n : n = moves + 1
    OBVIOUS
  <2>4. (\E q \in os : q \in page.loads) => calls = {}
    BY <1>1, <2>1, <2>2
  <2>5. QED
    BY <2>1, <2>3, <2>4, ShieldedStarts
<1>3. ASSUME NEW k \in Keys, Move(k) PROVE Shielded'
  <2>1. PICK n, e : n = moves + 1 /\ e = epoch + 1
    OBVIOUS
  <2>2. Starts(Effects, k, e, n) /\ up' = up \union Raised(Effects) /\ calls = {}
    BY <1>1, <1>3, <2>1, OthersStart
  <2>3. QED
    BY <2>2, ShieldedStarts
<1>4. CASE (\E o \in Timers : Polling(o)) \/ (\E f \in page.forms : Type(f)) \/ UNCHANGED vars
  <2>1. UNCHANGED <<calls, up>>
    BY <1>1, <1>4, PollingChanges, OthersStart DEF vars
  <2>2. QED
    BY <2>1 DEF Shielded
<1>5. QED
  BY <1>2, <1>3, <1>4, ShieldedRequests DEF Next

\* The selection is followed on pages that are guided by it.
FollowInv ==
  /\ FlagsInv
  /\ LoadsAlone(page, mode) => Shielded
  /\ Guided(name, mode) => Followed

\* What there is to know where a page is guided.
LEMMA GuidedRules ==
  ASSUME FollowInv, Guided(name, mode), NEW s \in Own(page, mode), NEW l \in page.loads, Reloads(page, l, s)
  PROVE  LoadsReady /\ Flagged
<1>1. name \notin LocksWrongly[mode] \/ LoadsAlone(page, mode)
  BY DEF Guided, FollowInv, FlagsInv, TypeInv
<1>2. CASE name \notin LocksWrongly[mode]
  <2>1. Busied(page, epoch, calls, up) /\ LoadsReady
    BY <1>2 DEF Kept, FollowInv, FlagsInv, Holds
  <2>2. ASSUME NEW c \in calls, LiveAt(page, epoch, c) PROVE page.ops[c.op].up \subseteq up
    BY <2>1, <2>2 DEF Busied, FlagsOf
  <2>3. QED
    BY <2>1, <2>2 DEF Flagged
<1>3. CASE LoadsAlone(page, mode)
  BY <1>3 DEF FollowInv, Shielded, Flagged, LoadsReady, LoadsAlone
<1>4. QED
  BY <1>1, <1>2, <1>3

\* So it is when a page opens,
LEMMA FollowInit == ScreensInit => FollowInv
<1> SUFFICES ASSUME ScreensInit PROVE FollowInv
  OBVIOUS
<1>1. FlagsInv
  BY FlagsInit
<1>2. /\ view = [s \in page.slots |-> IF s = "rail" THEN [Blank EXCEPT !.of = sel] ELSE Blank]
      /\ calls = Begun(FirstEffects, sel, 0, 0)
  BY DEF ScreensInit, Init
<1>3. ASSUME NEW s \in Own(page, mode) PROVE SlotOf(view[s]) /\ view[s].of = Nil
  <2>1. view[s] = [of |-> Nil, has |-> {}, edits |-> 0]
    BY <1>2 DEF Own, Blank
  <2>2. QED
    BY <2>1 DEF SlotOf
<1>4. ASSUME NEW c \in calls PROVE Fresh(c) /\ c.key = sel
  BY <1>2, <1>4, BegunFresh
<1>5. Followed
  <2>1. Aimed
    BY <1>4 DEF Aimed
  <2>2. \A s \in Own(page, mode) : InStep(s) /\ BuiltFrom(s)
    BY <1>3, <1>4 DEF InStep, BuiltFrom, Fresh
  <2>3. QED
    BY <2>1, <2>2 DEF Followed
<1>6. QED
  BY <1>1, <1>5, ShieldedInit DEF FollowInv

\* and with every step.
LEMMA FollowKept ==
  ASSUME FollowInv, [Next]_vars, UNCHANGED <<name, page, mode>>, Guided(name, mode)
  PROVE  Followed'
<1>1. TypeInv /\ SlotsInv /\ WellDescribed(page) /\ Followed
  BY PageRules DEF FollowInv, FlagsInv
<1>2. /\ \A s \in Own(page, mode), l \in page.loads : Reloads(page, l, s) => LoadsReady
      /\ \A s \in Own(page, mode) : Reloading(s) => Flagged
  BY GuidedRules DEF Reloading, Reloads
<1>3. Aimed'
  BY <1>1, AimedKept
<1>4. ASSUME NEW s \in Own(page, mode) PROVE BuiltFrom(s)'
  BY <1>1, <1>2, <1>4, BuiltKept
<1>5. ASSUME NEW s \in Own(page, mode) PROVE InStep(s)'
  <2>1. ASSUME NEW o \in DOMAIN page.ops, Press(o) PROVE InStep(s)'
    BY <1>1, <1>5, <2>1, PressInStep
  <2>2. ASSUME NEW k \in Keys, Move(k) PROVE InStep(s)'
    BY <1>1, <1>5, <2>2, MoveInStep
  <2>3. ASSUME NEW c \in calls, Answer(c) PROVE InStep(s)'
    BY <1>1, <1>2, <1>5, <2>3, AnswerInStep
  <2>4. ASSUME NEW c \in calls, Fail(c) PROVE InStep(s)'
    BY <1>1, <1>5, <2>4, FailInStep
  <2>5. CASE \/ \E o \in Timers : Polling(o)
             \/ \E f \in page.forms : Type(f)
             \/ \E c \in calls : Serve(c)
             \/ UNCHANGED vars
    BY <1>1, <1>5, <2>5, OthersInStep
  <2>6. QED
    BY <2>1, <2>2, <2>3, <2>4, <2>5 DEF Next
<1>6. QED
  BY <1>3, <1>4, <1>5 DEF Followed

\* So the whole is inductive.
LEMMA FollowStep == FollowInv /\ [Next]_vars => FollowInv'
<1> SUFFICES ASSUME FollowInv, [Next]_vars PROVE FollowInv'
  OBVIOUS
<1>1. FlagsInv' /\ UNCHANGED <<name, page, mode>>
  BY FlagsStep, TypesKept DEF FollowInv, FlagsInv
<1>2. ASSUME Guided(name, mode) PROVE Followed'
  BY <1>1, <1>2, FollowKept
<1>3. ASSUME LoadsAlone(page, mode) PROVE Shielded'
  BY <1>1, <1>3, ShieldedKept DEF FollowInv, FlagsInv
<1>4. QED
  BY <1>1, <1>2, <1>3 DEF FollowInv

(***************************************************************************)
(* Whatever a page offers to read or edit belongs to the selection.        *)
(***************************************************************************)
THEOREM SelectionIsShown == ScreensSpec => []PagesShowSelection
<1>1. FollowInv => PagesShowSelection
  <2> SUFFICES ASSUME FollowInv, Kept(ShowsOthers), Offered,
                      NEW s \in Keyed, Loaded(s), view[s].of # sel
               PROVE  FALSE
    BY DEF PagesShowSelection, ShowsSelection
  <2>1. /\ FlagsInv /\ name \in DOMAIN Pages /\ page = Pages[name]
        /\ mode \in {"careful", "unlucky", "hasty", "roaming"}
    BY DEF FollowInv, FlagsInv, TypeInv
  <2>2. ShowsOwn(name, mode)
    BY <2>1, SelectionAssumption DEF Kept, ShowsOthers
  <2>3. /\ Followers(page) \subseteq Own(page, mode) /\ Guided(name, mode)
        /\ \A r \in Followers(page), o \in page.loads :
             Reloads(page, o, r) => page.ops[o].up \cap (page.hides \union page.covers) # {}
    BY <2>1, <2>2 DEF ShowsOwn
  <2>4. Followed
    BY <2>3 DEF FollowInv
  <2>5. s \notin page.matches
    BY DEF Offered, Visible
  <2>6. s \in Followers(page)
    BY <2>5 DEF Keyed, RowForms, Followers, OpenedForRow, Op
  <2>7. Reloading(s)
    BY <2>3, <2>4, <2>6 DEF Followed, InStep, Loaded
  <2>8. PICK c \in calls : LiveAt(page, epoch, c) /\ Reloads(page, c.op, s)
    BY <2>7 DEF Reloading
  <2>9. c.op \in page.loads
    BY <2>8 DEF Reloads
  <2>10. Flagged
    BY <2>3, <2>6, <2>8, <2>9, GuidedRules
  <2>11. (page.hides \union page.covers) \cap page.ops[c.op].up = {}
    BY <2>8, <2>9, <2>10 DEF Flagged, Offered, Visible
  <2>12. QED
    BY <2>3, <2>6, <2>8, <2>9, <2>11
<1>2. QED
  BY <1>1, FollowInit, FollowStep, PTL DEF ScreensSpec

(***************************************************************************)
(* What is sent belongs where it is sent.                                  *)
(***************************************************************************)
\* For one who waits: a form attached to a slot is empty or of its row, and so
\* is the handler about that slot; only one control is under way.
Tied(f, t) ==
  /\ SlotOf(view[f]) /\ SlotOf(view[t])
  /\ view[f].of \in {Nil, view[t].of}
  /\ \A c \in calls : page.ops[c.op].target = t => view[t].of \in {Nil, c.key}
  /\ \A c, d \in calls : page.ops[c.op].user /\ page.ops[d.op].user => c = d

\* The rules of an attached form, one by one.
LEMMA AttachedRules ==
  ASSUME NEW f, NEW t, Attached(page, f, t), NEW o \in DOMAIN page.ops
  PROVE  /\ {f, t} \subseteq page.slots
         /\ {f, t} \cap (page.resets \union page.derives \union {"rail", "sel", "row"}) = {}
         /\ page.ops[o].target = t => page.ops[o].user
         /\ t \in page.ops[o].blanks => f \in page.ops[o].blanks
         /\ t \notin page.ops[o].opens
         /\ f \in page.ops[o].opens => page.ops[o].target = t /\ t \notin page.ops[o].blanks
  BY DEF Attached

\* What the answer to a step does to an attached form and its slot.
LEMMA AttachedSteps ==
  ASSUME NEW f, NEW t, Attached(page, f, t), NEW c \in calls, TypeInv, NEW st, st = At(c)
  PROVE  /\ {f, t} \cap (st.rebuilds \union st.appends \union st.empties) = {} /\ t \notin st.lost
         /\ t \in st.clears => f \in st.clears
         /\ t \in st.reads => /\ page.ops[c.op].user
                              /\ page.ops[c.op].target = t \/ f \in st.clears \union st.reads
         /\ f \in st.reads => f \in st.clears \/ t \in st.reads \ st.clears
         /\ \A q \in st.spawns : ~page.ops[q].user
<1>1. c.op \in DOMAIN page.ops /\ c.pos \in DOMAIN page.ops[c.op].steps
  BY DEF TypeInv, HandlerOf
<1>2. st = page.ops[c.op].steps[c.pos]
  BY DEF At, Op
<1>3. {f, t} \cap (st.rebuilds \union st.appends \union st.empties) = {} /\ t \notin st.lost
  BY <1>1, <1>2 DEF Attached
<1>4. t \in st.clears => f \in st.clears
  BY <1>1, <1>2 DEF Attached
<1>5. t \in st.reads => page.ops[c.op].user
  BY <1>1, <1>2 DEF Attached
<1>6. t \in st.reads => page.ops[c.op].target = t \/ f \in st.clears \union st.reads
  BY <1>1, <1>2 DEF Attached
<1>7. f \in st.reads => f \in st.clears \/ t \in st.reads \ st.clears
  BY <1>1, <1>2 DEF Attached
<1>8. \A q \in st.spawns : ~page.ops[q].user
  BY <1>1, <1>2 DEF Attached
<1>9. QED
  BY <1>3, <1>4, <1>5, <1>6, <1>7, <1>8

\* Of each operation that starts there is one handler.
LEMMA BegunOnce ==
  ASSUME NEW os, NEW k, NEW e, NEW n
  PROVE  \A c, d \in Begun(os, k, e, n) : c.op \in os /\ (c.op = d.op => c = d)
<1>1. ASSUME NEW c \in Begun(os, k, e, n) PROVE c.op \in os /\ c = Call(c.op, k, e, n)
  <2>1. PICK o \in os : c = Call(o, k, e, n)
    BY <1>1 DEF Begun, Asynchronous
  <2>2. c.op = o
    BY <2>1 DEF Call
  <2>3. QED
    BY <2>1, <2>2
<1>2. QED
  BY <1>1

\* Only one control is under way at a time.
LEMMA OneUserKept ==
  ASSUME TypeInv, [Next]_vars, UNCHANGED <<page, mode>>, Patient, WellDescribed(page),
         NEW f, NEW t, Attached(page, f, t), Tied(f, t)
  PROVE  \A c, d \in calls' : page.ops[c.op].user /\ page.ops[d.op].user => c = d
<1>1. \A c, d \in calls : page.ops[c.op].user /\ page.ops[d.op].user => c = d
  BY DEF Tied
<1>2. \A q \in page.loads : q \in DOMAIN page.ops /\ ~page.ops[q].user
  BY DEF WellDescribed
<1>3. ASSUME NEW o \in DOMAIN page.ops, Press(o)
      PROVE  \A c, d \in calls' : page.ops[c.op].user /\ page.ops[d.op].user => c = d
  <2>1. PICK k \in Targets(o) : \E os, e :
           /\ k # Nil /\ calls' = calls \union Begun(os, k, e, moves + 1)
           /\ \A q \in os : q = o \/ (q \in page.loads /\ page.ops[o].selects)
           /\ sel' = IF page.ops[o].selects THEN k ELSE sel
           /\ epoch' = IF page.ops[o].selects THEN epoch + 1 ELSE epoch
           /\ sel' # sel => mode = "roaming" \/ calls = {}
           /\ Visible /\ page.ops[o].user /\ \A r \in page.ops[o].needs : Loaded(r)
           /\ \A r \in page.slots : Shown(o, k, r)
    BY <1>3, Pressed
  <2>2. PICK os, e : /\ k # Nil /\ calls' = calls \union Begun(os, k, e, moves + 1)
                     /\ \A q \in os : q = o \/ (q \in page.loads /\ page.ops[o].selects)
    BY <2>1
  <2>3. calls = {}
    BY <1>3 DEF Press, MayMove
  <2>4. PICK n : n = moves + 1
    OBVIOUS
  <2>5. os \subseteq DOMAIN page.ops
    BY <1>2, <1>3, <2>2
  <2>6. \A c, d \in Begun(os, k, e, n) : c.op \in os /\ (c.op = d.op => c = d)
    BY <2>2, <2>5, BegunOnce
  <2>7. QED
    BY <1>2, <2>2, <2>3, <2>4, <2>6
<1>4. ASSUME NEW os, NEW k, NEW e, NEW n, os \subseteq page.loads, NEW c \in Begun(os, k, e, n)
      PROVE  ~page.ops[c.op].user
  BY <1>2, <1>4, BegunFresh
<1>5. ASSUME NEW k \in Keys, Move(k)
      PROVE  \A c, d \in calls' : page.ops[c.op].user /\ page.ops[d.op].user => c = d
  <2>1. calls' = calls \union Begun(Effects, k, epoch + 1, moves + 1) /\ Effects \subseteq page.loads
    BY <1>5 DEF Move, Effects
  <2>2. QED
    BY <1>1, <1>4, <2>1
<1>6. ASSUME NEW g \in page.forms, Type(g)
      PROVE  \A c, d \in calls' : page.ops[c.op].user /\ page.ops[d.op].user => c = d
  <2> DEFINE os == IF g \in page.watches THEN Effects ELSE {}
  <2>1. calls' = calls \union Begun(os, sel, epoch, moves + 1) /\ os \subseteq page.loads
    BY <1>6 DEF Type, Effects
  <2> HIDE DEF os
  <2>2. QED
    BY <1>1, <1>4, <2>1
<1>7. ASSUME NEW b \in calls, Serve(b) \/ Answer(b) \/ Fail(b)
      PROVE  \A c, d \in calls' : page.ops[c.op].user /\ page.ops[d.op].user => c = d
  <2>1. PICK R, spawns, flags :
           /\ Goes(b, R, spawns) /\ Drops(b, R, flags) /\ up' = flags \union Raised(spawns)
           /\ Answer(b) /\ Len(page.ops[b.op].steps) = 1 => R = {}
           /\ spawns # {} => Answer(b)
    BY <1>7, RequestsGo
  <2>2. /\ \A d \in R : d.op = b.op
        /\ \A d, d2 \in R : d = d2
        /\ \A d \in calls' : (d \in calls /\ d # b) \/ d \in R \/ d.op \in spawns
    BY <2>1, GoesOps
  <2>3. \A q \in spawns : ~page.ops[q].user
    <3>1. spawns \subseteq At(b).spawns
      BY <2>1 DEF Goes
    <3>2. QED
      BY <1>7, <3>1, AttachedSteps
  <2>4. QED
    BY <1>1, <2>2, <2>3
<1>8. ASSUME NEW o \in Timers, Polling(o)
      PROVE  \A c, d \in calls' : page.ops[c.op].user /\ page.ops[d.op].user => c = d
  BY <1>1, <1>8, PollingChanges
<1>9. CASE UNCHANGED vars
  BY <1>1, <1>9 DEF vars
<1>10. QED
  BY <1>3, <1>5, <1>6, <1>7, <1>8, <1>9 DEF Next

\* What a form and its slot may become: emptied or kept by a control, which may
\* fill the form from the row; in all else they are not disturbed.
LEMMA TiedSlots ==
  ASSUME TypeInv, [Next]_vars, UNCHANGED <<page, mode>>, Patient,
         NEW f, NEW t, Attached(page, f, t), Tied(f, t)
  PROVE  /\ SlotOf(view'[f]) /\ SlotOf(view'[t]) /\ view'[f].of \in {Nil, view'[t].of}
         /\ view'[t].of = Nil \/ view'[t].of = view[t].of \/
              \E b \in calls : page.ops[b.op].user /\ view'[t].of = b.key
<1>1. /\ f \in page.slots /\ t \in page.slots /\ f # "rail" /\ t # "rail"
      /\ {f, t} \cap (page.resets \union page.derives) = {} /\ t # "sel" /\ t # "row"
      /\ {f, t} \cap Refreshed(page) = {}
      /\ DOMAIN view = page.slots
  BY DEF Attached, TypeInv
<1>2. /\ SlotOf(view[f]) /\ SlotOf(view[t])
      /\ view[f].of \in {Nil, view[t].of}
      /\ \A c \in calls : page.ops[c.op].target = t => view[t].of \in {Nil, c.key}
  BY DEF Tied
<1> DEFINE Good == /\ SlotOf(view'[f]) /\ SlotOf(view'[t]) /\ view'[f].of \in {Nil, view'[t].of}
                   /\ view'[t].of = Nil \/ view'[t].of = view[t].of \/
                        \E b \in calls : page.ops[b.op].user /\ view'[t].of = b.key
<1>3. ASSUME NEW o \in DOMAIN page.ops, Press(o) PROVE Good
  <2>1. PICK k \in Targets(o) : \E os, e :
           /\ k # Nil /\ calls' = calls \union Begun(os, k, e, moves + 1)
           /\ \A q \in os : q = o \/ (q \in page.loads /\ page.ops[o].selects)
           /\ sel' = IF page.ops[o].selects THEN k ELSE sel
           /\ epoch' = IF page.ops[o].selects THEN epoch + 1 ELSE epoch
           /\ sel' # sel => mode = "roaming" \/ calls = {}
           /\ Visible /\ page.ops[o].user /\ \A r \in page.ops[o].needs : Loaded(r)
           /\ \A r \in page.slots : Shown(o, k, r)
    BY <1>3, Pressed
  <2>2. /\ t \in page.ops[o].blanks => f \in page.ops[o].blanks
        /\ t \notin page.ops[o].opens
        /\ f \in page.ops[o].opens => page.ops[o].target = t /\ t \notin page.ops[o].blanks
    BY <1>3, AttachedRules
  <2>3. Shown(o, k, f) /\ Shown(o, k, t)
    BY <1>1, <2>1
  <2>4. SlotOf(Blank) /\ Blank.of = Nil
    BY DEF Blank, SlotOf
  <2>5. \/ view'[t] = Blank /\ t \in page.ops[o].blanks
        \/ view'[t] = view[t] /\ t \notin page.ops[o].blanks
    BY <1>1, <2>2, <2>3 DEF Shown
  <2>6. CASE view'[f] = Blank
    BY <1>2, <2>4, <2>5, <2>6
  <2>7. CASE /\ f \in page.ops[o].opens \ page.ops[o].blanks
             /\ view'[f] = [of |-> k, has |-> view[Mirror(f)].has, edits |-> 0]
    <3>1. SlotOf(view'[f]) /\ view'[f].of = k
      BY <2>7 DEF SlotOf
    <3>2. page.ops[o].target = t /\ view'[t] = view[t]
      BY <2>2, <2>5, <2>7
    <3>3. k = view[t].of
      BY <1>1, <3>2 DEF Targets, Op
    <3>4. QED
      BY <1>2, <3>1, <3>2, <3>3
  <2>8. CASE view'[f] = view[f] /\ f \notin page.ops[o].blanks \union page.ops[o].opens
    <3>1. view'[t] = view[t]
      BY <2>2, <2>5, <2>8
    <3>2. QED
      BY <1>2, <2>8, <3>1
  <2>9. QED
    BY <2>3, <2>6, <2>7, <2>8 DEF Shown
<1>4. ASSUME SlotOf(view'[f]), SlotOf(view'[t]), view'[f].of = view[f].of \/ view'[f].of = Nil, view'[t].of = view[t].of
      PROVE  Good
  BY <1>2, <1>4
<1>5. ASSUME NEW k \in Keys, Move(k) PROVE Good
  <2>1. view'[f] = view[f] /\ view'[t] = view[t]
    BY <1>1, <1>5 DEF Move
  <2>2. QED
    BY <1>2, <2>1
<1>6. ASSUME NEW g \in page.forms, Type(g) PROVE Good
  <2>1. ASSUME NEW s \in {f, t} PROVE SlotOf(view'[s]) /\ view'[s].of = view[s].of
    <3>1. view'[s] = view[s] \/ \E x : view'[s] = [view[s] EXCEPT !.edits = x]
      BY <1>1, <1>6, <2>1 DEF Type
    <3>2. ASSUME NEW x, view'[s] = [view[s] EXCEPT !.edits = x]
          PROVE  SlotOf(view'[s]) /\ view'[s].of = view[s].of
      <4>1. SlotOf(view[s])
        BY <1>2, <2>1
      <4>2. QED
        BY <3>2, <4>1, Edited
    <3>3. QED
      BY <1>2, <2>1, <3>1, <3>2
  <2>2. QED
    BY <1>4, <2>1
<1>7. ASSUME NEW o \in Timers, Polling(o) PROVE Good
  <2>1. view'[f] = view[f] /\ view'[t] = view[t]
    BY <1>1, <1>7, PollingChanges
  <2>2. QED
    BY <1>2, <2>1
<1>8. ASSUME NEW b \in calls, Serve(b) PROVE Good
  BY <1>2, <1>8 DEF Serve
<1>9. ASSUME NEW b \in calls, Fail(b) PROVE Good
  <2>1. t \notin At(b).lost
    BY <1>9, AttachedSteps
  <2>2. /\ SlotOf(view'[f]) /\ view'[f].of = IF Live(b) /\ f \in At(b).lost THEN Nil ELSE view[f].of
        /\ SlotOf(view'[t]) /\ view'[t].of = IF Live(b) /\ t \in At(b).lost THEN Nil ELSE view[t].of
    BY <1>1, <1>2, <1>9, FailedSlot
  <2>3. QED
    BY <1>4, <2>1, <2>2
<1>10. ASSUME NEW b \in calls, Answer(b) PROVE Good
  <2>2. PICK st : At(b) = st
    OBVIOUS
  <2>3. /\ {f, t} \cap (st.rebuilds \union st.appends \union st.empties) = {}
        /\ t \in st.clears => f \in st.clears
        /\ t \in st.reads => /\ page.ops[b.op].user
                             /\ page.ops[b.op].target = t \/ f \in st.clears \union st.reads
        /\ f \in st.reads => f \in st.clears \/ t \in st.reads \ st.clears
    BY <1>10, <2>2, AttachedSteps
  <2>4. ASSUME NEW s \in {f, t}
        PROVE  /\ SlotOf(view'[s])
               /\ \/ view'[s].of = view[s].of /\ ~(Live(b) /\ s \in st.reads \ st.clears)
                  \/ view'[s].of = Nil /\ Live(b) /\ s \in st.clears
                  \/ view'[s].of = b.key /\ Live(b) /\ s \in st.reads \ st.clears
               /\ Live(b) /\ s \in st.clears => view'[s].of = Nil
    <3>1. /\ s \in page.slots /\ SlotOf(view[s]) /\ s \notin page.derives
          /\ s \notin At(b).rebuilds /\ s \notin At(b).appends /\ s \notin At(b).empties
      BY <1>1, <1>2, <2>2, <2>3, <2>4
    <3>2. /\ SlotOf(view'[s])
          /\ \/ /\ view'[s].of = view[s].of
                /\ ~(Live(b) /\ s \in At(b).reads /\ s \notin At(b).clears \union At(b).empties)
             \/ s \in page.derives /\ view'[s].of = sel
             \/ view'[s].of = Nil /\ Live(b) /\ s \in At(b).clears
             \/ view'[s].of = b.key /\ Live(b) /\ s \in (At(b).reads \union At(b).appends) \ At(b).clears
             \/ view'[s].of = b.base[s].of /\ Live(b) /\ s \in At(b).rebuilds \ At(b).clears
          /\ Live(b) /\ s \in At(b).clears \ page.derives => view'[s].of = Nil
      BY <1>10, <3>1, AnsweredSlot
    <3>3. QED
      BY <2>2, <3>1, <3>2
  <2>5. SlotOf(view'[f]) /\ SlotOf(view'[t])
    BY <2>4
  <2>6. view'[f].of \in {Nil, view'[t].of}
    <3>1. CASE Live(b) /\ t \in st.reads \ st.clears
      <4>1. view'[t].of = b.key
        BY <2>4, <3>1
      <4>2. CASE f \in st.clears
        BY <2>4, <3>1, <4>2
      <4>3. CASE f \in st.reads \ st.clears
        BY <2>4, <3>1, <4>1, <4>3
      <4>4. CASE f \notin st.clears \union st.reads
        <5>1. page.ops[b.op].target = t
          BY <2>3, <3>1, <4>4
        <5>2. view[t].of \in {Nil, b.key}
          BY <1>2, <1>10, <5>1
        <5>3. view'[f].of = view[f].of
          BY <2>4, <4>4
        <5>4. QED
          BY <1>2, <4>1, <5>2, <5>3
      <4>5. QED
        BY <4>2, <4>3, <4>4
    <3>2. CASE Live(b) /\ t \in st.clears
      BY <2>3, <2>4, <3>2
    <3>3. CASE ~Live(b) \/ t \notin st.reads \union st.clears
      <4>1. view'[t].of = view[t].of
        BY <2>4, <3>3
      <4>2. view'[f].of \in {Nil, view[f].of}
        BY <2>3, <2>4, <3>3
      <4>3. QED
        BY <1>2, <4>1, <4>2
    <3>4. QED
      BY <3>1, <3>2, <3>3
  <2>7. view'[t].of = Nil \/ view'[t].of = view[t].of \/ (page.ops[b.op].user /\ view'[t].of = b.key)
    BY <2>3, <2>4
  <2>8. QED
    BY <1>10, <2>5, <2>6, <2>7
<1>11. ASSUME UNCHANGED vars PROVE Good
  BY <1>2, <1>11 DEF vars
<1> HIDE DEF Good
<1>12. Good
  <2>1. CASE Next
    <3>1. CASE \E c \in calls : Serve(c) \/ Answer(c) \/ Fail(c)
      BY <1>8, <1>9, <1>10, <3>1
    <3>2. QED
      BY <1>3, <1>5, <1>6, <1>7, <2>1, <3>1 DEF Next
  <2>2. QED
    BY <1>11, <2>1
<1>13. QED
  BY <1>12 DEF Good

\* So they stay tied.
LEMMA TiedKept ==
  ASSUME TypeInv, [Next]_vars, UNCHANGED <<page, mode>>, Patient, WellDescribed(page),
         NEW f, NEW t, Attached(page, f, t), Tied(f, t)
  PROVE  Tied(f, t)'
<1>1. \A c, d \in calls' : page.ops[c.op].user /\ page.ops[d.op].user => c = d
  BY OneUserKept
<1>2. /\ SlotOf(view'[f]) /\ SlotOf(view'[t]) /\ view'[f].of \in {Nil, view'[t].of}
      /\ view'[t].of = Nil \/ view'[t].of = view[t].of \/
           \E b \in calls : page.ops[b.op].user /\ view'[t].of = b.key
  BY TiedSlots
<1>3. ASSUME NEW d \in calls', page.ops[d.op].target = t PROVE view'[t].of \in {Nil, d.key}
  <2>1. d.op \in DOMAIN page.ops
    BY TypesKept DEF TypeInv, HandlerOf
  <2>2. page.ops[d.op].user /\ t # "sel" /\ t # "row" /\ t \in page.slots
    BY <1>3, <2>1 DEF Attached
  <2>3. ASSUME NEW c \in calls, Same(c, d) PROVE view'[t].of \in {Nil, d.key}
    <3>1. page.ops[c.op].target = t /\ page.ops[c.op].user /\ d.key = c.key
      BY <1>3, <2>2, <2>3 DEF Same
    <3>2. view[t].of \in {Nil, c.key}
      BY <3>1 DEF Tied
    <3>3. \A b \in calls : page.ops[b.op].user => b = c
      BY <3>1 DEF Tied
    <3>4. QED
      BY <1>2, <3>1, <3>2, <3>3
  <2>4. d.op \notin page.loads
    BY <2>2 DEF WellDescribed
  <2>5. \A c \in calls : d.op \notin Spawns(page, c.op)
    <3>1. ASSUME NEW c \in calls, d.op \in Spawns(page, c.op) PROVE FALSE
      <4>1. PICK i \in DOMAIN page.ops[c.op].steps : d.op \in page.ops[c.op].steps[i].spawns
        BY <3>1 DEF Spawns
      <4>2. c.op \in DOMAIN page.ops
        BY <3>1 DEF TypeInv, HandlerOf
      <4>3. QED
        BY <2>2, <4>1, <4>2 DEF Attached
    <3>2. QED
      BY <3>1
  <2>6. ASSUME Press(d.op), d.key \in Targets(d.op) PROVE view'[t].of \in {Nil, d.key}
    <3>1. d.key = view[t].of
      BY <1>3, <2>2, <2>6 DEF Targets, Op
    <3>2. PICK k \in Targets(d.op) : \E os, e :
             /\ k # Nil /\ calls' = calls \union Begun(os, k, e, moves + 1)
             /\ \A q \in os : q = d.op \/ (q \in page.loads /\ page.ops[d.op].selects)
             /\ sel' = IF page.ops[d.op].selects THEN k ELSE sel
             /\ epoch' = IF page.ops[d.op].selects THEN epoch + 1 ELSE epoch
             /\ sel' # sel => mode = "roaming" \/ calls = {}
             /\ Visible /\ page.ops[d.op].user /\ \A r \in page.ops[d.op].needs : Loaded(r)
             /\ \A r \in page.slots : Shown(d.op, k, r)
      BY <2>1, <2>6, Pressed
    <3>3. Shown(d.op, k, t) /\ t \notin page.ops[d.op].opens
      BY <2>1, <2>2, <3>2, AttachedRules
    <3>4. QED
      BY <3>1, <3>3 DEF Shown, Blank
  <2>7. QED
    BY <2>3, <2>4, <2>5, <2>6, Origins
<1>4. QED
  BY <1>1, <1>2, <1>3 DEF Tied

\* A form filled when the page opens is there once nothing is under way.
Coming(o, l, f) == view[f].of # Nil \/ \E c \in calls : c.op \in {o, l}

\* What was on its way when the page opened still is, or has come.
LEMMA ComingKept ==
  ASSUME TypeInv, SlotsInv, WellDescribed(page), [Next]_vars, UNCHANGED <<page, mode>>, mode = "careful",
         NEW o \in page.opening, NEW l \in page.loads, NEW f, FillsFirst(page, o, l, f), Coming(o, l, f)
  PROVE  Coming(o, l, f)'
<1>1. /\ FilledBy(page, f, l) /\ Len(page.ops[l].steps) = 1 /\ f \in page.ops[l].steps[1].reads
      /\ Len(page.ops[o].steps) = 1 /\ ~page.ops[o].steps[1].guarded /\ l \in page.ops[o].steps[1].spawns
      /\ o \in DOMAIN page.ops /\ l \in DOMAIN page.ops /\ f \in page.slots
      /\ page.ops[l].steps # <<>>
  BY DEF FillsFirst, WellDescribed, FilledBy
<1>2. SlotOf(view[f])
  BY <1>1 DEF SlotsInv
<1>3. view[f].of # Nil => view'[f].of # Nil
  <2>1. ASSUME NEW c \in calls, Answer(c) PROVE view'[f].of = view[f].of \/ view'[f].of # Nil
    <3>1. view'[f].of = view[f].of \/ (c.op = l /\ view'[f].of = c.key)
      BY <1>1, <1>2, <2>1, FilledByAnswer
    <3>2. c.key # Nil
      BY <2>1 DEF TypeInv, HandlerOf
    <3>3. QED
      BY <3>1, <3>2
  <2>2. CASE \/ \E q \in DOMAIN page.ops : Press(q)
             \/ \E q \in Timers : Polling(q)
             \/ \E k \in Keys : Move(k)
             \/ \E g \in page.forms : Type(g)
             \/ \E c \in calls : Serve(c) \/ Fail(c)
    BY <1>1, <1>2, <2>2, FilledElsewhere
  <2>3. CASE UNCHANGED vars
    BY <2>3 DEF vars
  <2>4. QED
    BY <2>1, <2>2, <2>3 DEF Next
<1>4. CASE view[f].of # Nil
  BY <1>3, <1>4 DEF Coming
<1>5. CASE view[f].of = Nil
  <2>1. PICK c \in calls : c.op \in {o, l}
    BY <1>5 DEF Coming
  <2>2. Patient /\ calls # {}
    BY <2>1 DEF Patient
  <2>3. ~MayMove
    BY <2>2 DEF MayMove
  <2>4. /\ \A q \in DOMAIN page.ops : ~Press(q)
        /\ \A k \in Keys : ~Move(k)
        /\ \A g \in page.forms : ~Type(g)
        /\ \A b \in calls : ~Fail(b)
    BY <2>3 DEF Press, Move, MaySelect, Type, Fail
  <2>5. ASSUME NEW b \in calls, Serve(b) PROVE Coming(o, l, f)'
    <3>1. CASE b = c
      <4>1. PICK d, w : d = [c EXCEPT !.wrote = w] /\ d \in calls'
        BY <2>5, <3>1 DEF Serve
      <4>2. d.op = c.op
        BY <4>1 DEF TypeInv, HandlerOf
      <4>3. QED
        BY <2>1, <4>1, <4>2 DEF Coming
    <3>2. CASE b # c
      BY <2>1, <2>5, <3>2, OthersStay DEF Coming
    <3>3. QED
      BY <3>1, <3>2
  <2>6. ASSUME NEW b \in calls, Answer(b) PROVE Coming(o, l, f)'
    <3>1. CASE b # c
      BY <2>1, <2>6, <3>1, OthersStay DEF Coming
    <3>2. CASE b = c
      <4>1. /\ c.pos \in DOMAIN page.ops[c.op].steps /\ c.epoch = epoch /\ c.key # Nil /\ sel # Nil
            /\ HandlerOf(page, c)
        BY <2>2 DEF TypeInv, HandlerOf
      <4>2. c.pos = 1
        BY <1>1, <2>1, <4>1 DEF WellDescribed
      <4>3. Live(c)
        BY <4>1 DEF Live
      <4>4. CASE c.op = l
        <5>1. f \in At(c).reads
          BY <1>1, <4>2, <4>4 DEF At, Op
        <5>2. view'[f].of = c.key
          BY <1>1, <1>2, <2>6, <3>2, <4>3, <5>1, FilledByAnswer
        <5>3. QED
          BY <4>1, <5>2 DEF Coming
      <4>5. CASE c.op = o
        <5>1. l \in At(c).spawns /\ At(c).spawns \subseteq DOMAIN page.ops
          BY <1>1, <4>2, <4>5 DEF At, Op, WellDescribed, Spawns
        <5>2. PICK os, n : os = At(c).spawns /\ n = c.n
          OBVIOUS
        <5>3. Begun(os, sel, epoch, n) \subseteq calls'
          BY <2>6, <3>2, <4>3, <5>2 DEF Answer, Proceed
        <5>4. Call(l, sel, epoch, n) \in Begun(os, sel, epoch, n)
          BY <1>1, <5>1, <5>2 DEF Begun, Asynchronous, Op
        <5>5. Call(l, sel, epoch, n).op = l
          BY DEF Call
        <5>6. QED
          BY <5>3, <5>4, <5>5 DEF Coming
      <4>6. QED
        BY <2>1, <4>4, <4>5
    <3>3. QED
      BY <3>1, <3>2
  <2>7. CASE (\E q \in Timers : Polling(q)) \/ UNCHANGED vars
    <3>1. calls' = calls
      BY <2>7, PollingChanges DEF vars
    <3>2. QED
      BY <2>1, <3>1 DEF Coming
  <2>8. QED
    BY <2>4, <2>5, <2>6, <2>7 DEF Next
<1>6. QED
  BY <1>4, <1>5

\* The inductive invariant.
SavesInv ==
  /\ FollowInv
  /\ Patient => \A f, t \in page.slots : Attached(page, f, t) => Tied(f, t)
  /\ mode = "careful" => \A o \in page.opening, l \in page.loads : \A f \in page.slots :
                           FillsFirst(page, o, l, f) => Coming(o, l, f)
  /\ SavesGoHome

\* It holds when a page opens,
LEMMA SavesInit == ScreensInit => SavesInv
<1> SUFFICES ASSUME ScreensInit PROVE SavesInv
  OBVIOUS
<1>1. FollowInv /\ TypeInv /\ WellDescribed(page)
  BY FollowInit, PageRules DEF FollowInv, FlagsInv
<1>2. /\ view = [s \in page.slots |-> IF s = "rail" THEN [Blank EXCEPT !.of = sel] ELSE Blank]
      /\ calls = Begun(FirstEffects, sel, 0, 0)
      /\ FirstEffects = page.opening \union {o \in page.loads : page.ops[o].needs = {}}
  BY DEF ScreensInit, Init, FirstEffects, Op
<1>3. ASSUME NEW s \in page.slots, s # "rail" PROVE SlotOf(view[s]) /\ view[s].of = Nil
  <2>1. view[s] = [of |-> Nil, has |-> {}, edits |-> 0]
    BY <1>2, <1>3 DEF Blank
  <2>2. QED
    BY <2>1 DEF SlotOf
<1>4. ASSUME NEW c \in calls PROVE Fresh(c) /\ c.op \in FirstEffects /\ ~page.ops[c.op].user /\ c.op \in DOMAIN page.ops
  <2>1. Fresh(c) /\ c.op \in FirstEffects
    BY <1>2, <1>4, BegunFresh
  <2>2. QED
    BY <1>1, <1>2, <2>1 DEF WellDescribed
<1>5. ASSUME NEW f \in page.slots, NEW t \in page.slots, Attached(page, f, t) PROVE Tied(f, t)
  <2>1. SlotOf(view[f]) /\ SlotOf(view[t]) /\ view[f].of = Nil /\ view[t].of = Nil
    BY <1>3, <1>5 DEF Attached
  <2>2. QED
    BY <1>4, <2>1 DEF Tied
<1>6. ASSUME NEW o \in page.opening, NEW l \in page.loads, NEW f \in page.slots, FillsFirst(page, o, l, f)
      PROVE  Coming(o, l, f)
  <2>1. o \in FirstEffects /\ page.ops[o].steps # <<>>
    BY <1>2, <1>6 DEF FillsFirst
  <2>2. Call(o, sel, 0, 0) \in calls
    BY <1>2, <2>1 DEF Begun, Asynchronous, Op
  <2>3. Call(o, sel, 0, 0).op = o
    BY DEF Call
  <2>4. QED
    BY <2>2, <2>3 DEF Coming
<1>7. SavesGoHome
  <2>1. SUFFICES ASSUME Kept(SavesElsewhere), NEW c \in calls, NEW f \in DOMAIN c.sent PROVE FALSE
    BY DEF SavesGoHome, SavesWhatWasLoaded
  <2>2. SavesOwn(name, mode) /\ page = Pages[name]
    BY <1>1, <2>1, SelectionAssumption DEF Kept, ShowsOthers, TypeInv
  <2>3. f \in page.ops[c.op].sends /\ c.op \in DOMAIN page.ops /\ ~page.ops[c.op].user
    BY <1>4, <2>1 DEF Fresh
  <2>4. QED
    BY <2>2, <2>3 DEF SavesOwn
<1>8. QED
  BY <1>1, <1>5, <1>6, <1>7 DEF SavesInv

\* What is sent by a control was opened from the row, is tied to it, or is of
\* the selection.
LEMMA PressSends ==
  ASSUME SavesInv, Kept(SavesElsewhere), NEW o \in DOMAIN page.ops, Press(o), NEW k \in Targets(o),
         NEW f \in page.ops[o].sends
  PROVE  view[f].of = k
<1>1. /\ FlagsInv /\ TypeInv /\ page = Pages[name]
      /\ mode \in {"careful", "unlucky", "hasty", "roaming"}
  BY DEF SavesInv, FollowInv, FlagsInv, TypeInv
<1>2. SavesOwn(name, mode)
  BY <1>1, SelectionAssumption DEF Kept, ShowsOthers, TypeInv
<1>3. f \in page.slots \ {"sel", "row"} /\ SendsOwn(name, mode, o, f)
  BY <1>1, <1>2 DEF SavesOwn
<1> DEFINE t == page.ops[o].target
<1>4. f \in page.ops[o].needs => view[f].of # Nil
  BY DEF Press, Op, Loaded
<1>5. Patient => calls = {}
  BY DEF Press, MayMove
<1>6. CASE t = f
  BY <1>3, <1>6 DEF Targets, Op
<1>7. CASE /\ t \in page.slots /\ Attached(page, f, t)
           /\ f \in page.ops[o].needs /\ mode \in {"careful", "unlucky"}
  <2>1. Tied(f, t)
    BY <1>3, <1>7 DEF SavesInv, Patient
  <2>2. k = view[t].of
    BY <1>7 DEF Attached, Targets, Op
  <2>3. QED
    BY <1>4, <1>7, <2>1, <2>2 DEF Tied
<1>8. CASE /\ t = "sel" /\ f \in Own(page, mode) /\ Guided(name, mode)
           /\ f \in page.ops[o].needs \/ (mode = "careful" /\ FilledFirst(page, f))
           /\ mode \in {"hasty", "roaming"} =>
                \A l \in page.loads : Reloads(page, l, f) => page.ops[l].up \cap page.hides # {}
  <2>1. k = sel
    BY <1>8 DEF Targets, Op
  <2>2. Followed
    BY <1>8 DEF SavesInv, FollowInv
  <2>3. view[f].of # Nil
    <3>1. CASE f \in page.ops[o].needs
      BY <1>4, <3>1
    <3>2. CASE mode = "careful" /\ FilledFirst(page, f)
      <4>1. PICK q \in page.opening, l \in page.loads : FillsFirst(page, q, l, f)
        BY <3>2 DEF FilledFirst
      <4>2. Coming(q, l, f)
        BY <1>3, <3>2, <4>1 DEF SavesInv
      <4>3. QED
        BY <1>5, <3>2, <4>2 DEF Coming, Patient
    <3>3. QED
      BY <1>8, <3>1, <3>2
  <2>4. ~Reloading(f)
    <3>1. SUFFICES ASSUME Reloading(f) PROVE FALSE
      OBVIOUS
    <3>2. PICK c \in calls : LiveAt(page, epoch, c) /\ Reloads(page, c.op, f)
      BY <3>1 DEF Reloading
    <3>3. mode \in {"hasty", "roaming"} /\ c.op \in page.loads
      BY <1>1, <1>5, <3>2 DEF Patient, Reloads
    <3>4. Flagged
      BY <1>8, <3>2, <3>3, GuidedRules DEF SavesInv
    <3>5. page.hides \cap up = {}
      BY DEF Press, Visible
    <3>6. page.hides \cap page.ops[c.op].up = {}
      BY <3>2, <3>3, <3>4, <3>5 DEF Flagged
    <3>7. QED
      BY <1>8, <3>2, <3>3, <3>6
  <2>5. InStep(f)
    BY <1>8, <2>2 DEF Followed
  <2>6. QED
    BY <2>1, <2>3, <2>4, <2>5 DEF InStep
<1>9. QED
  BY <1>1, <1>3, <1>6, <1>7, <1>8 DEF SendsOwn

\* and every step preserves it.
LEMMA SavesStep == SavesInv /\ [Next]_vars => SavesInv'
<1> SUFFICES ASSUME SavesInv, [Next]_vars PROVE SavesInv'
  OBVIOUS
<1>1. FollowInv' /\ TypeInv /\ SlotsInv /\ UNCHANGED <<name, page, mode>> /\ WellDescribed(page)
  BY FollowStep, TypesKept, PageRules DEF SavesInv, FollowInv, FlagsInv
<1>2. ASSUME Patient, NEW f \in page.slots, NEW t \in page.slots, Attached(page, f, t) PROVE Tied(f, t)'
  BY <1>1, <1>2, TiedKept DEF SavesInv
<1>3. ASSUME mode = "careful", NEW o \in page.opening, NEW l \in page.loads, NEW f \in page.slots,
             FillsFirst(page, o, l, f)
      PROVE  Coming(o, l, f)'
  BY <1>1, <1>3, ComingKept DEF SavesInv
<1>4. SavesGoHome'
  <2>1. SUFFICES ASSUME Kept(SavesElsewhere), NEW d \in calls', NEW f \in DOMAIN d.sent
                 PROVE  d.sent[f].of = d.key
    BY <1>1 DEF SavesGoHome, SavesWhatWasLoaded, Kept, SavesElsewhere, SendsUnfilled, ModelPanels, TurnsBack
  <2>2. SavesOwn(name, mode) /\ page = Pages[name]
    BY <1>1, <2>1, SelectionAssumption DEF Kept, ShowsOthers, TypeInv
  <2>3. d.op \in DOMAIN page.ops
    BY <1>1, TypesKept DEF TypeInv, HandlerOf
  <2>4. ASSUME NEW c \in calls, Same(c, d) PROVE d.sent[f].of = d.key
    BY <2>1, <2>4 DEF Same, SavesInv, SavesGoHome, SavesWhatWasLoaded
  <2>5. ASSUME Fresh(d)
        PROVE  /\ f \in page.ops[d.op].sends /\ d.sent[f] = view[f]
               /\ page.ops[d.op].user /\ \A q \in DOMAIN page.ops : d.op \notin Spawns(page, q)
    <3>1. f \in page.ops[d.op].sends /\ d.sent[f] = view[f]
      BY <2>1, <2>5 DEF Fresh
    <3>2. QED
      BY <2>2, <2>3, <3>1 DEF SavesOwn
  <2>6. ASSUME Fresh(d), Press(d.op), d.key \in Targets(d.op) PROVE d.sent[f].of = d.key
    BY <2>1, <2>3, <2>5, <2>6, PressSends
  <2>7. d.op \in page.loads => ~page.ops[d.op].user
    BY <1>1 DEF WellDescribed
  <2>8. \A c \in calls : c.op \in DOMAIN page.ops
    BY <1>1 DEF TypeInv, HandlerOf
  <2>9. QED
    BY <1>1, <2>4, <2>5, <2>6, <2>7, <2>8, Origins
<1>5. QED
  BY <1>1, <1>2, <1>3, <1>4 DEF SavesInv, Patient

(***************************************************************************)
(* A save never writes what was loaded from elsewhere, or from nowhere,    *)
(* over the data of its target.                                            *)
(***************************************************************************)
THEOREM SavesAreTheirOwn == ScreensSpec => []SavesGoHome
<1>1. SavesInv => SavesGoHome
  BY DEF SavesInv
<1>2. QED
  BY <1>1, SavesInit, SavesStep, PTL DEF ScreensSpec

(***************************************************************************)
(* What is typed is kept.                                                  *)
(***************************************************************************)
\* An answer leaves a form as it is, for the same key, or discards what was typed.
LEMMA AnsweredForm ==
  ASSUME TypeInv, NEW c \in calls, Answer(c), NEW f \in page.slots, SlotOf(view[f]), f \notin At(c).rebuilds
  PROVE  /\ SlotOf(view'[f])
         /\ \/ view'[f].edits = view[f].edits /\ view'[f].of = view[f].of
            \/ /\ view'[f].edits = 0 /\ Live(c) /\ Discards(page, At(c), f)
               /\ ~(/\ f \in At(c).reads /\ f \in At(c).keeps /\ f \notin page.derives
                    /\ f \notin At(c).clears \union At(c).empties /\ view[f].of = c.key)
<1>1. PICK seen \in Seen(c) :
         view' = [r \in page.slots |->
                    IF ~Live(c) THEN view[r]
                    ELSE IF Derived(c, r)
                      THEN [of |-> sel, has |-> Applied(c, seen, Mirror(r)).has, edits |-> 0]
                    ELSE Applied(c, seen, r)]
  BY DEF Answer
<1>2. view'[f] = IF ~Live(c) THEN view[f]
                 ELSE IF Derived(c, f)
                   THEN [of |-> sel, has |-> Applied(c, seen, Mirror(f)).has, edits |-> 0]
                 ELSE Applied(c, seen, f)
  BY <1>1
<1>3. CASE ~Live(c)
  BY <1>2, <1>3
<1>4. CASE Live(c) /\ Derived(c, f)
  <2>1. f \in page.derives /\ Discards(page, At(c), f)
    BY <1>4 DEF Derived, Discards, Mirror
  <2>2. view'[f] = [of |-> sel, has |-> Applied(c, seen, Mirror(f)).has, edits |-> 0]
    BY <1>2, <1>4
  <2>3. view'[f].edits = 0 /\ SlotOf(view'[f])
    BY <2>2 DEF SlotOf
  <2>4. QED
    BY <1>4, <2>1, <2>3
<1>5. CASE Live(c) /\ ~Derived(c, f)
  <2> DEFINE st == At(c)
             own == IF Mirror(f) \in DOMAIN c.wrote THEN {c.wrote[Mirror(f)]} ELSE {}
             row == c.key = view[f].of \/ f \in page.shared
  <2>1. view'[f] =
          IF f \in st.clears THEN Blank
          ELSE IF f \in st.empties THEN [view[f] EXCEPT !.edits = 0]
          ELSE IF f \in st.reads THEN
            [of |-> c.key, has |-> 1..seen[f],
             edits |-> IF f \in st.keeps /\ view[f].of = c.key THEN view[f].edits ELSE 0]
          ELSE IF f \in st.patches /\ Loaded(f) /\ row THEN [view[f] EXCEPT !.has = Patched(c, f, own)]
          ELSE IF f \in st.drops /\ Loaded(f) /\ row THEN [view[f] EXCEPT !.has = @ \union own]
          ELSE IF f \in st.appends THEN
            [of |-> c.key, has |-> (IF row THEN view[f].has ELSE {}) \union own, edits |-> 0]
          ELSE view[f]
    BY <1>2, <1>5 DEF Applied
  <2>2. f \in st.clears \union st.empties \union st.reads \union st.appends => Discards(page, st, f)
    BY DEF Discards
  <2> HIDE DEF st, own, row
  <2>3. CASE f \in st.clears
    <3>1. view'[f] = [of |-> Nil, has |-> {}, edits |-> 0]
      BY <2>1, <2>3 DEF Blank
    <3>2. SlotOf(view'[f]) /\ view'[f].edits = 0
      BY <3>1 DEF SlotOf
    <3>3. QED
      BY <1>5, <2>2, <2>3, <3>2 DEF st
  <2>4. CASE f \notin st.clears /\ f \in st.empties
    <3>1. view'[f] = [view[f] EXCEPT !.edits = 0]
      BY <2>1, <2>4
    <3>2. SlotOf(view'[f]) /\ view'[f].edits = 0
      BY <3>1, Edited DEF SlotOf
    <3>3. QED
      BY <1>5, <2>2, <2>4, <3>2 DEF st
  <2>5. CASE f \notin st.clears \union st.empties /\ f \in st.reads
    <3>1. view'[f] = [of |-> c.key, has |-> 1..seen[f],
                      edits |-> IF f \in st.keeps /\ view[f].of = c.key THEN view[f].edits ELSE 0]
      BY <2>1, <2>5
    <3>2. /\ SlotOf(view'[f]) /\ view'[f].of = c.key
          /\ view'[f].edits = IF f \in st.keeps /\ view[f].of = c.key THEN view[f].edits ELSE 0
      BY <3>1 DEF SlotOf
    <3>3. QED
      BY <1>5, <2>2, <2>5, <3>2 DEF st
  <2>6. CASE f \notin st.clears \union st.empties \union st.reads
    <3>1. \/ \E w : view'[f] = [view[f] EXCEPT !.has = w]
          \/ f \in st.appends /\
             view'[f] = [of |-> c.key, has |-> (IF row THEN view[f].has ELSE {}) \union own, edits |-> 0]
          \/ view'[f] = view[f]
      BY <2>1, <2>6
    <3>2. ASSUME NEW w, view'[f] = [view[f] EXCEPT !.has = w]
          PROVE  SlotOf(view'[f]) /\ view'[f].of = view[f].of /\ view'[f].edits = view[f].edits
      BY <3>2 DEF SlotOf
    <3>3. CASE view'[f] = view[f]
      BY <3>3
    <3>4. CASE /\ f \in st.appends
               /\ view'[f] = [of |-> c.key, has |-> (IF row THEN view[f].has ELSE {}) \union own, edits |-> 0]
      <4>1. SlotOf(view'[f]) /\ view'[f].edits = 0
        BY <3>4 DEF SlotOf
      <4>2. QED
        BY <1>5, <2>2, <2>6, <3>4, <4>1 DEF st
    <3>5. QED
      BY <3>1, <3>2, <3>3, <3>4
  <2>7. QED
    BY <2>3, <2>4, <2>5, <2>6
<1>6. QED
  BY <1>3, <1>4, <1>5

\* What was typed was typed before the handlers started that may discard it, or
\* they leave it.
Older(c, f) ==
  \/ view[f].edits = 0 \/ view[f].edits < c.n
  \/ Leaves(page, c.op, f) /\ view[f].of = c.key

Typed(f) ==
  /\ SlotOf(view[f]) /\ view[f].edits \in 0..moves
  /\ \A c \in calls : LiveAt(page, epoch, c) /\ Touches(page, c.op, f) => Older(c, f)

\* So it is if handlers start, with nothing typed,
LEMMA TypedStarts ==
  ASSUME TypeInv, NEW f, Typed(f), moves \in Nat, moves' = moves + 1, page' = page,
         epoch' \in Nat, epoch <= epoch',
         \A d \in calls' : d \in calls \/ d.n = moves + 1,
         SlotOf(view'[f]), view'[f].edits = 0 \/ (view'[f].edits = view[f].edits /\ view'[f].of = view[f].of)
  PROVE  Typed(f)'
<1>1. view'[f].edits \in 0..moves'
  BY DEF Typed
<1>2. ASSUME NEW d \in calls', LiveAt(page, epoch', d), Touches(page, d.op, f) PROVE Older(d, f)'
  <2>1. CASE d \in calls
    <3>1. Older(d, f)
      BY <1>2, <2>1, LivesNow DEF Typed
    <3>2. QED
      BY <3>1 DEF Older
  <2>2. CASE d.n = moves + 1
    BY <2>2 DEF Typed, Older
  <2>3. QED
    BY <2>1, <2>2
<1>3. QED
  BY <1>1, <1>2 DEF Typed, LiveAt

\* and if requests are served, answered or fail.
LEMMA TypedRequests ==
  ASSUME TypeInv, WellDescribed(page), NEW f, Typed(f), moves \in Nat, UNCHANGED <<page, moves, epoch>>,
         NEW c \in calls, Serve(c) \/ Answer(c) \/ Fail(c), MayDiscard(page, c.op, f),
         SlotOf(view'[f]), view'[f].edits = 0 \/ (view'[f].edits = view[f].edits /\ view'[f].of = view[f].of)
  PROVE  Typed(f)'
<1>1. PICK R, spawns, flags :
         /\ Goes(c, R, spawns) /\ Drops(c, R, flags) /\ up' = flags \union Raised(spawns)
         /\ Answer(c) /\ Len(page.ops[c.op].steps) = 1 => R = {}
         /\ spawns # {} => Answer(c)
  BY RequestsGo
<1>2. /\ spawns = {} \/ Live(c)
      /\ \A d \in R : /\ HandlerOf(page, d) /\ d.op = c.op /\ d.epoch = c.epoch /\ d.key = c.key /\ d.n = c.n
      /\ calls' = ((calls \ {c}) \union R) \union Begun(spawns, sel, epoch, c.n)
  BY <1>1 DEF Goes, Follows, Carries
<1>3. c.op \in DOMAIN page.ops /\ c.pos \in DOMAIN page.ops[c.op].steps /\ spawns \subseteq Spawns(page, c.op)
  BY <1>1, GoesOps DEF TypeInv, HandlerOf
<1>4. ASSUME NEW d \in calls, LiveAt(page, epoch, d), Touches(page, d.op, f) PROVE Older(d, f)'
  <2>1. Older(d, f)
    BY <1>4 DEF Typed
  <2>2. QED
    BY <2>1 DEF Older
<1>5. ASSUME NEW d \in R, LiveAt(page, epoch, d), Touches(page, d.op, f) PROVE Older(d, f)'
  <2>1. LiveAt(page, epoch, c)
    <3>1. SUFFICES ASSUME page.ops[c.op].steps[c.pos].guarded PROVE c.epoch = epoch
      BY DEF LiveAt
    <3>2. Len(page.ops[c.op].steps) = 1 /\ DOMAIN page.ops[c.op].steps = 1..1
      BY <1>3, <3>1 DEF WellDescribed, Guarded
    <3>3. d.pos \in DOMAIN page.ops[c.op].steps
      BY <1>2, <1>5 DEF HandlerOf
    <3>4. d.pos = c.pos
      BY <1>3, <3>2, <3>3
    <3>5. QED
      BY <1>2, <1>5, <3>1, <3>4 DEF LiveAt
  <2>2. Older(c, f)'
    BY <1>2, <1>4, <1>5, <2>1
  <2>3. QED
    BY <1>2, <1>5, <2>2 DEF Older
<1>6. ASSUME NEW d \in Begun(spawns, sel, epoch, c.n), Touches(page, d.op, f) PROVE Older(d, f)'
  <2>1. PICK n : n = c.n
    OBVIOUS
  <2>2. PICK o \in spawns : d = Call(o, sel, epoch, n)
    BY <1>6, <2>1 DEF Begun, Asynchronous
  <2>3. d.op = o /\ d.n = c.n
    BY <2>1, <2>2 DEF Call
  <2>4. Spawns(page, o) = {} /\ o \in Spawns(page, c.op)
    BY <1>3 DEF MayDiscard
  <2>5. Touches(page, c.op, f)
    BY <1>6, <2>3, <2>4 DEF Touches
  <2>6. LiveAt(page, epoch, c)
    BY <1>2, <2>2 DEF Live, LiveAt, Op
  <2>7. Older(c, f)'
    BY <1>4, <2>5, <2>6
  <2>8. ~Leaves(page, c.op, f)
    BY <2>4 DEF Leaves
  <2>9. QED
    BY <2>3, <2>7, <2>8 DEF Older
<1>7. view'[f].edits \in 0..moves'
  BY DEF Typed
<1>8. \A d \in calls' : LiveAt(page, epoch, d) /\ Touches(page, d.op, f) => Older(d, f)'
  BY <1>2, <1>4, <1>5, <1>6
<1>9. QED
  BY <1>7, <1>8 DEF Typed, LiveAt

\* While one types no live handler may discard the form, and those that start
\* then are about its key and leave it.
LEMMA TypingTyped ==
  ASSUME FollowInv, moves \in Nat, UNCHANGED <<name, page, mode>>, KeepsTyping(name, mode),
         NEW g \in page.forms, Type(g), NEW f \in page.forms, Typed(f)
  PROVE  Typed(f)'
<1>1. FlagsInv /\ TypeInv /\ SlotsInv /\ page = Pages[name] /\ WellDescribed(page)
  BY PageRules DEF FollowInv, FlagsInv, TypeInv
<1>2. /\ f \in page.slots
      /\ \A o \in DOMAIN page.ops : mode \in {"hasty", "roaming"} /\ Touches(page, o, f) =>
           LocksForm(page, o, f) /\ name \notin LocksWrongly[mode]
      /\ f \in page.watches =>
           /\ f \in Own(page, mode) /\ Guided(name, mode)
           /\ \A o \in page.loads : /\ Touches(page, o, f) => Leaves(page, o, f)
                                    /\ Reloads(page, o, f) => page.ops[o].up \cap (page.hides \union page.covers) # {}
  BY <1>1 DEF KeepsTyping
<1>3. /\ MayMove /\ Offered /\ Loaded(g)
      /\ view' = [view EXCEPT ![g].edits = moves + 1]
      /\ moves' = moves + 1 /\ UNCHANGED <<sel, epoch>>
      /\ \/ calls' = calls
         \/ g \in page.watches /\ calls' = calls \union Begun(Effects, sel, epoch, moves + 1)
  <2>1. Begun({}, sel, epoch, moves + 1) = {}
    BY NoneBegun
  <2>2. QED
    BY <2>1 DEF Type
<1>4. ASSUME NEW d \in calls', d \notin calls
      PROVE  g \in page.watches /\ d.n = moves + 1 /\ d.key = sel /\ d.op \in page.loads
  <2>1. PICK n : n = moves + 1
    OBVIOUS
  <2>2. d \in Begun(Effects, sel, epoch, n) /\ g \in page.watches
    BY <1>3, <1>4, <2>1
  <2>3. PICK o \in Effects : d = Call(o, sel, epoch, n)
    BY <2>2 DEF Begun, Asynchronous
  <2>4. d.op = o /\ d.n = n /\ d.key = sel
    BY <2>3 DEF Call
  <2>5. QED
    BY <2>1, <2>2, <2>4 DEF Effects
<1>5. SlotOf(view[f]) /\ view[f].edits \in 0..moves /\ epoch \in Nat /\ DOMAIN view = page.slots
  BY <1>1 DEF Typed, TypeInv
<1>6. CASE f # g
  <2>1. view'[f] = view[f]
    BY <1>2, <1>3, <1>5, <1>6
  <2>2. \A d \in calls' : d \in calls \/ d.n = moves + 1
    BY <1>4
  <2>3. QED
    <3>1. SlotOf(view'[f]) /\ view'[f].edits = view[f].edits /\ view'[f].of = view[f].of
      BY <1>5, <2>1
    <3>2. page' = page /\ epoch' \in Nat /\ epoch <= epoch' /\ moves' = moves + 1
      BY <1>3, <1>5
    <3>3. QED
      BY <1>1, <2>2, <3>1, <3>2, TypedStarts
<1>7. CASE f = g
  <2>1. view'[f] = [view[f] EXCEPT !.edits = moves + 1]
    BY <1>2, <1>3, <1>5, <1>7
  <2>2. SlotOf(view'[f]) /\ view'[f].of = view[f].of
    BY <1>5, <2>1, Edited
  <2>3. view'[f].edits = moves + 1
    BY <1>5, <2>1 DEF SlotOf
  <2>4. view'[f].edits \in 0..moves'
    BY <1>3, <2>3
  <2>5. ASSUME NEW d \in calls', LiveAt(page, epoch, d), Touches(page, d.op, f) PROVE Older(d, f)'
    <3>1. CASE d \in calls
      <4>1. ~Patient /\ mode \in {"hasty", "roaming"}
        BY <1>1, <1>3, <3>1 DEF MayMove, Patient, TypeInv
      <4>2. d.op \in DOMAIN page.ops
        BY <1>1, <3>1 DEF TypeInv, HandlerOf
      <4>3. LocksForm(page, d.op, f) /\ name \notin LocksWrongly[mode]
        BY <1>2, <2>5, <4>1, <4>2
      <4>4. Busied(page, epoch, calls, up)
        BY <1>1, <4>3 DEF FlagsInv, Kept, Holds
      <4>5. (page.hides \union page.covers) \cap page.ops[d.op].up = {}
        BY <1>1, <1>3, <2>5, <3>1, <4>4, Disabled DEF Offered, Visible
      <4>6. PICK s \in page.awaits : s \in page.slots /\ FilledBy(page, s, d.op) /\ RunsOnce(page, d.op)
        BY <4>3, <4>5 DEF LocksForm
      <4>7. Loaded(s)
        BY <1>3, <4>6 DEF Offered, Visible
      <4>8. QED
        BY <1>1, <3>1, <4>2, <4>6, <4>7 DEF SlotsInv
    <3>2. CASE d \notin calls
      <4>1. f \in page.watches /\ d.key = sel /\ d.op \in page.loads
        BY <1>4, <1>7, <3>2
      <4>2. Leaves(page, d.op, f)
        BY <1>2, <2>5, <4>1
      <4>3. Followed /\ InStep(f)
        BY <1>2, <4>1 DEF FollowInv, Followed
      <4>4. ~Reloading(f)
        <5>1. SUFFICES ASSUME NEW c \in calls, LiveAt(page, epoch, c), Reloads(page, c.op, f) PROVE FALSE
          BY DEF Reloading
        <5>2. c.op \in page.loads
          BY <5>1 DEF Reloads
        <5>3. Flagged
          BY <1>1, <1>2, <4>1, <5>1, <5>2, GuidedRules
        <5>4. (page.hides \union page.covers) \cap page.ops[c.op].up = {}
          BY <1>3, <5>1, <5>2, <5>3 DEF Flagged, Offered, Visible
        <5>5. QED
          BY <1>2, <4>1, <5>1, <5>2, <5>4
      <4>5. view[f].of = sel
        BY <1>3, <1>7, <4>3, <4>4 DEF InStep, Loaded
      <4>6. QED
        BY <2>2, <4>1, <4>2, <4>5 DEF Older
    <3>3. QED
      BY <3>1, <3>2
  <2>6. QED
    BY <1>3, <2>2, <2>4, <2>5 DEF Typed, LiveAt
<1>8. QED
  BY <1>6, <1>7

\* A control and another app in the url take away or leave.
LEMMA MovesTyped ==
  ASSUME TypeInv, moves \in Nat, page' = page, NEW f \in page.slots, Typed(f),
         \/ \E o \in DOMAIN page.ops : Press(o)
         \/ \E k \in Keys : Move(k)
  PROVE  Typed(f)'
<1>1. SlotOf(view[f]) /\ view[f].edits \in 0..moves /\ epoch \in Nat
  BY DEF Typed, TypeInv
<1>2. ASSUME view'[f] = Blank \/ (\E k, w : view'[f] = [of |-> k, has |-> w, edits |-> 0]) \/ view'[f] = view[f]
      PROVE  SlotOf(view'[f]) /\ (view'[f].edits = 0 \/ (view'[f].edits = view[f].edits /\ view'[f].of = view[f].of))
  <2>1. ASSUME NEW k, NEW w, view'[f] = [of |-> k, has |-> w, edits |-> 0]
        PROVE  SlotOf(view'[f]) /\ view'[f].edits = 0
    BY <2>1 DEF SlotOf
  <2>2. CASE view'[f] = view[f]
    BY <1>1, <2>2
  <2>3. CASE view'[f] = Blank
    BY <2>1, <2>3 DEF Blank
  <2>4. QED
    BY <1>2, <2>1, <2>2, <2>3
<1>3. ASSUME NEW os, NEW k, NEW e, calls' = calls \union Begun(os, k, e, moves + 1), NEW d \in calls'
      PROVE  d \in calls \/ d.n = moves + 1
  <2>1. PICK n : n = moves + 1
    OBVIOUS
  <2>2. d \in calls \/ \E o \in os : d = Call(o, k, e, n)
    BY <1>3, <2>1 DEF Begun, Asynchronous
  <2>3. QED
    BY <2>1, <2>2 DEF Call
<1>4. ASSUME NEW o \in DOMAIN page.ops, Press(o) PROVE Typed(f)'
  <2>1. PICK k \in Targets(o) : \E os, e :
           /\ k # Nil /\ calls' = calls \union Begun(os, k, e, moves + 1)
           /\ \A q \in os : q = o \/ (q \in page.loads /\ page.ops[o].selects)
           /\ sel' = IF page.ops[o].selects THEN k ELSE sel
           /\ epoch' = IF page.ops[o].selects THEN epoch + 1 ELSE epoch
           /\ sel' # sel => mode = "roaming" \/ calls = {}
           /\ Visible /\ page.ops[o].user /\ \A t \in page.ops[o].needs : Loaded(t)
           /\ \A s \in page.slots : Shown(o, k, s)
    BY <1>4, Pressed
  <2>2. /\ \A d \in calls' : d \in calls \/ d.n = moves + 1
        /\ epoch' \in Nat /\ epoch <= epoch' /\ Shown(o, k, f)
    BY <1>1, <1>3, <2>1
  <2>3. moves' = moves + 1
    BY <1>4 DEF Press
  <2>4. SlotOf(view'[f]) /\ (view'[f].edits = 0 \/ (view'[f].edits = view[f].edits /\ view'[f].of = view[f].of))
    BY <1>2, <2>2 DEF Shown
  <2>5. QED
    BY <2>2, <2>3, <2>4, TypedStarts
<1>5. ASSUME NEW k \in Keys, Move(k) PROVE Typed(f)'
  <2>1. /\ calls' = calls \union Begun(Effects, k, epoch + 1, moves + 1)
        /\ moves' = moves + 1 /\ epoch' = epoch + 1
        /\ view'[f] = Blank \/ view'[f] = view[f]
    BY <1>5 DEF Move
  <2>2. \A d \in calls' : d \in calls \/ d.n = moves + 1
    BY <1>3, <2>1
  <2>3. SlotOf(view'[f]) /\ (view'[f].edits = 0 \/ (view'[f].edits = view[f].edits /\ view'[f].of = view[f].of))
    BY <1>2, <2>1
  <2>4. QED
    BY <1>1, <2>1, <2>2, <2>3, TypedStarts
<1>6. QED
  BY <1>4, <1>5

\* What the user does is counted, what requests do is not.
LEMMA MovesCount ==
  ASSUME TypeInv, [Next]_vars
  PROVE  \/ moves' = moves + 1
         \/ moves' = moves /\ \E c \in calls : Serve(c) \/ Answer(c) \/ Fail(c)
         \/ moves' = moves /\ ((\E o \in Timers : Polling(o)) \/ UNCHANGED vars)
<1>1. ASSUME NEW o, Press(o) PROVE moves' = moves + 1
  BY <1>1 DEF Press
<1>2. ASSUME NEW o \in Timers, Polling(o) PROVE moves' = moves
  BY <1>2, PollingChanges
<1>3. ASSUME NEW k, Move(k) PROVE moves' = moves + 1
  BY <1>3 DEF Move
<1>4. ASSUME NEW f, Type(f) PROVE moves' = moves + 1
  BY <1>4 DEF Type
<1>5. ASSUME NEW c, Serve(c) \/ Answer(c) \/ Fail(c) PROVE moves' = moves
  BY <1>5 DEF Serve, Answer, Fail
<1>6. CASE UNCHANGED vars
  BY <1>6 DEF vars
<1>7. QED
  BY <1>1, <1>2, <1>3, <1>4, <1>5, <1>6 DEF Next

\* The inductive invariant.
TypingInv ==
  /\ FollowInv /\ moves \in Nat
  /\ \A c \in calls : DOMAIN c.sent = page.ops[c.op].sends
  /\ Kept(LosesTyping) => \A f \in page.forms : Typed(f)

\* The rules of the forms of such a page.
LEMMA TypingRules ==
  ASSUME TypeInv, Kept(LosesTyping)
  PROVE  /\ KeepsTyping(name, mode)
         /\ \A f \in page.forms :
              /\ f \in page.slots /\ f # "rail"
              /\ \A o \in DOMAIN page.ops :
                   /\ MayDiscard(page, o, f)
                   /\ \A i \in DOMAIN page.ops[o].steps :
                        /\ f \notin page.ops[o].steps[i].rebuilds
                        /\ mode = "unlucky" => f \notin page.ops[o].steps[i].lost
<1>1. page = Pages[name] /\ name \in DOMAIN Pages /\ mode \in DOMAIN ShowsOthers /\ name \notin LosesTyping[mode]
  BY DEF TypeInv, Kept, ShowsOthers
<1>2. KeepsTyping(name, mode)
  BY <1>1, SelectionAssumption
<1>3. QED
  BY <1>1, <1>2 DEF KeepsTyping

\* It holds when a page opens,
LEMMA TypingInit == ScreensInit => TypingInv
<1> SUFFICES ASSUME ScreensInit PROVE TypingInv
  OBVIOUS
<1>1. FollowInv /\ TypeInv
  BY FollowInit DEF FollowInv, FlagsInv
<1>2. /\ view = [s \in page.slots |-> IF s = "rail" THEN [Blank EXCEPT !.of = sel] ELSE Blank]
      /\ calls = Begun(FirstEffects, sel, 0, 0) /\ moves = 0
  BY DEF ScreensInit, Init
<1>3. \A c \in calls : DOMAIN c.sent = page.ops[c.op].sends
  BY <1>2, BegunFresh DEF Fresh
<1>4. ASSUME Kept(LosesTyping), NEW f \in page.forms PROVE Typed(f)
  <2>1. f \in page.slots /\ f # "rail"
    BY <1>1, <1>4, TypingRules
  <2>2. view[f] = [of |-> Nil, has |-> {}, edits |-> 0]
    BY <1>2, <2>1 DEF Blank
  <2>3. SlotOf(view[f]) /\ view[f].edits = 0
    BY <2>2 DEF SlotOf
  <2>4. view[f].edits \in 0..moves
    BY <1>2, <2>3
  <2>5. QED
    BY <2>3, <2>4 DEF Typed, Older
<1>5. QED
  BY <1>1, <1>2, <1>3, <1>4 DEF TypingInv

\* and with every step.
LEMMA TypingStep == TypingInv /\ [Next]_vars => TypingInv'
<1> SUFFICES ASSUME TypingInv, [Next]_vars PROVE TypingInv'
  OBVIOUS
<1>1. /\ FollowInv' /\ TypeInv /\ UNCHANGED <<name, page, mode>> /\ WellDescribed(page)
      /\ FollowInv /\ moves \in Nat
  BY FollowStep, TypesKept, PageRules DEF TypingInv, FollowInv, FlagsInv
<1>2. moves' \in Nat
  BY <1>1, MovesCount
<1>3. \A d \in calls' : DOMAIN d.sent = page.ops[d.op].sends
  BY <1>1, Origins DEF TypingInv, Same, Fresh
<1>4. ASSUME Kept(LosesTyping), NEW f \in page.forms PROVE Typed(f)'
  <2>1. /\ KeepsTyping(name, mode) /\ f \in page.slots /\ Typed(f)
        /\ \A o \in DOMAIN page.ops :
             /\ MayDiscard(page, o, f)
             /\ \A i \in DOMAIN page.ops[o].steps :
                  /\ f \notin page.ops[o].steps[i].rebuilds
                  /\ mode = "unlucky" => f \notin page.ops[o].steps[i].lost
    BY <1>1, <1>4, TypingRules DEF TypingInv
  <2>2. CASE (\E o \in DOMAIN page.ops : Press(o)) \/ (\E k \in Keys : Move(k))
    BY <1>1, <2>1, <2>2, MovesTyped
  <2>3. ASSUME NEW g \in page.forms, Type(g) PROVE Typed(f)'
    BY <1>1, <1>4, <2>1, <2>3, TypingTyped
  <2>4. ASSUME NEW c \in calls, Serve(c) \/ Answer(c) \/ Fail(c) PROVE Typed(f)'
    <3>1. c.op \in DOMAIN page.ops /\ c.pos \in DOMAIN page.ops[c.op].steps /\ SlotOf(view[f])
      BY <1>1, <2>1, <2>4 DEF TypeInv, HandlerOf, Typed
    <3>2. UNCHANGED <<page, moves, epoch>>
      BY <2>4 DEF Serve, Answer, Fail
    <3>3. CASE Serve(c)
      <4>1. SlotOf(view'[f]) /\ view'[f].edits = view[f].edits /\ view'[f].of = view[f].of
        BY <3>1, <3>3 DEF Serve
      <4>2. QED
        BY <1>1, <2>1, <2>4, <3>1, <3>2, <4>1, TypedRequests
    <3>4. CASE Answer(c)
      <4>1. f \notin At(c).rebuilds
        BY <2>1, <3>1 DEF At, Op
      <4>2. /\ SlotOf(view'[f])
            /\ view'[f].edits = 0 \/ (view'[f].edits = view[f].edits /\ view'[f].of = view[f].of)
        BY <1>1, <2>1, <2>4, <3>1, <3>4, <4>1, AnsweredForm
      <4>3. QED
        BY <1>1, <2>1, <2>4, <3>1, <3>2, <4>2, TypedRequests
    <3>5. CASE Fail(c)
      <4>1. view'[f] = view[f]
        BY <2>1, <3>1, <3>5 DEF Fail, At, Op
      <4>2. SlotOf(view'[f]) /\ view'[f].edits = view[f].edits /\ view'[f].of = view[f].of
        BY <3>1, <4>1
      <4>3. QED
        BY <1>1, <2>1, <2>4, <3>1, <3>2, <4>2, TypedRequests
    <3>6. QED
      BY <2>4, <3>3, <3>4, <3>5
  <2>5. CASE (\E o \in Timers : Polling(o)) \/ UNCHANGED vars
    <3>1. f \notin Refreshed(page)
      BY <1>1, <1>4 DEF WellDescribed
    <3>2. UNCHANGED <<calls, epoch, moves, page>> /\ view'[f] = view[f]
      BY <1>1, <2>1, <2>5, <3>1, PollingChanges DEF vars
    <3>3. QED
      BY <2>1, <3>2 DEF Typed, Older, LiveAt, SlotOf
  <2>6. QED
    BY <2>2, <2>3, <2>4, <2>5 DEF Next
<1>5. QED
  BY <1>1, <1>2, <1>3, <1>4 DEF TypingInv, Kept

\* A handler that is answered goes on or ends, and what it spawns is another.
LEMMA AnsweredGoes ==
  ASSUME TypeInv, WellDescribed(page), NEW c \in calls, Answer(c), c.op \notin Spawns(page, c.op)
  PROVE  c \notin calls'
<1>1. PICK spawns : spawns \subseteq At(c).spawns /\ Proceed(c, spawns)
  BY DEF Answer
<1>2. /\ c.op \in DOMAIN page.ops /\ c.pos \in DOMAIN page.ops[c.op].steps /\ c.pos \in Nat
      /\ c = [op |-> c.op, n |-> c.n, key |-> c.key, epoch |-> c.epoch, pos |-> c.pos, sent |-> c.sent,
              base |-> c.base, wrote |-> c.wrote, from |-> c.from]
  BY DEF TypeInv, HandlerOf, WellDescribed
<1>3. c.op \notin spawns
  BY <1>1, <1>2 DEF Spawns, At, Op
<1>4. c \notin Begun(spawns, sel, epoch, c.n)
  <2>1. PICK n : n = c.n
    OBVIOUS
  <2>2. \A d \in Begun(spawns, sel, epoch, n) : d.op \in spawns
    BY DEF Begun, Asynchronous, Call
  <2>3. QED
    BY <1>3, <2>1, <2>2
<1>5. ASSUME NEW w, NEW fr, c = [c EXCEPT !.pos = c.pos + 1, !.wrote = w, !.from = fr] PROVE FALSE
  <2>1. PICK d, p : d = [c EXCEPT !.pos = p, !.wrote = w, !.from = fr] /\ p = c.pos + 1
    OBVIOUS
  <2>2. d = [op |-> c.op, n |-> c.n, key |-> c.key, epoch |-> c.epoch, pos |-> p, sent |-> c.sent,
             base |-> c.base, wrote |-> w, from |-> fr]
    BY <1>2, <2>1, Advanced
  <2>3. d.pos = p
    BY <2>2
  <2>4. d = c
    BY <1>5, <2>1
  <2>5. c.pos = p /\ p = c.pos + 1
    BY <2>1, <2>3, <2>4
  <2>6. QED
    BY <1>2, <2>5
<1>6. QED
  BY <1>1, <1>4, <1>5 DEF Proceed, Others

(***************************************************************************)
(* An answer takes away only what was typed before its request was made,   *)
(* and only to save it or because the user turned elsewhere; a failed save *)
(* takes away nothing.                                                     *)
(***************************************************************************)
THEOREM TypingSurvives == ScreensSpec => TypingIsKept
<1>1. TypingInv /\ [Next]_vars => [Kept(LosesTyping) => EditsSurvive]_vars
  <2> SUFFICES ASSUME TypingInv, Next, Kept(LosesTyping), NEW f \in page.forms,
                      view[f].edits # 0, view'[f].edits # view[f].edits, moves' = moves
               PROVE  /\ faults' = faults
                      /\ \E c \in calls \ calls' :
                           /\ view[f].edits < c.n
                           /\ \/ f \in DOMAIN c.sent \union At(c).clears
                              \/ Op(c.op).selects \/ c.op \in page.loads
    BY DEF EditsSurvive, vars
  <2>1. TypeInv /\ WellDescribed(page) /\ moves \in Nat
    BY PageRules DEF TypingInv, FollowInv, FlagsInv
  <2>2. /\ f \in page.slots /\ Typed(f) /\ SlotOf(view[f])
        /\ \A o \in DOMAIN page.ops :
             /\ MayDiscard(page, o, f)
             /\ \A i \in DOMAIN page.ops[o].steps :
                  /\ f \notin page.ops[o].steps[i].rebuilds
                  /\ mode = "unlucky" => f \notin page.ops[o].steps[i].lost
    BY <2>1, TypingRules DEF TypingInv, Typed
  <2>3. PICK c \in calls : Serve(c) \/ Answer(c) \/ Fail(c)
    <3>1. moves' # moves + 1
      BY <2>1
    <3>2. \A o \in Timers : ~Polling(o)
      <4>1. f \in page.slots \ Refreshed(page)
        BY <2>1, <2>2 DEF WellDescribed
      <4>2. QED
        BY <2>1, <4>1, PollingChanges
    <3>3. QED
      BY <2>1, <3>1, <3>2, MovesCount DEF vars
  <2>4. c.op \in DOMAIN page.ops /\ c.pos \in DOMAIN page.ops[c.op].steps
    BY <2>1 DEF TypeInv, HandlerOf
  <2>5. Answer(c)
    <3>1. ~Serve(c)
      BY DEF Serve
    <3>2. ASSUME Fail(c) PROVE FALSE
      <4>1. view'[f] = view[f]
        BY <2>2, <2>4, <3>2 DEF Fail, At, Op
      <4>2. QED
        BY <4>1
    <3>3. QED
      BY <2>3, <3>1, <3>2
  <2>6. f \notin At(c).rebuilds
    BY <2>2, <2>4 DEF At, Op
  <2>7. /\ Live(c) /\ Discards(page, At(c), f)
        /\ ~(/\ f \in At(c).reads /\ f \in At(c).keeps /\ f \notin page.derives
             /\ f \notin At(c).clears \union At(c).empties /\ view[f].of = c.key)
    BY <2>1, <2>2, <2>5, <2>6, AnsweredForm
  <2>8. LiveAt(page, epoch, c) /\ At(c) = page.ops[c.op].steps[c.pos]
    BY <2>7 DEF Live, LiveAt, At, Op
  <2>9. Touches(page, c.op, f)
    BY <2>4, <2>7, <2>8 DEF Touches
  <2>10. Older(c, f)
    BY <2>2, <2>8, <2>9 DEF Typed
  <2>11. view[f].edits < c.n
    <3>1. SUFFICES ASSUME Leaves(page, c.op, f), view[f].of = c.key PROVE FALSE
      BY <2>10 DEF Older
    <3>2. /\ f \notin page.derives /\ f \notin At(c).clears \union At(c).empties \union At(c).appends
          /\ f \in At(c).reads => f \in At(c).keeps
      BY <2>4, <2>8, <3>1 DEF Leaves
    <3>3. f \in At(c).reads
      BY <2>7, <3>2 DEF Discards
    <3>4. QED
      BY <2>7, <3>1, <3>2, <3>3
  <2>12. MayDiscard(page, c.op, f)
    BY <2>2, <2>4
  <2>13. f \in page.ops[c.op].sends \union At(c).clears \/ page.ops[c.op].selects \/ c.op \in page.loads
    BY <2>4, <2>7, <2>8, <2>12 DEF MayDiscard
  <2>14. f \in DOMAIN c.sent \union At(c).clears \/ Op(c.op).selects \/ c.op \in page.loads
    BY <2>13 DEF TypingInv, Op
  <2>15. c \notin calls'
    BY <2>1, <2>5, <2>12, AnsweredGoes DEF MayDiscard
  <2>16. faults' = faults
    BY <2>5 DEF Answer
  <2>17. QED
    BY <2>11, <2>14, <2>15, <2>16
<1>2. QED
  BY <1>1, TypingInit, TypingStep, PTL DEF ScreensSpec, TypingIsKept

(***************************************************************************)
(* What is written is shown.  A handler that has written brings what is    *)
(* new to the page: in this step or a later one.                           *)
(***************************************************************************)
Complete(v, s) == 1..Version(s, v.of) \subseteq v.has

\* The handler has still to write the slot, or is about to be answered.
Writing(c, s) == \E j \in DOMAIN page.ops[c.op].steps : c.pos <= j /\ s \in page.ops[c.op].steps[j].writes

\* It will replace the slot, or show what it has written in the list that is there.
Replaces(c, s) ==
  \E j \in DOMAIN page.ops[c.op].steps :
    LET st == page.ops[c.op].steps[j]
    IN  c.pos <= j /\ s \in st.reads \union st.clears \union st.rebuilds
Extends(c, s) ==
  /\ s \in At(c).writes /\ c.wrote # <<>>
  /\ s \in At(c).patches \union At(c).drops \union At(c).appends
  /\ Row(s, view[s].of) = Row(s, c.key)
  /\ 1..(Version(s, c.key) - 1) \subseteq view[s].has
Brings(c, s) == ~Guarded(page, c.op) /\ (Replaces(c, s) \/ Extends(c, s))

Shows(s) == Loaded(s) => Complete(view[s], s) \/ \E c \in calls : Brings(c, s)

\* While a handler has still to write the slot, no other one uses it.
Alone(s) == \A c, d \in calls : Writing(c, s) => c = d
Sole(s) ==
  /\ \A c, d \in calls : Uses(page, c.op, s) /\ Uses(page, d.op, s) /\ page.ops[c.op].user => c = d
  /\ \A c \in calls : Uses(page, c.op, s) => \A g \in page.ops[c.op].up : HasOwnFlag(page, c.op, g) => g \in up
Excluded(s) == IF Patient THEN Alone(s) ELSE Sole(s)

\* What a handler has read, written, seen before it began or adds to.
Knows(c, s) ==
  /\ s \in At(c).reads \ At(c).writes => c.from[s] = Version(s, c.key)
  /\ s \in At(c).writes /\ c.wrote # <<>> =>
       /\ c.wrote[s] = Version(s, c.key) /\ Version(s, c.key) # 0
       /\ Log(s, c.key)[Version(s, c.key)] = c.key
  /\ s \in At(c).rebuilds /\ c.base[s].of # Nil =>
       /\ 1..(Version(s, c.base[s].of) - 1) \subseteq c.base[s].has
       /\ Complete(c.base[s], s) \/ (c.wrote # <<>> /\ Row(s, c.base[s].of) = Row(s, c.key))
  /\ s \in At(c).appends => Loaded(s) /\ Row(s, view[s].of) = Row(s, c.key)

Settled(s) == Excluded(s) /\ (\A c \in calls : Knows(c, s)) /\ Shows(s)

\* Who stays with one selection is not answered too late.
InTime == mode = "hasty" /\ (\A o \in DOMAIN page.ops : ~page.ops[o].selects) => \A c \in calls : c.epoch = epoch

\* Everything is of some key, and each write is recorded once.
KeysInv ==
  /\ sel \in Keys
  /\ \A s \in page.slots : SlotOf(view[s]) /\ view[s].of \in Keys \union {Nil}
  /\ DOMAIN db = page.slots /\ \A s \in page.slots : db[s] \in [Keys \union {Nil} -> Seq(Keys)]
  /\ \A c \in calls : /\ c.key \in Keys
                      /\ c.wrote = <<>> \/ DOMAIN c.wrote = At(c).writes
                      /\ \A s \in page.slots \cap Rebuilt(c.op) : SlotOf(c.base[s]) /\ c.base[s].of \in Keys \union {Nil}
  /\ \A q \in polls : q.key \in Keys
  /\ \A s \in page.slots : /\ s # "rail" /\ ~Filled(page, s) => view[s].of = Nil
                           /\ ~Written(page, s) => \A k \in Keys \union {Nil} : db[s][k] = <<>>

\* The inductive invariant.
OwnSlots ==
  /\ NeverEmptied(page, "rail") /\ ShowsWrites(name, mode, "rail") => Loaded("rail")
  /\ \A s \in page.slots : ShowsWrites(name, mode, s) => Settled(s)

(***************************************************************************)
(* What is written is shown: what each step does, exactly.                 *)
(***************************************************************************)
\* A handler that starts has read nothing and written nothing.
Bare(d) ==
  /\ d.pos = 1 /\ d.wrote = <<>> /\ d.epoch = epoch'
  /\ \A s \in page.ops[d.op].steps[1].reads : d.from[s] = Version(s, d.key)
  /\ \A s \in Rebuilt(d.op) : d.base[s] = view[s]

\* That is how a handler begins.
LEMMA BegunBare ==
  ASSUME NEW os, NEW k, NEW e, e = epoch', NEW n, NEW d \in Begun(os, k, e, n)
  PROVE  Bare(d) /\ d.op \in os /\ d.key = k
<1>1. PICK o \in os : d = Call(o, k, e, n)
  BY DEF Begun, Asynchronous
<1>2. /\ d.op = o /\ d.key = k /\ d.epoch = e /\ d.pos = 1 /\ d.wrote = <<>>
      /\ d.base = [s \in Rebuilt(o) |-> view[s]]
      /\ d.from = [s \in Op(o).steps[1].reads |-> Version(s, k)]
  BY <1>1 DEF Call
<1>3. QED
  BY <1>2 DEF Bare, Op

\* What the user starts.
Started(d) ==
  \/ d.op \in DOMAIN page.ops /\ Press(d.op) /\ d.key \in Targets(d.op)
  \/ /\ d.op \in page.loads /\ d.key = sel'
     /\ \/ page.watches # {} \/ mode = "roaming" \/ calls = {}
        \/ \E q \in DOMAIN page.ops : page.ops[q].selects

\* What the user and the timers do to the page.
Acts ==
  /\ UNCHANGED <<db, faults>> /\ (Patient => calls = {} \/ UNCHANGED calls)
  /\ calls \subseteq calls' /\ \A d \in calls' : d \in calls \/ (Bare(d) /\ Started(d))
  /\ up \subseteq up' /\ \A d \in calls' : d \in calls \/ ~page.ops[d.op].user \/ page.ops[d.op].up \subseteq up'
  /\ calls # {} /\ epoch' # epoch => mode = "roaming" \/ \E q \in DOMAIN page.ops : page.ops[q].selects
  /\ \A s \in page.slots \ Refreshed(page) :
       \/ view'[s] = Blank /\ (s \in page.resets \/ \E o \in DOMAIN page.ops : s \in page.ops[o].blanks)
       \/ \E o \in DOMAIN page.ops : s \in page.ops[o].opens
       \/ view'[s].of = view[s].of /\ view'[s].has = view[s].has

\* What a control does.
LEMMA PressActs ==
  ASSUME TypeInv, TypeInv', NEW o \in DOMAIN page.ops, Press(o) PROVE Acts
<1>1. PICK k \in Targets(o) :
        LET turns == Op(o).selects /\ k # sel
            started == {o} \union IF turns THEN Effects ELSE {}
            e == IF Op(o).selects THEN epoch + 1 ELSE epoch
        IN  /\ sel' = IF Op(o).selects THEN k ELSE sel
            /\ epoch' = e
            /\ calls' = calls \union Begun(started, k, e, moves + 1)
            /\ up' = up \union Raised(started)
  BY DEF Press
<1>2. PICK os, n : /\ os = {o} \union IF Op(o).selects /\ k # sel THEN Effects ELSE {}
                   /\ n = moves + 1
  OBVIOUS
<1>3. calls' = calls \union Begun(os, k, epoch', n) /\ up' = up \union Raised(os)
  BY <1>1, <1>2
<1>4. UNCHANGED <<db, faults>> /\ (Patient => calls = {})
  BY DEF Press, MayMove
<1>5. ASSUME NEW d \in calls', d \notin calls
      PROVE  Bare(d) /\ Started(d) /\ page.ops[d.op].up \subseteq up'
  <2>1. d \in Begun(os, k, epoch', n)
    BY <1>3, <1>5
  <2>2. Bare(d) /\ d.op \in os /\ d.key = k
    BY <2>1, BegunBare
  <2>3. d.op = o \/ (d.op \in page.loads /\ page.ops[o].selects /\ d.key = sel')
    BY <1>1, <1>2, <2>2 DEF Effects, Op
  <2>4. page.ops[d.op].up \subseteq Raised(os)
    <3>1. PICK q \in Asynchronous(os) : d = Call(q, k, epoch', n)
      BY <2>1 DEF Begun
    <3>2. d.op = q
      BY <3>1 DEF Call
    <3>3. QED
      BY <3>1, <3>2 DEF Raised, Op
  <2>5. QED
    BY <1>1, <1>3, <2>2, <2>3, <2>4 DEF Started
<1>6. ASSUME NEW s \in page.slots
      PROVE  \/ view'[s] = Blank /\ (s \in page.resets \/ \E q \in DOMAIN page.ops : s \in page.ops[q].blanks)
             \/ \E q \in DOMAIN page.ops : s \in page.ops[q].opens
             \/ view'[s].of = view[s].of /\ view'[s].has = view[s].has
  <2>1. PICK b : Shown(o, b, s)
    BY <1>6, Pressed
  <2>2. QED
    BY <2>1 DEF Shown
<1>7. epoch' # epoch => page.ops[o].selects
  BY <1>1 DEF Op
<1>8. QED
  BY <1>3, <1>4, <1>5, <1>6, <1>7 DEF Acts

\* What navigation, typing and timers do.
LEMMA OthersAct ==
  ASSUME TypeInv, KeysInv,
         \/ \E o \in Timers : Polling(o)
         \/ \E k \in Keys : Move(k)
         \/ \E f \in page.forms : Type(f)
         \/ UNCHANGED vars
  PROVE  Acts
<1>1. ASSUME NEW os, NEW k, NEW n, calls' = calls \union Begun(os, k, epoch', n),
             up' = up \union Raised(os), NEW d \in calls', d \notin calls
      PROVE  Bare(d) /\ d.op \in os /\ d.key = k /\ page.ops[d.op].up \subseteq up'
  <2>1. d \in Begun(os, k, epoch', n)
    BY <1>1
  <2>2. Bare(d) /\ d.op \in os /\ d.key = k
    BY <2>1, BegunBare
  <2>3. PICK q \in Asynchronous(os) : d = Call(q, k, epoch', n)
    BY <2>1 DEF Begun
  <2>4. d.op = q
    BY <2>3 DEF Call
  <2>5. page.ops[d.op].up \subseteq Raised(os)
    BY <2>3, <2>4 DEF Raised, Op
  <2>6. QED
    BY <1>1, <2>2, <2>5
<1>2. ASSUME NEW o \in Timers, Polling(o) PROVE Acts
  BY <1>2, PollingChanges DEF Acts
<1>3. ASSUME NEW k \in Keys, Move(k) PROVE Acts
  <2>1. PICK n : n = moves + 1
    OBVIOUS
  <2>2. /\ UNCHANGED <<db, faults>> /\ (Patient => calls = {}) /\ sel' = k /\ epoch' = epoch + 1
        /\ calls' = calls \union Begun(Effects, k, epoch', n) /\ up' = up \union Raised(Effects)
        /\ mode = "roaming" \/ calls = {}
        /\ view' = [s \in page.slots |-> IF s \in page.resets THEN Blank ELSE view[s]]
    BY <1>3, <2>1 DEF Move, MaySelect, MayMove
  <2>3. ASSUME NEW d \in calls', d \notin calls
        PROVE  Bare(d) /\ Started(d) /\ page.ops[d.op].up \subseteq up'
    <3>1. Bare(d) /\ d.op \in Effects /\ d.key = k /\ page.ops[d.op].up \subseteq up'
      BY <1>1, <2>2, <2>3
    <3>2. QED
      BY <2>2, <3>1 DEF Started, Effects
  <2>4. QED
    BY <2>2, <2>3 DEF Acts
<1>4. ASSUME NEW f \in page.forms, Type(f) PROVE Acts
  <2>1. PICK n, os : n = moves + 1 /\ os = IF f \in page.watches THEN Effects ELSE {}
    OBVIOUS
  <2>2. /\ UNCHANGED <<db, faults, sel, epoch>> /\ (Patient => calls = {})
        /\ calls' = calls \union Begun(os, sel, epoch', n) /\ up' = up \union Raised(os)
        /\ view' = [view EXCEPT ![f].edits = moves + 1]
    BY <1>4, <2>1 DEF Type, MayMove
  <2>3. ASSUME NEW d \in calls', d \notin calls
        PROVE  Bare(d) /\ Started(d) /\ page.ops[d.op].up \subseteq up'
    <3>1. Bare(d) /\ d.op \in os /\ d.key = sel /\ page.ops[d.op].up \subseteq up'
      BY <1>1, <2>2, <2>3
    <3>2. QED
      BY <2>1, <2>2, <3>1 DEF Started, Effects
  <2>4. ASSUME NEW s \in page.slots PROVE view'[s].of = view[s].of /\ view'[s].has = view[s].has
    <3>1. view'[s] = IF s = f THEN [view[s] EXCEPT !.edits = moves + 1] ELSE view[s]
      BY <2>2 DEF TypeInv
    <3>2. view[s] = [of |-> view[s].of, has |-> view[s].has, edits |-> view[s].edits]
      BY DEF KeysInv, SlotOf
    <3>3. QED
      BY <3>1, <3>2
  <2>5. QED
    BY <2>2, <2>3, <2>4 DEF Acts
<1>5. CASE UNCHANGED vars
  BY <1>5 DEF vars, Acts
<1>6. QED
  BY <1>2, <1>3, <1>4, <1>5

\* A handler that is served remembers what it wrote.
Serves(c, d) ==
  /\ d.op = c.op /\ d.key = c.key /\ d.epoch = c.epoch /\ d.pos = c.pos /\ d.base = c.base /\ d.from = c.from
  /\ c.wrote = <<>> /\ d.wrote # <<>> /\ DOMAIN d.wrote = At(c).writes
  /\ \A s \in At(c).writes : d.wrote[s] = Version(s, c.key) + 1
  /\ calls' = (calls \ {c}) \union {d}

\* That is what serving does, and it records the write.
LEMMA ServeGoes ==
  ASSUME TypeInv, NEW c \in calls, Serve(c)
  PROVE  /\ \E d : Serves(c, d)
         /\ UNCHANGED <<view, up, faults, epoch, sel>>
         /\ db' = [s \in page.slots |-> IF s \in At(c).writes
                     THEN [db[s] EXCEPT ![Row(s, c.key)] = Append(@, c.key)] ELSE db[s]]
<1>1. PICK w : w = [s \in At(c).writes |-> Version(s, c.key) + 1]
  OBVIOUS
<1>2. PICK d : d = [c EXCEPT !.wrote = w]
  OBVIOUS
<1>3. c = [op |-> c.op, n |-> c.n, key |-> c.key, epoch |-> c.epoch, pos |-> c.pos, sent |-> c.sent,
           base |-> c.base, wrote |-> c.wrote, from |-> c.from]
  BY DEF TypeInv, HandlerOf
<1>4. d = [op |-> c.op, n |-> c.n, key |-> c.key, epoch |-> c.epoch, pos |-> c.pos, sent |-> c.sent,
           base |-> c.base, wrote |-> w, from |-> c.from]
  BY <1>2, <1>3
<1>5. At(c).writes # {} /\ c.wrote = <<>> /\ calls' = (calls \ {c}) \union {d}
  BY <1>1, <1>2 DEF Serve, Unserved
<1>6. w # <<>>
  <2>1. DOMAIN w # {}
    BY <1>1, <1>5
  <2>2. QED
    BY <2>1
<1>7. Serves(c, d)
  BY <1>1, <1>4, <1>5, <1>6 DEF Serves
<1>8. QED
  BY <1>7 DEF Serve

\* A handler that is answered goes on to its next request, if there is one.
Advances(c, d) ==
  /\ d.op = c.op /\ d.key = c.key /\ d.epoch = c.epoch /\ d.base = c.base
  /\ d.pos = c.pos + 1 /\ d.pos \in DOMAIN page.ops[c.op].steps
  /\ d.wrote = <<>> /\ \A s \in page.ops[c.op].steps[d.pos].reads : d.from[s] = Version(s, c.key)
GoesOnTo(c, R, spawns) ==
  /\ calls' = ((calls \ {c}) \union R) \union Begun(spawns, sel, epoch, c.n)
  /\ spawns = {} \/ (Live(c) /\ spawns = At(c).spawns)
  /\ \A d \in R : Advances(c, d)
  /\ \A d, e \in R : d = e
  /\ c.pos + 1 \in DOMAIN page.ops[c.op].steps => R # {}
  /\ \A g \in up \ up' : g \in Raises(page, c.op) /\ (R # {} => g \in At(c).during)

\* That is how a handler proceeds,
LEMMA ProceedsOn ==
  ASSUME TypeInv, NEW c \in calls, NEW spawns, Proceed(c, spawns), UNCHANGED <<epoch, sel>>,
         spawns = {} \/ (Live(c) /\ spawns = At(c).spawns)
  PROVE  \E R : GoesOnTo(c, R, spawns)
<1>1. spawns = {} \/ (Live(c) /\ spawns = At(c).spawns)
  OBVIOUS
<1>2. Proceed(c, spawns)
  OBVIOUS
<1>3. /\ HandlerOf(page, c) /\ DOMAIN page.ops[c.op].steps = 1..Len(page.ops[c.op].steps)
      /\ Len(page.ops[c.op].steps) \in Nat /\ c.pos \in 1..Len(page.ops[c.op].steps)
  BY PageRules DEF TypeInv, WellDescribed, HandlerOf
<1>4. CASE c.pos < Len(Op(c.op).steps)
  <2>1. PICK q, f : /\ q = c.pos + 1
                    /\ f = [s \in Op(c.op).steps[c.pos + 1].reads |-> Version(s, c.key)]
    OBVIOUS
  <2>2. PICK d : d = [c EXCEPT !.pos = q, !.wrote = <<>>, !.from = f]
    OBVIOUS
  <2>3. /\ calls' = (calls \ {c}) \union Begun(spawns, sel, epoch, c.n) \union {d}
        /\ up' = (up \ At(c).during) \union Op(c.op).steps[c.pos + 1].during \union Raised(spawns)
    BY <1>2, <1>4, <2>1, <2>2 DEF Proceed, Others
  <2>4. d = [op |-> c.op, n |-> c.n, key |-> c.key, epoch |-> c.epoch, pos |-> q, sent |-> c.sent,
             base |-> c.base, wrote |-> <<>>, from |-> f]
    BY <1>3, <2>2, Advanced DEF HandlerOf
  <2>5. Advances(c, d)
    <3>1. /\ d.op = c.op /\ d.key = c.key /\ d.epoch = c.epoch /\ d.base = c.base
          /\ d.pos = q /\ d.wrote = <<>> /\ d.from = f
      BY <2>4
    <3>2. q \in DOMAIN page.ops[c.op].steps
      BY <1>3, <1>4, <2>1 DEF Op
    <3>3. \A s \in page.ops[c.op].steps[q].reads : f[s] = Version(s, c.key)
      BY <2>1 DEF Op
    <3>4. QED
      BY <2>1, <3>1, <3>2, <3>3 DEF Advances
  <2>6. \A g \in up \ up' : g \in Raises(page, c.op) /\ g \in At(c).during
    BY <1>3, <2>3 DEF At, Op, Raises
  <2>7. GoesOnTo(c, {d}, spawns)
    BY <1>1, <2>3, <2>5, <2>6 DEF GoesOnTo
  <2>8. QED
    BY <2>7
<1>5. CASE ~(c.pos < Len(Op(c.op).steps))
  <2>1. calls' = (calls \ {c}) \union Begun(spawns, sel, epoch, c.n)
    BY <1>2, <1>5 DEF Proceed, Others
  <2>2. c.pos + 1 \notin DOMAIN page.ops[c.op].steps
    BY <1>3, <1>5 DEF Op
  <2>3. \A g \in up \ up' : g \in Raises(page, c.op)
    BY <1>2, <1>3, <1>5, FlagsAreRaised DEF Proceed, Flags, FlagsOf, At, Op, HandlerOf
  <2>4. GoesOnTo(c, {}, spawns)
    BY <1>1, <2>1, <2>2, <2>3 DEF GoesOnTo
  <2>5. QED
    BY <2>4
<1>6. QED
  BY <1>4, <1>5

\* when it is answered.
LEMMA AnswerGoes ==
  ASSUME TypeInv, NEW c \in calls, Answer(c)
  PROVE  /\ \E R, spawns : GoesOnTo(c, R, spawns)
         /\ UNCHANGED <<db, faults, epoch, sel>>
<1>1. PICK spawns : spawns = IF Live(c) THEN At(c).spawns ELSE {}
  OBVIOUS
<1>2. Proceed(c, spawns) /\ UNCHANGED <<db, faults, epoch, sel>>
  BY <1>1 DEF Answer
<1>3. spawns = {} \/ (Live(c) /\ spawns = At(c).spawns)
  BY <1>1
<1>4. QED
  BY <1>2, <1>3, ProceedsOn

\* Who is under way after an answer.
LEMMA AfterAnswer ==
  ASSUME TypeInv, NEW c \in calls, NEW R, NEW spawns, GoesOnTo(c, R, spawns), UNCHANGED epoch, NEW d \in calls'
  PROVE  \/ d \in calls /\ d # c
         \/ d \in R /\ Advances(c, d)
         \/ Bare(d) /\ d.op \in spawns /\ d.op \in Spawns(page, c.op) /\ d.key = sel
<1>1. CASE d \in Begun(spawns, sel, epoch, c.n)
  <2>1. PICK k, e, n : k = sel /\ e = epoch /\ n = c.n
    OBVIOUS
  <2>2. Bare(d) /\ d.op \in spawns /\ d.key = k
    BY <1>1, <2>1, BegunBare
  <2>3. spawns \subseteq Spawns(page, c.op)
    <3>1. spawns = {} \/ spawns = At(c).spawns
      BY DEF GoesOnTo
    <3>2. c.pos \in DOMAIN page.ops[c.op].steps
      BY DEF TypeInv, HandlerOf
    <3>3. QED
      BY <3>1, <3>2 DEF Spawns, At, Op
  <2>4. QED
    BY <2>1, <2>2, <2>3
<1>2. QED
  BY <1>1 DEF GoesOnTo

\* After a failure there is nobody new, but for the next step of the one that failed.
LEMMA AfterFailure ==
  ASSUME TypeInv, NEW c \in calls, Fail(c), NEW d \in calls'
  PROVE  d \in calls \/ d.wrote = <<>>
<1>1. UNCHANGED <<epoch, sel>>
  BY DEF Fail
<1>2. CASE Proceed(c, {})
  <2>1. PICK R : GoesOnTo(c, R, {})
    BY <1>1, <1>2, ProceedsOn
  <2>2. QED
    BY <1>1, <2>1, AfterAnswer DEF Advances
<1>3. CASE calls' = Others(c)
  BY <1>3 DEF Others
<1>4. QED
  BY <1>2, <1>3 DEF Fail

\* Keys, logs and what nobody fills or writes: so they are when a page opens,
LEMMA KeysInit == ScreensInit => KeysInv
<1> SUFFICES ASSUME ScreensInit PROVE KeysInv
  OBVIOUS
<1>1. /\ view = [s \in page.slots |-> IF s = "rail" THEN [Blank EXCEPT !.of = sel] ELSE Blank]
      /\ calls = Begun(FirstEffects, sel, 0, 0) /\ sel \in Keys
      /\ db = [s \in page.slots |-> [k \in Keys \union {Nil} |-> <<>>]] /\ polls = {}
  BY DEF ScreensInit, Init
<1>2. ASSUME NEW s \in page.slots
      PROVE  SlotOf(view[s]) /\ view[s].of \in Keys \union {Nil} /\ (s # "rail" => view[s].of = Nil)
  <2>1. view[s] = IF s = "rail" THEN [of |-> sel, has |-> {}, edits |-> 0] ELSE [of |-> Nil, has |-> {}, edits |-> 0]
    <3>1. [Blank EXCEPT !.of = sel] = [of |-> sel, has |-> {}, edits |-> 0]
      BY DEF Blank
    <3>2. view[s] = IF s = "rail" THEN [Blank EXCEPT !.of = sel] ELSE Blank
      BY <1>1
    <3>3. QED
      BY <3>1, <3>2 DEF Blank
  <2>2. QED
    BY <1>1, <2>1 DEF SlotOf
<1>3. ASSUME NEW c \in calls
      PROVE  c.key = sel /\ c.wrote = <<>> /\ \A s \in Rebuilt(c.op) : c.base[s] = view[s]
  <2>1. PICK o : c = Call(o, sel, 0, 0)
    BY <1>1 DEF Begun
  <2>2. c.op = o /\ c.key = sel /\ c.wrote = <<>> /\ c.base = [s \in Rebuilt(o) |-> view[s]]
    BY <2>1 DEF Call
  <2>3. QED
    BY <2>2
<1>4. TypeInv
  BY FlagsInit DEF FlagsInv
<1>5. ASSUME NEW s \in page.slots
      PROVE  db[s] \in [Keys \union {Nil} -> Seq(Keys)] /\ \A k \in Keys \union {Nil} : db[s][k] = <<>>
  BY <1>1
<1>6. QED
  BY <1>1, <1>2, <1>3, <1>5 DEF KeysInv

\* An operation is about the selection, a row or a slot of the page.
LEMMA TargetsAreThere ==
  ASSUME TypeInv, NEW o \in DOMAIN page.ops
  PROVE  page.ops[o].target \in page.slots \union {"sel", "row"}
<1>1. mode \in DOMAIN HidesWrites /\ name \in DOMAIN Pages /\ page = Pages[name]
  BY DEF TypeInv, HidesWrites
<1>2. QED
  BY <1>1, WritesAssumption

\* A timer's request is for a key,
LEMMA PollsKept ==
  ASSUME TypeInv, KeysInv, [Next]_vars
  PROVE  \A q \in polls' : q.key \in Keys
<1>1. \A q \in polls : q.key \in Keys
  BY DEF KeysInv
<1>2. ASSUME NEW o \in Timers, Poll(o) PROVE \A q \in polls' : q.key \in Keys
  <2>1. PICK k \in Targets(o) :
          polls' = polls \union
            {[op |-> o, key |-> k, from |-> [s \in Op(o).steps[1].reads |-> Version(s, k)]]}
    BY <1>2 DEF Poll
  <2>2. Op(o).target \in page.slots
    BY DEF Timers, Timed, Op
  <2>3. k \in Keys
    <3>1. WellDescribed(page)
      BY PageRules
    <3>2. \A s \in page.slots : view[s].of \in Keys \union {Nil}
      BY DEF KeysInv
    <3>3. QED
      BY <2>1, <2>2, <3>2 DEF Targets, KeysInv
  <2>4. QED
    BY <1>1, <2>1, <2>3
<1>3. ASSUME NEW o \in Timers, PollAnswer(o) \/ PollFails(o) PROVE polls' \subseteq polls
  BY <1>3 DEF PollAnswer, PollFails
<1>4. CASE \/ \E o \in DOMAIN page.ops : Press(o)
           \/ \E k \in Keys : Move(k)
           \/ \E f \in page.forms : Type(f)
           \/ \E c \in calls : Serve(c) \/ Answer(c) \/ Fail(c)
           \/ UNCHANGED vars
  BY <1>1, <1>4 DEF Press, Move, Type, Serve, Answer, Fail, vars
<1>5. QED
  BY <1>1, <1>2, <1>3, <1>4 DEF Next, Polling

\* and its answer fills a slot for it.
LEMMA PolledSlot ==
  ASSUME TypeInv, KeysInv, NEW o \in Timers, Polling(o), NEW s \in page.slots
  PROVE  view'[s] = view[s] \/ (SlotOf(view'[s]) /\ view'[s].of \in Keys /\ Filled(page, s))
<1>1. CASE Poll(o) \/ PollFails(o)
  BY <1>1 DEF Poll, PollFails
<1>2. CASE PollAnswer(o)
  <2> DEFINE shown == Op(o).steps[1].reads
  <2>1. PICK q \in PollsOf(o) :
          \E seen \in [shown -> 0..(MaxMoves + MaxHasty[name])] :
             view' = [r \in page.slots |->
               IF r \in shown THEN [of |-> q.key, has |-> 1..seen[r], edits |-> 0] ELSE view[r]]
    BY <1>2 DEF PollAnswer
  <2>2. PICK seen : view' = [r \in page.slots |->
               IF r \in shown THEN [of |-> q.key, has |-> 1..seen[r], edits |-> 0] ELSE view[r]]
    BY <2>1
  <2>3. q.key \in Keys
    BY DEF PollsOf, KeysInv
  <2>4. s \in shown => Filled(page, s)
    <3>1. /\ o \in DOMAIN page.ops /\ page.ops[o].steps # <<>>
          /\ page.ops[o].steps # <<>> => 1 \in DOMAIN page.ops[o].steps
      <4>1. WellDescribed(page) /\ o \in Timed(page)
        BY PageRules DEF Timers
      <4>2. page.ops[o].steps = <<Get(page.ops[o].steps[1].reads)>>
        BY <4>1 DEF WellDescribed
      <4>3. \A x : <<x>> # <<>>
        OBVIOUS
      <4>4. QED
        BY <4>1, <4>2, <4>3 DEF WellDescribed, Timed
    <3>2. QED
      BY <3>1 DEF Filled, Fills, Op
  <2> HIDE DEF shown
  <2>5. QED
    BY <2>2, <2>3, <2>4 DEF SlotOf
<1>3. QED
  BY <1>1, <1>2 DEF Polling

\* A slot stays a slot, of some key; if nothing fills it, it is empty.
LEMMA KeysSlots ==
  ASSUME TypeInv, KeysInv, [Next]_vars, WellDescribed(page), NEW s \in page.slots, sel' \in Keys
  PROVE  /\ SlotOf(view'[s]) /\ view'[s].of \in Keys \union {Nil}
         /\ ~Filled(page, s) => view'[s].of = view[s].of \/ view'[s].of = Nil
<1>1. SlotOf(view[s]) /\ view[s].of \in Keys \union {Nil}
  BY DEF KeysInv
<1> DEFINE Fine == /\ SlotOf(view'[s]) /\ view'[s].of \in Keys \union {Nil}
                   /\ ~Filled(page, s) => view'[s].of = view[s].of \/ view'[s].of = Nil
<1>2. CASE view'[s] = view[s]
  BY <1>1, <1>2
<1>3. CASE view'[s] = Blank
  <2>1. view'[s] = [of |-> Nil, has |-> {}, edits |-> 0]
    BY <1>3 DEF Blank
  <2>2. QED
    BY <2>1 DEF SlotOf
<1>4. ASSUME NEW o \in DOMAIN page.ops, Press(o) PROVE Fine
  <2>1. PICK k \in Targets(o) : Shown(o, k, s)
    BY <1>4, Pressed
  <2>2. k \in Keys \union {Nil}
    <3>1. Op(o).target \in page.slots \union {"sel", "row"}
      BY <1>4, TargetsAreThere DEF Op
    <3>2. QED
      BY <2>1, <3>1 DEF Targets, KeysInv
  <2>3. ASSUME view'[s] = [of |-> k, has |-> view[Mirror(s)].has, edits |-> 0], s \in page.ops[o].opens PROVE Fine
    <3>1. SlotOf(view'[s]) /\ view'[s].of = k
      BY <2>3 DEF SlotOf
    <3>2. Filled(page, s)
      BY <1>4, <2>3 DEF Filled
    <3>3. QED
      BY <2>2, <3>1, <3>2
  <2>4. QED
    BY <1>2, <1>3, <2>1, <2>3 DEF Shown
<1>5. ASSUME NEW k \in Keys, Move(k) PROVE Fine
  BY <1>2, <1>3, <1>5 DEF Move
<1>6. ASSUME NEW f \in page.forms, Type(f) PROVE Fine
  <2>1. PICK x : x = moves + 1
    OBVIOUS
  <2>2. view'[s] = IF s = f THEN [view[s] EXCEPT !.edits = x] ELSE view[s]
    BY <1>6, <2>1 DEF Type, TypeInv
  <2>3. PICK v : v = view[s]
    OBVIOUS
  <2>4. CASE s = f
    <3>1. view'[s] = [v EXCEPT !.edits = x] /\ SlotOf(v)
      BY <1>1, <2>2, <2>3, <2>4
    <3>2. SlotOf(view'[s]) /\ view'[s].of = v.of
      BY <3>1, Edited
    <3>3. QED
      BY <1>1, <2>3, <3>2
  <2>5. QED
    BY <1>2, <2>2, <2>4
<1>7. ASSUME NEW c \in calls, Answer(c) PROVE Fine
  <2>1. s \in At(c).rebuilds => s \in Rebuilt(c.op)
    BY DEF Rebuilt, At, Op, TypeInv, HandlerOf
  <2>2. s \in At(c).rebuilds => SlotOf(c.base[s]) /\ c.base[s].of \in Keys \union {Nil}
    BY <2>1 DEF KeysInv
  <2>3. /\ SlotOf(view'[s])
        /\ \/ view'[s].of = view[s].of
           \/ s \in page.derives /\ view'[s].of = sel
           \/ view'[s].of = Nil
           \/ view'[s].of = c.key /\ s \in At(c).reads \union At(c).appends
           \/ view'[s].of = c.base[s].of /\ s \in At(c).rebuilds
    BY <1>1, <1>7, <2>2, AnsweredSlot
  <2>4. s \in At(c).reads \union At(c).appends \union At(c).rebuilds \/ s \in page.derives => Filled(page, s)
    BY DEF Filled, Fills, At, Op, TypeInv, HandlerOf
  <2>5. c.key \in Keys /\ sel \in Keys
    BY DEF KeysInv
  <2>6. QED
    BY <1>1, <2>2, <2>3, <2>4, <2>5
<1>8. ASSUME NEW c \in calls, Fail(c) PROVE Fine
  BY <1>1, <1>8, FailedSlot
<1>9. ASSUME NEW o \in Timers, Polling(o) PROVE Fine
  BY <1>2, <1>9, PolledSlot
<1>10. CASE (\E c \in calls : Serve(c)) \/ UNCHANGED vars
  BY <1>2, <1>10 DEF Serve, vars
<1>11. QED
  BY <1>4, <1>5, <1>6, <1>7, <1>8, <1>9, <1>10 DEF Next

\* What a control is about.
LEMMA TargetsAreKeys ==
  ASSUME TypeInv, KeysInv, NEW o \in DOMAIN page.ops, NEW k \in Targets(o)
  PROVE  k \in Keys
<1>1. Op(o).target \in page.slots \union {"sel", "row"}
  BY TargetsAreThere DEF Op
<1>2. QED
  BY <1>1 DEF Targets, KeysInv

\* A log grows by the key of the handler that is served, in its row.
LEMMA LogsGrow ==
  ASSUME KeysInv, NEW c \in calls, NEW s \in page.slots,
         db' = [r \in page.slots |-> IF r \in At(c).writes
                  THEN [db[r] EXCEPT ![Row(r, c.key)] = Append(@, c.key)] ELSE db[r]]
  PROVE  /\ db'[s] \in [Keys \union {Nil} -> Seq(Keys)]
         /\ s \notin At(c).writes => db'[s] = db[s]
         /\ s \in At(c).writes => \A k \in Keys \union {Nil} :
              db'[s][k] = IF k = Row(s, c.key) THEN Append(db[s][k], c.key) ELSE db[s][k]
<1>1. db[s] \in [Keys \union {Nil} -> Seq(Keys)] /\ c.key \in Keys
  BY DEF KeysInv
<1>2. Row(s, c.key) \in Keys \union {Nil}
  BY <1>1 DEF Row
<1>3. PICK r, x : r = Row(s, c.key) /\ x = c.key
  OBVIOUS
<1>4. db'[s] = IF s \in At(c).writes THEN [db[s] EXCEPT ![r] = Append(db[s][r], x)] ELSE db[s]
  BY <1>3
<1>5. Append(db[s][r], x) \in Seq(Keys)
  BY <1>1, <1>2, <1>3
<1>6. QED
  BY <1>1, <1>2, <1>3, <1>4, <1>5

\* and with every step.
LEMMA KeysKept == FlagsInv /\ KeysInv /\ [Next]_vars => KeysInv'
<1> SUFFICES ASSUME FlagsInv, KeysInv, [Next]_vars PROVE KeysInv'
  OBVIOUS
<1>1. TypeInv /\ TypeInv' /\ UNCHANGED <<name, page, mode>> /\ WellDescribed(page)
  BY TypesKept, PageRules DEF FlagsInv
<1>2. sel' \in Keys
  <2>1. sel \in Keys
    BY DEF KeysInv
  <2>2. ASSUME NEW o \in DOMAIN page.ops, Press(o) PROVE sel' \in Keys
    <3>1. PICK k \in Targets(o) : sel' = IF page.ops[o].selects THEN k ELSE sel
      BY <1>1, <2>2, Pressed
    <3>2. k \in Keys
      BY <1>1, <2>2, TargetsAreKeys
    <3>3. QED
      BY <2>1, <3>1, <3>2
  <2>3. ASSUME NEW k \in Keys, Move(k) PROVE sel' \in Keys
    BY <2>3 DEF Move
  <2>4. CASE \/ \E o \in Timers : Polling(o)
             \/ \E f \in page.forms : Type(f)
             \/ \E c \in calls : Serve(c) \/ Answer(c) \/ Fail(c)
             \/ UNCHANGED vars
    BY <1>1, <2>1, <2>4, PollingChanges DEF Type, Serve, Answer, Fail, vars
  <2>5. QED
    BY <2>2, <2>3, <2>4 DEF Next
<1>3. ASSUME NEW s \in page.slots
      PROVE  /\ SlotOf(view'[s]) /\ view'[s].of \in Keys \union {Nil}
             /\ s # "rail" /\ ~Filled(page, s) => view'[s].of = Nil
  <2>1. s # "rail" /\ ~Filled(page, s) => view[s].of = Nil
    BY <1>3 DEF KeysInv
  <2>2. QED
    BY <1>1, <1>2, <1>3, <2>1, KeysSlots
<1>4. /\ DOMAIN db' = page.slots
      /\ \A s \in page.slots : /\ db'[s] \in [Keys \union {Nil} -> Seq(Keys)]
                               /\ ~Written(page, s) => \A k \in Keys \union {Nil} : db'[s][k] = <<>>
  <2>1. /\ DOMAIN db = page.slots
        /\ \A s \in page.slots : /\ db[s] \in [Keys \union {Nil} -> Seq(Keys)]
                                 /\ ~Written(page, s) => \A k \in Keys \union {Nil} : db[s][k] = <<>>
    BY DEF KeysInv
  <2>2. ASSUME NEW c \in calls, Serve(c), NEW s \in page.slots
        PROVE  /\ db'[s] \in [Keys \union {Nil} -> Seq(Keys)]
               /\ ~Written(page, s) => \A k \in Keys \union {Nil} : db'[s][k] = <<>>
    <3>1. /\ db'[s] \in [Keys \union {Nil} -> Seq(Keys)]
          /\ s \notin At(c).writes => db'[s] = db[s]
      BY <1>1, <2>2, ServeGoes, LogsGrow
    <3>2. s \in At(c).writes => Written(page, s)
      BY <1>1 DEF Written, At, Op, TypeInv, HandlerOf
    <3>3. QED
      BY <2>1, <3>1, <3>2
  <2>3. ASSUME NEW c \in calls, Serve(c) PROVE DOMAIN db' = page.slots
    BY <2>3 DEF Serve
  <2>4. CASE \/ \E o \in DOMAIN page.ops : Press(o)
             \/ \E o \in Timers : Polling(o)
             \/ \E k \in Keys : Move(k)
             \/ \E f \in page.forms : Type(f)
             \/ \E c \in calls : Answer(c) \/ Fail(c)
             \/ UNCHANGED vars
    <3>1. db' = db
      BY <1>1, <2>4, PollingChanges DEF Press, Move, Type, Answer, Fail, vars
    <3>2. QED
      BY <2>1, <3>1
  <2>5. QED
    BY <2>2, <2>3, <2>4 DEF Next
<1>5. ASSUME NEW d \in calls'
      PROVE  /\ d.key \in Keys
             /\ \A s \in page.slots \cap Rebuilt(d.op) : SlotOf(d.base[s]) /\ d.base[s].of \in Keys \union {Nil}
  <2>1. ASSUME Fresh(d), NEW s \in page.slots \cap Rebuilt(d.op)
        PROVE  SlotOf(d.base[s]) /\ d.base[s].of \in Keys \union {Nil}
    BY <2>1 DEF Fresh, KeysInv
  <2>2. ASSUME NEW c \in calls, Same(c, d) PROVE d.key \in Keys
    BY <2>2 DEF Same, KeysInv
  <2>3. ASSUME NEW c \in calls, Same(c, d), NEW s \in page.slots \cap Rebuilt(d.op)
        PROVE  SlotOf(d.base[s]) /\ d.base[s].of \in Keys \union {Nil}
    BY <2>3 DEF Same, KeysInv
  <2>4. d.key \in Targets(d.op) /\ d.op \in DOMAIN page.ops => d.key \in Keys
    BY <1>1, TargetsAreKeys
  <2>5. QED
    BY <1>1, <1>2, <2>1, <2>2, <2>3, <2>4, Origins
<1>6. ASSUME NEW d \in calls' PROVE d.wrote = <<>> \/ DOMAIN d.wrote = At(d).writes
  <2>1. ASSUME d \in calls PROVE d.wrote = <<>> \/ DOMAIN d.wrote = At(d).writes
    BY <2>1 DEF KeysInv
  <2>2. ASSUME NEW c \in calls, Serve(c), d \notin calls PROVE DOMAIN d.wrote = At(d).writes
    <3>1. PICK b : Serves(c, b)
      BY <1>1, <2>2, ServeGoes
    <3>2. d = b
      BY <1>6, <2>2, <3>1 DEF Serves
    <3>3. At(d) = At(c)
      BY <3>1, <3>2 DEF Serves, At
    <3>4. QED
      BY <3>1, <3>2, <3>3 DEF Serves
  <2>3. ASSUME NEW c \in calls, Answer(c), d \notin calls PROVE d.wrote = <<>>
    <3>1. PICK R, spawns : GoesOnTo(c, R, spawns) /\ UNCHANGED epoch
      BY <1>1, <2>3, AnswerGoes
    <3>2. QED
      BY <1>1, <1>6, <2>3, <3>1, AfterAnswer DEF Advances, Bare
  <2>4. ASSUME NEW c \in calls, Fail(c), d \notin calls PROVE d.wrote = <<>>
    BY <1>1, <1>6, <2>4, AfterFailure
  <2>5. ASSUME Acts, d \notin calls PROVE d.wrote = <<>>
    BY <1>6, <2>5 DEF Acts, Bare
  <2>6. QED
    BY <1>1, <2>1, <2>2, <2>3, <2>4, <2>5, PressActs, OthersAct DEF Next
<1>7. \A d \in calls' : (At(d).writes)' = At(d).writes /\ Rebuilt(d.op)' = Rebuilt(d.op)
  BY <1>1 DEF At, Op, Rebuilt
<1>8. \A q \in polls' : q.key \in Keys
  BY <1>1, PollsKept
<1>9. QED
  BY <1>1, <1>2, <1>3, <1>4, <1>5, <1>6, <1>7, <1>8 DEF KeysInv

\* While nothing fails, a step is the user's, or a request is served or answered.
LEMMA FaultFree ==
  ASSUME TypeInv, TypeInv', KeysInv, [Next]_vars, faults \in Nat, faults' = 0
  PROVE  faults = 0 /\ (Acts \/ \E c \in calls : Serve(c) \/ Answer(c))
<1>1. ASSUME NEW c, Fail(c) PROVE FALSE
  BY <1>1 DEF Fail
<1>2. ASSUME NEW c, Serve(c) \/ Answer(c) PROVE faults = 0
  BY <1>2 DEF Serve, Answer
<1>3. ASSUME Acts PROVE faults = 0
  BY <1>3 DEF Acts
<1>4. Acts \/ \E c \in calls : Serve(c) \/ Answer(c)
  BY <1>1, PressActs, OthersAct DEF Next
<1>5. QED
  BY <1>2, <1>3, <1>4

\* The user's steps add handlers, answers replace one and spawn some.
LEMMA TimelyKept ==
  ASSUME TypeInv, TypeInv', KeysInv, [Next]_vars, UNCHANGED <<page, mode>>, InTime
  PROVE  InTime'
<1> SUFFICES ASSUME mode = "hasty", \A o \in DOMAIN page.ops : ~page.ops[o].selects, NEW d \in calls'
             PROVE  d.epoch = epoch'
  BY DEF InTime
<1>1. \A c \in calls : c.epoch = epoch
  BY DEF InTime
<1>2. CASE Acts
  <2>1. calls = {} \/ epoch' = epoch
    BY <1>2 DEF Acts
  <2>2. d \in calls \/ Bare(d)
    BY <1>2 DEF Acts
  <2>3. QED
    BY <1>1, <2>1, <2>2 DEF Bare
<1>3. ASSUME NEW c \in calls, Serve(c) PROVE d.epoch = epoch'
  <2>1. PICK b : Serves(c, b) /\ UNCHANGED epoch
    BY <1>3, ServeGoes
  <2>2. QED
    BY <1>1, <1>3, <2>1 DEF Serves
<1>4. ASSUME NEW c \in calls, Answer(c) PROVE d.epoch = epoch'
  <2>1. PICK R, spawns : GoesOnTo(c, R, spawns) /\ UNCHANGED epoch
    BY <1>4, AnswerGoes
  <2>2. QED
    BY <1>1, <1>4, <2>1, AfterAnswer DEF Advances, Bare
<1>5. ASSUME NEW c \in calls, Fail(c) PROVE FALSE
  BY <1>5 DEF Fail
<1>6. QED
  BY <1>2, <1>3, <1>4, <1>5, PressActs, OthersAct DEF Next

(***************************************************************************)
(* What is written is shown: who uses a slot that is written.              *)
(***************************************************************************)
\* The rules of such a slot.
LEMMA ShowRules ==
  ASSUME TypeInv, NEW s, ShowsWrites(name, mode, s)
  PROVE  /\ s \in page.slots \ Refreshed(page) /\ s \notin DOMAIN page.mirror /\ s \notin page.derives
         /\ Patient => WritesAlone(page, s)
         /\ ~Patient => SavesAlone(name, mode, s)
         /\ \A o \in DOMAIN page.ops : s \notin page.ops[o].opens
         /\ \A k : Mirror(s) = s /\ Version(s, k) = Len(db[s][Row(s, k)]) /\ Log(s, k) = db[s][Row(s, k)]
<1>1. page = Pages[name]
  BY DEF TypeInv
<1>2. QED
  BY <1>1 DEF ShowsWrites, Patient, Mirror, Version, Log

\* The rules of a step that concerns it.
LEMMA StepRules ==
  ASSUME TypeInv, NEW s, ShowsWrites(name, mode, s), NEW o \in DOMAIN page.ops,
         NEW i \in DOMAIN page.ops[o].steps, NEW st, st = page.ops[o].steps[i]
  PROVE  /\ s \notin st.empties
         /\ s \in st.writes =>
              /\ page.ops[o].user /\ ~Guarded(page, o) /\ \A q \in DOMAIN page.ops : o \notin Spawns(page, q)
              /\ \/ \E j \in i..Len(page.ops[o].steps) :
                      s \in page.ops[o].steps[j].reads \union page.ops[o].steps[j].clears
                 \/ s \in st.patches \union st.drops \union st.rebuilds \union st.appends
         /\ s \in st.patches \union st.rebuilds => s \in st.writes
         /\ s \in st.rebuilds => i = 1 /\ s \notin page.ops[o].blanks /\ ~page.ops[o].selects
         /\ s \in st.appends => Adds(page, mode, o, s)
         /\ s \in st.writes \union Fills(st) \union st.patches \union st.drops \union st.clears => Uses(page, o, s)
<1>1. page = Pages[name]
  BY DEF TypeInv
<1>2. s \in st.writes \union Fills(st) \union st.patches \union st.drops \union st.clears => Uses(page, o, s)
  BY DEF Uses
<1>3. QED
  BY <1>1, <1>2 DEF ShowsWrites

\* Who writes is the user's, and uses what he writes.
LEMMA WritersAre ==
  ASSUME TypeInv, NEW s, ShowsWrites(name, mode, s), NEW c, HandlerOf(page, c), Writing(c, s)
  PROVE  /\ page.ops[c.op].user /\ ~Guarded(page, c.op) /\ Uses(page, c.op, s)
         /\ \A q \in DOMAIN page.ops : c.op \notin Spawns(page, q)
<1>1. PICK j \in DOMAIN page.ops[c.op].steps : s \in page.ops[c.op].steps[j].writes
  BY DEF Writing
<1>2. QED
  BY <1>1, StepRules DEF HandlerOf

\* Of those who wait: a control that will write is pressed when nothing is under
\* way and starts nothing else,
LEMMA PressAlone ==
  ASSUME TypeInv, WellDescribed(page), Patient, NEW s, ShowsWrites(name, mode, s),
         NEW o \in DOMAIN page.ops, Press(o), NEW c \in calls', NEW d \in calls',
         HandlerOf(page, c), Writing(c, s)
  PROVE  c = d
<1>1. PICK k \in Targets(o) : \E os, e :
         /\ calls' = calls \union Begun(os, k, e, moves + 1)
         /\ \A q \in os : q = o \/ (q \in page.loads /\ page.ops[o].selects)
  BY Pressed
<1>2. PICK os, e : /\ calls' = calls \union Begun(os, k, e, moves + 1)
                   /\ \A q \in os : q = o \/ (q \in page.loads /\ page.ops[o].selects)
  BY <1>1
<1>3. calls = {}
  BY DEF Press, MayMove
<1>4. PICK n : n = moves + 1
  OBVIOUS
<1>5. c \in Begun(os, k, e, n) /\ d \in Begun(os, k, e, n)
  BY <1>2, <1>3, <1>4
<1>6. c.op \in os /\ d.op \in os /\ (c.op = d.op => c = d)
  BY <1>5, BegunOnce
<1>7. page.ops[c.op].user
  BY WritersAre
<1>8. \A q \in page.loads : ~page.ops[q].user
  BY DEF WellDescribed
<1>9. c.op = o
  BY <1>2, <1>6, <1>7, <1>8
<1>10. PICK j \in DOMAIN page.ops[o].steps : s \in page.ops[o].steps[j].writes
  BY <1>9 DEF Writing
<1>11. page.ops[o].selects => page.loads = {}
  BY <1>10, ShowRules DEF WritesAlone
<1>12. d.op = o
  BY <1>2, <1>6, <1>11
<1>13. QED
  BY <1>6, <1>9, <1>12

\* and stays alone until it has written.
LEMMA AloneKept ==
  ASSUME TypeInv, TypeInv', KeysInv, WellDescribed(page), [Next]_vars, UNCHANGED <<page, mode>>,
         faults \in Nat, faults' = 0, Patient, NEW s, ShowsWrites(name, mode, s), Alone(s)
  PROVE  Alone(s)'
<1> SUFFICES ASSUME NEW c \in calls', NEW d \in calls', Writing(c, s) PROVE c = d
  BY DEF Alone, Writing
<1>1. \A a, b \in calls : Writing(a, s) => a = b
  BY DEF Alone
<1>2. HandlerOf(page, c) /\ HandlerOf(page, d) /\ \A b \in calls : HandlerOf(page, b)
  BY DEF TypeInv
<1>3. page.ops[c.op].user /\ \A q \in DOMAIN page.ops : c.op \notin Spawns(page, q)
  BY <1>2, WritersAre
<1>4. ASSUME NEW o \in DOMAIN page.ops, Press(o) PROVE c = d
  BY <1>2, <1>4, PressAlone
<1>5. CASE Acts /\ ~\E o \in DOMAIN page.ops : Press(o)
  <2>1. c \in calls
    BY <1>3, <1>5 DEF Acts, Started, WellDescribed
  <2>2. calls' = calls
    BY <1>5, <2>1 DEF Acts
  <2>3. QED
    BY <1>1, <2>1, <2>2
<1>6. ASSUME NEW b \in calls, Serve(b) PROVE c = d
  <2>1. PICK a : Serves(b, a)
    BY <1>6, ServeGoes
  <2>2. c = a => Writing(b, s)
    BY <2>1 DEF Serves, Writing
  <2>3. c \in calls \ {b} \/ c = a
    BY <2>1 DEF Serves
  <2>4. d \in calls \ {b} \/ d = a
    BY <2>1 DEF Serves
  <2>5. QED
    BY <1>1, <1>6, <2>2, <2>3, <2>4
<1>7. ASSUME NEW b \in calls, Answer(b) PROVE c = d
  <2>1. PICK R, spawns : GoesOnTo(b, R, spawns) /\ UNCHANGED epoch
    BY <1>7, AnswerGoes
  <2>2. b.op \in DOMAIN page.ops /\ b.pos \in DOMAIN page.ops[b.op].steps
    BY <1>2, <1>7 DEF HandlerOf
  <2>3. c \in calls \ {b} \/ (c \in R /\ Advances(b, c))
    <3>1. b.op \in DOMAIN page.ops
      BY <2>2
    <3>2. QED
      BY <1>3, <1>7, <2>1, <3>1, AfterAnswer
  <2>4. CASE c \in calls \ {b}
    BY <1>1, <1>7, <2>4
  <2>5. CASE c \in R /\ Advances(b, c)
    <3>1. PICK j \in DOMAIN page.ops[b.op].steps : c.pos <= j /\ s \in page.ops[b.op].steps[j].writes
      BY <2>5 DEF Writing, Advances
    <3>2. /\ DOMAIN page.ops[b.op].steps = 1..Len(page.ops[b.op].steps)
          /\ Len(page.ops[b.op].steps) \in Nat /\ c.pos = b.pos + 1
      BY <2>2, <2>5 DEF WellDescribed, Advances
    <3>3. b.pos <= j /\ b.pos \in 1..(j - 1)
      BY <2>2, <3>1, <3>2
    <3>4. Writing(b, s)
      BY <3>1, <3>3 DEF Writing
    <3>5. page.ops[b.op].steps[b.pos].spawns = {}
      BY <2>2, <3>1, <3>3, ShowRules DEF WritesAlone
    <3>6. spawns = {}
      BY <2>1, <3>5 DEF GoesOnTo, At, Op
    <3>7. d \in calls \ {b} \/ d \in R
      BY <1>7, <2>1, <3>6, AfterAnswer
    <3>8. d \notin calls \ {b}
      BY <1>1, <1>7, <3>4
    <3>9. QED
      BY <2>1, <2>5, <3>7, <3>8 DEF GoesOnTo
  <2>6. QED
    BY <2>3, <2>4, <2>5
<1>8. QED
  BY <1>4, <1>5, <1>6, <1>7, FaultFree

\* Of the others: who uses the slot is the one control, or a load that hides it.
LEMMA SoleRules ==
  ASSUME TypeInv, ~Patient, NEW s, ShowsWrites(name, mode, s), NEW o \in DOMAIN page.ops, Uses(page, o, s)
  PROVE  /\ \A q \in DOMAIN page.ops : page.ops[o].user /\ page.ops[q].user /\ Uses(page, q, s) => o = q
         /\ page.ops[o].user => \E g \in page.ops[o].up : HasOwnFlag(page, o, g)
         /\ ~page.ops[o].user =>
              /\ o \in page.loads /\ page.ops[o].target \notin page.slots
              /\ mode = "hasty" /\ Kept(LocksWrongly) /\ page.ops[o].up \cap page.hides # {}
              /\ page.watches = {}
              /\ \A q \in DOMAIN page.ops : ~page.ops[q].selects /\ o \notin Spawns(page, q)
         /\ \A q \in DOMAIN page.ops : o \notin Spawns(page, q)
<1>1. page = Pages[name] /\ SavesAlone(name, mode, s)
  BY ShowRules DEF TypeInv
<1>2. \/ \E g \in page.ops[o].up : HasOwnFlag(page, o, g)
      \/ /\ ~page.ops[o].user /\ o \in page.loads /\ page.ops[o].target \notin page.slots
         /\ mode = "hasty" /\ Kept(LocksWrongly) /\ page.ops[o].up \cap page.hides # {}
         /\ page.watches = {} /\ \A q \in DOMAIN page.ops : ~page.ops[q].selects /\ o \notin Spawns(page, q)
  BY <1>1 DEF SavesAlone, Kept
<1>3. \A q \in DOMAIN page.ops : page.ops[o].user /\ page.ops[q].user /\ Uses(page, q, s) => o = q
  BY <1>1 DEF SavesAlone
<1>4. CASE \E g \in page.ops[o].up : HasOwnFlag(page, o, g)
  BY <1>3, <1>4 DEF HasOwnFlag
<1>5. QED
  BY <1>2, <1>3, <1>4

\* It is disabled while another one uses the slot.
LEMMA UserIsAlone ==
  ASSUME FlagsInv, InTime, NEW s, ShowsWrites(name, mode, s), Excluded(s),
         NEW o \in DOMAIN page.ops, Uses(page, o, s), Press(o), NEW c \in calls
  PROVE  ~Uses(page, c.op, s)
<1>1. TypeInv
  BY DEF FlagsInv
<1>2. Visible /\ page.ops[o].user /\ page.ops[o].idle \cap up = {}
  BY DEF Press, Op
<1>3. ~Patient /\ Sole(s)
  BY DEF Press, MayMove, Excluded
<1>4. c.op \in DOMAIN page.ops
  BY <1>1 DEF TypeInv, HandlerOf
<1> SUFFICES ASSUME Uses(page, c.op, s) PROVE FALSE
  OBVIOUS
<1>5. CASE page.ops[c.op].user
  <2>1. c.op = o
    BY <1>1, <1>2, <1>3, <1>4, <1>5, SoleRules
  <2>2. PICK g \in page.ops[o].up : HasOwnFlag(page, o, g)
    BY <1>1, <1>2, <1>3, SoleRules
  <2>3. g \in up
    BY <1>3, <2>1, <2>2 DEF Sole
  <2>4. QED
    BY <1>2, <2>2, <2>3 DEF HasOwnFlag
<1>6. CASE ~page.ops[c.op].user
  <2>1. /\ mode = "hasty" /\ Kept(LocksWrongly) /\ page.ops[c.op].up \cap page.hides # {}
        /\ \A q \in DOMAIN page.ops : ~page.ops[q].selects
    BY <1>1, <1>3, <1>4, <1>6, SoleRules
  <2>2. c.epoch = epoch /\ Busied(page, epoch, calls, up)
    BY <2>1 DEF InTime, FlagsInv, Holds
  <2>3. page.hides \cap page.ops[c.op].up = {}
    BY <1>1, <1>2, <2>2, Disabled DEF Visible, LiveAt
  <2>4. QED
    BY <2>1, <2>3
<1>7. QED
  BY <1>5, <1>6

\* So it stays alone when it is pressed,
LEMMA SolePress ==
  ASSUME FlagsInv, InTime, ~Patient, NEW s, ShowsWrites(name, mode, s), Excluded(s),
         \A b \in calls' : b.op \in DOMAIN page.ops,
         NEW o \in DOMAIN page.ops, Press(o), NEW c \in calls', NEW d \in calls',
         Uses(page, c.op, s), Uses(page, d.op, s), page.ops[c.op].user
  PROVE  c = d
<1>1. TypeInv /\ WellDescribed(page) /\ Sole(s)
  BY PageRules DEF FlagsInv, Excluded
<1>2. PICK k \in Targets(o) : \E os, e :
         /\ calls' = calls \union Begun(os, k, e, moves + 1)
         /\ \A q \in os : q = o \/ (q \in page.loads /\ page.ops[o].selects)
  BY <1>1, Pressed
<1>3. PICK os, e : /\ calls' = calls \union Begun(os, k, e, moves + 1)
                   /\ \A q \in os : q = o \/ (q \in page.loads /\ page.ops[o].selects)
  BY <1>2
<1>4. PICK n : n = moves + 1
  OBVIOUS
<1>5. page.ops[o].user
  BY DEF Press, Op
<1>6. ASSUME NEW b \in Begun(os, k, e, n), b \in calls', Uses(page, b.op, s) PROVE b.op = o
  <2>1. b.op \in os /\ b.op \in DOMAIN page.ops
    BY <1>6, BegunOnce
  <2>2. b.op \in page.loads => ~page.ops[b.op].user
    BY <1>1 DEF WellDescribed
  <2>3. ~page.ops[b.op].user => ~page.ops[o].selects
    BY <1>1, <1>6, <2>1, SoleRules
  <2>4. QED
    BY <1>3, <2>1, <2>2, <2>3
<1>7. ASSUME NEW b \in Begun(os, k, e, n), b \in calls', Uses(page, b.op, s), NEW a \in calls
      PROVE  ~Uses(page, a.op, s)
  BY <1>6, <1>7, UserIsAlone
<1>8. CASE c \in calls /\ d \in calls
  BY <1>1, <1>8 DEF Sole
<1>9. CASE c \in Begun(os, k, e, n) /\ d \in Begun(os, k, e, n)
  BY <1>6, <1>9, BegunOnce
<1>10. QED
  BY <1>3, <1>4, <1>7, <1>8, <1>9

\* and in all other steps.
LEMMA SoleKept ==
  ASSUME FlagsInv, FlagsInv', KeysInv, InTime, [Next]_vars, UNCHANGED <<page, mode>>,
         faults \in Nat, faults' = 0, ~Patient, NEW s, ShowsWrites(name, mode, s), Excluded(s)
  PROVE  Sole(s)'
<1>1. TypeInv /\ TypeInv' /\ WellDescribed(page) /\ Sole(s)
  BY PageRules DEF FlagsInv, Excluded
<1>2. \A b \in calls \union calls' : HandlerOf(page, b) /\ b.op \in DOMAIN page.ops
  BY <1>1 DEF TypeInv, HandlerOf
<1>3. ASSUME NEW d \in calls', d \notin calls, Started(d), Uses(page, d.op, s)
      PROVE  (d.op \in DOMAIN page.ops /\ Press(d.op)) \/ (calls = {} /\ ~page.ops[d.op].user)
  <2>1. ~page.ops[d.op].user =>
           /\ page.ops[d.op].target \notin page.slots /\ mode = "hasty" /\ page.watches = {}
           /\ \A q \in DOMAIN page.ops : ~page.ops[q].selects
    BY <1>1, <1>2, <1>3, SoleRules
  <2>2. d.op \in page.loads => ~page.ops[d.op].user
    BY <1>1 DEF WellDescribed
  <2>3. QED
    BY <1>3, <2>1, <2>2 DEF Started
<1>4. ASSUME NEW c \in calls', NEW d \in calls', Uses(page, c.op, s), Uses(page, d.op, s), page.ops[c.op].user
      PROVE  c = d
  <2>1. ASSUME NEW o \in DOMAIN page.ops, Press(o) PROVE c = d
    BY <1>1, <1>2, <1>4, <2>1, SolePress
  <2>2. CASE Acts
    <3>1. CASE c \in calls /\ d \in calls
      BY <1>1, <1>4, <3>1 DEF Sole
    <3>2. CASE c \notin calls
      <4>1. Started(c)
        BY <2>2, <3>2 DEF Acts
      <4>2. QED
        BY <1>3, <1>4, <2>1, <3>2, <4>1
    <3>3. CASE c \in calls /\ d \notin calls
      <4>1. Started(d)
        BY <2>2, <3>3 DEF Acts
      <4>2. QED
        BY <1>3, <1>4, <2>1, <3>3, <4>1
    <3>4. QED
      BY <3>1, <3>2, <3>3
  <2>3. ASSUME NEW b \in calls, Serve(b) PROVE c = d
    <3>1. PICK a : Serves(b, a)
      BY <1>1, <2>3, ServeGoes
    <3>2. a.op = b.op
      BY <3>1 DEF Serves
    <3>3. (c \in calls \ {b} \/ c = a) /\ (d \in calls \ {b} \/ d = a)
      BY <3>1 DEF Serves
    <3>4. QED
      BY <1>1, <1>4, <2>3, <3>2, <3>3 DEF Sole
  <2>4. ASSUME NEW b \in calls, Answer(b) PROVE c = d
    <3>1. PICK R, spawns : GoesOnTo(b, R, spawns) /\ UNCHANGED epoch
      BY <1>1, <2>4, AnswerGoes
    <3>2. \A a \in calls' : Uses(page, a.op, s) => a \in calls \ {b} \/ (a \in R /\ a.op = b.op)
      <4>1. SUFFICES ASSUME NEW a \in calls', Uses(page, a.op, s), a.op \in Spawns(page, b.op) PROVE FALSE
        BY <1>1, <2>4, <3>1, AfterAnswer DEF Advances
      <4>2. QED
        BY <1>1, <1>2, <2>4, <4>1, SoleRules
    <3>3. \A a1, a2 \in R : a1 = a2
      BY <3>1 DEF GoesOnTo
    <3>4. QED
      BY <1>1, <1>4, <2>4, <3>2, <3>3 DEF Sole
  <2>5. QED
    BY <1>1, <2>2, <2>3, <2>4, FaultFree
<1>5. ASSUME NEW c \in calls', Uses(page, c.op, s), NEW g \in page.ops[c.op].up, HasOwnFlag(page, c.op, g)
      PROVE  g \in up'
  <2>1. page.ops[c.op].user /\ \A q \in DOMAIN page.ops : q # c.op => g \notin Raises(page, q)
    BY <1>5 DEF HasOwnFlag
  <2>2. CASE Acts
    <3>1. CASE c \in calls
      <4>1. g \in up
        BY <1>1, <1>5, <3>1 DEF Sole
      <4>2. QED
        BY <2>2, <4>1 DEF Acts
    <3>2. CASE c \notin calls
      BY <1>5, <2>1, <2>2, <3>2 DEF Acts
    <3>3. QED
      BY <3>1, <3>2
  <2>3. ASSUME NEW b \in calls, Serve(b) PROVE g \in up'
    <3>1. PICK a : Serves(b, a) /\ UNCHANGED up
      BY <1>1, <2>3, ServeGoes
    <3>2. \E a2 \in calls : a2.op = c.op
      BY <1>5, <2>3, <3>1 DEF Serves
    <3>3. QED
      BY <1>1, <1>5, <3>1, <3>2 DEF Sole
  <2>4. ASSUME NEW b \in calls, Answer(b) PROVE g \in up'
    <3>1. PICK R, spawns : GoesOnTo(b, R, spawns) /\ UNCHANGED epoch
      BY <1>1, <2>4, AnswerGoes
    <3>2. c \in calls \ {b} \/ (c \in R /\ c.op = b.op)
      <4>1. SUFFICES ASSUME c.op \in Spawns(page, b.op) PROVE FALSE
        BY <1>1, <1>5, <2>4, <3>1, AfterAnswer DEF Advances
      <4>2. QED
        BY <1>1, <1>2, <1>5, <2>4, <4>1, SoleRules
    <3>3. g \in up
      BY <1>1, <1>5, <2>4, <3>2 DEF Sole
    <3>4. g \in up \ up' => g \in Raises(page, b.op) /\ (R # {} => g \in At(b).during)
      BY <3>1 DEF GoesOnTo
    <3>5. CASE c \in calls \ {b}
      <4>1. b.op = c.op => b = c
        BY <1>1, <1>5, <2>1, <2>4, <3>5 DEF Sole
      <4>2. b.op # c.op
        BY <3>5, <4>1
      <4>3. g \notin Raises(page, b.op)
        BY <1>2, <2>1, <2>4, <4>2
      <4>4. QED
        BY <3>3, <3>4, <4>3
    <3>6. CASE c \in R /\ c.op = b.op
      <4>1. b.op \in DOMAIN page.ops /\ b.pos \in DOMAIN page.ops[b.op].steps
        BY <1>2, <2>4 DEF HandlerOf
      <4>2. page.ops[b.op].up \cap At(b).during = {}
        BY <1>1, <4>1 DEF WellDescribed, At, Op
      <4>3. QED
        BY <1>5, <3>3, <3>4, <3>6, <4>2
    <3>7. QED
      BY <3>2, <3>5, <3>6
  <2>5. QED
    BY <1>1, <2>2, <2>3, <2>4, FaultFree
<1>6. QED
  BY <1>4, <1>5 DEF Sole

\* While a handler has still to write the slot, no other one uses it.
LEMMA Exclusive ==
  ASSUME TypeInv, NEW s, ShowsWrites(name, mode, s), Excluded(s),
         NEW c \in calls, Writing(c, s), NEW d \in calls, d # c
  PROVE  ~Uses(page, d.op, s)
<1>1. HandlerOf(page, c)
  BY DEF TypeInv
<1>2. page.ops[c.op].user /\ Uses(page, c.op, s)
  BY <1>1, WritersAre
<1>3. QED
  BY <1>2 DEF Excluded, Alone, Sole

\* So it is after each step, of those who wait and of the others.
LEMMA ExcludedKept ==
  ASSUME FlagsInv, FlagsInv', KeysInv, InTime, [Next]_vars, UNCHANGED <<page, mode>>,
         faults \in Nat, faults' = 0, NEW s, ShowsWrites(name, mode, s), Excluded(s)
  PROVE  Excluded(s)'
<1>1. TypeInv /\ TypeInv' /\ WellDescribed(page) /\ (Patient' <=> Patient)
  BY PageRules DEF FlagsInv, Patient
<1>2. CASE Patient
  BY <1>1, <1>2, AloneKept DEF Excluded
<1>3. CASE ~Patient
  BY <1>1, <1>3, SoleKept DEF Excluded
<1>4. QED
  BY <1>2, <1>3

(***************************************************************************)
(* What is written is shown: what an answer makes of the slot.             *)
(***************************************************************************)
\* Versions are numbers, and a row has one.
LEMMA RowsCount ==
  ASSUME TypeInv, KeysInv, NEW s, ShowsWrites(name, mode, s), NEW k \in Keys \union {Nil}
  PROVE  /\ Version(s, k) \in Nat
         /\ Row(s, k) = IF s \in page.shared THEN Nil ELSE k
         /\ \A x : Row(s, x) = Row(s, k) => Version(s, x) = Version(s, k) /\ Log(s, x) = Log(s, k)
<1>1. /\ s \in page.slots
      /\ \A x : Mirror(s) = s /\ Version(s, x) = Len(db[s][Row(s, x)]) /\ Log(s, x) = db[s][Row(s, x)]
  BY ShowRules
<1>2. Row(s, k) = IF s \in page.shared THEN Nil ELSE k
  BY <1>1 DEF Row
<1>3. db[s][Row(s, k)] \in Seq(Keys)
  BY <1>1, <1>2 DEF KeysInv
<1>4. QED
  BY <1>1, <1>2, <1>3

\* What a handler adds to the slot when it is answered.
LEMMA AddsOwn ==
  ASSUME TypeInv, KeysInv, NEW s, ShowsWrites(name, mode, s), NEW c \in calls, ~Unserved(c), Knows(c, s)
  PROVE  /\ s \in At(c).writes => s \in DOMAIN c.wrote /\ c.wrote[s] = Version(s, c.key) /\ c.wrote # <<>>
         /\ s \notin At(c).writes => s \notin DOMAIN c.wrote
<1>1. c.wrote = <<>> \/ DOMAIN c.wrote = At(c).writes
  BY DEF KeysInv
<1>2. CASE s \in At(c).writes
  <2>1. c.wrote # <<>>
    BY <1>2 DEF Unserved
  <2>2. QED
    BY <1>1, <1>2, <2>1 DEF Knows
<1>3. CASE s \notin At(c).writes
  <2>1. DOMAIN <<>> = {}
    OBVIOUS
  <2>2. QED
    BY <1>1, <1>3, <2>1
<1>4. QED
  BY <1>2, <1>3

\* It is emptied, complete, or a list that has lost nothing and shows what the
\* handler has written.
Lists(c, s) ==
  /\ s \notin At(c).reads \union At(c).clears \union At(c).rebuilds /\ Loaded(s)
  /\ Row(s, view'[s].of) = Row(s, view[s].of)
  /\ \A n \in 1..Version(s, view[s].of) : n \in view[s].has => n \in view'[s].has
  /\ s \in At(c).writes /\ s \in At(c).patches \union At(c).drops \union At(c).appends
       /\ Row(s, view[s].of) = Row(s, c.key) => Version(s, c.key) \in view'[s].has

\* These are all: whether the answer reloads, patches, rebuilds or extends the list.
LEMMA AnsweredList ==
  ASSUME TypeInv, KeysInv, NEW s, ShowsWrites(name, mode, s), NEW c \in calls, Answer(c), Live(c), Knows(c, s)
  PROVE  \/ view'[s].of = Nil
         \/ Complete(view'[s], s)
         \/ Lists(c, s)
<1>1. PICK seen \in Seen(c) :
         view' = [r \in page.slots |->
                    IF ~Live(c) THEN view[r]
                    ELSE IF Derived(c, r)
                      THEN [of |-> sel, has |-> Applied(c, seen, Mirror(r)).has, edits |-> 0]
                    ELSE Applied(c, seen, r)]
  BY DEF Answer
<1>2. /\ s \in page.slots /\ s \notin page.derives /\ Mirror(s) = s
      /\ s \notin At(c).empties
      /\ s \in At(c).patches \union At(c).rebuilds => s \in At(c).writes
  BY ShowRules, StepRules DEF At, Op, TypeInv, HandlerOf
<1>3. view'[s] = Applied(c, seen, s)
  BY <1>1, <1>2 DEF Derived
<1> DEFINE st == At(c)
           own == IF s \in DOMAIN c.wrote THEN {c.wrote[s]} ELSE {}
           row == c.key = view[s].of \/ s \in page.shared
           V == Version(s, c.key)
<1>4. view'[s] =
        IF s \in st.clears THEN Blank
        ELSE IF s \in st.reads THEN
          [of |-> c.key, has |-> 1..seen[s],
           edits |-> IF s \in st.keeps /\ view[s].of = c.key THEN view[s].edits ELSE 0]
        ELSE IF s \in st.rebuilds THEN [c.base[s] EXCEPT !.has = @ \union own]
        ELSE IF s \in st.patches /\ Loaded(s) /\ row THEN [view[s] EXCEPT !.has = Patched(c, s, own)]
        ELSE IF s \in st.drops /\ Loaded(s) /\ row THEN [view[s] EXCEPT !.has = @ \union own]
        ELSE IF s \in st.appends THEN
          [of |-> c.key, has |-> (IF row THEN view[s].has ELSE {}) \union own, edits |-> 0]
        ELSE view[s]
  BY <1>2, <1>3 DEF Applied
<1>5. ~Unserved(c)
  BY DEF Answer
<1>6. /\ s \in st.writes => own = {V}
      /\ s \notin st.writes => own = {}
  BY <1>5, AddsOwn
<1>7. c.key \in Keys /\ view[s].of \in Keys \union {Nil} /\ SlotOf(view[s])
  BY <1>2 DEF KeysInv
<1>8. V \in Nat
  BY <1>7, RowsCount
<1>9. Loaded(s) => (row <=> Row(s, view[s].of) = Row(s, c.key))
  BY <1>7, RowsCount DEF Loaded
<1>10. Row(s, view[s].of) = Row(s, c.key) => Version(s, view[s].of) = V /\ Log(s, view[s].of) = Log(s, c.key)
  BY <1>7, RowsCount
<1>11. s \in st.writes => V # 0 /\ Log(s, c.key)[V] = c.key
  BY <1>5, AddsOwn DEF Knows
<1> HIDE DEF st, own, row, V
<1>12. CASE s \in st.clears
  BY <1>4, <1>12 DEF Blank
<1>13. CASE s \notin st.clears /\ s \in st.reads
  <2>1. seen[s] = V
    <3>1. s \in At(c).reads /\ (IF s \in DOMAIN c.wrote THEN seen[s] = c.wrote[s] ELSE seen[s] \in c.from[s]..Version(s, c.key))
      BY <1>2, <1>13 DEF Seen, st
    <3>2. CASE s \in st.writes
      BY <1>5, <3>1, <3>2, AddsOwn DEF st, V
    <3>3. CASE s \notin st.writes
      <4>1. c.from[s] = V
        BY <3>1, <3>3 DEF Knows, st, V
      <4>2. seen[s] \in V..V
        BY <1>5, <3>1, <3>3, <4>1, AddsOwn DEF st, V
      <4>3. QED
        BY <1>8, <4>2
    <3>4. QED
      BY <3>2, <3>3
  <2>2. view'[s].of = c.key /\ view'[s].has = 1..V
    BY <1>4, <1>13, <2>1
  <2>3. QED
    BY <2>2 DEF Complete, V
<1>14. CASE s \notin st.clears \union st.reads /\ s \in st.rebuilds
  <2>1. PICK v, w : v = c.base[s] /\ w = v.has \union own
    OBVIOUS
  <2>2. view'[s] = [v EXCEPT !.has = w]
    BY <1>4, <1>14, <2>1
  <2>3. s \in Rebuilt(c.op)
    BY <1>14 DEF Rebuilt, st, At, Op, TypeInv, HandlerOf
  <2>4. SlotOf(v) /\ v.of \in Keys \union {Nil}
    BY <1>2, <2>1, <2>3 DEF KeysInv
  <2>5. view'[s].of = v.of /\ view'[s].has = w
    <3>1. v = [of |-> v.of, has |-> v.has, edits |-> v.edits]
      BY <2>4 DEF SlotOf
    <3>2. QED
      BY <2>2, <3>1
  <2>6. own = {V} /\ c.wrote # <<>>
    BY <1>2, <1>5, <1>6, <1>14, AddsOwn DEF st
  <2>7. CASE v.of # Nil
    <3>1. /\ 1..(Version(s, v.of) - 1) \subseteq v.has
          /\ Complete(v, s) \/ Row(s, v.of) = Row(s, c.key)
      BY <1>14, <2>1, <2>7 DEF Knows, st
    <3>2. Row(s, v.of) = Row(s, c.key) => Version(s, v.of) = V
      BY <1>7, RowsCount DEF V
    <3>3. Version(s, v.of) \in Nat
      BY <2>4, RowsCount
    <3>4. 1..Version(s, v.of) \subseteq w
      <4>1. CASE Complete(v, s)
        BY <2>1, <4>1 DEF Complete
      <4>2. CASE Row(s, v.of) = Row(s, c.key)
        BY <1>8, <2>1, <2>6, <3>1, <3>2, <4>2
      <4>3. QED
        BY <3>1, <4>1, <4>2
    <3>5. QED
      BY <2>5, <3>4 DEF Complete
  <2>8. QED
    BY <2>5, <2>7
<1>15. CASE s \notin st.clears \union st.reads \union st.rebuilds
  <2>1. CASE ~Loaded(s)
    <3>1. s \notin st.appends
      BY <2>1 DEF Knows, st
    <3>2. view'[s] = view[s]
      BY <1>4, <1>15, <2>1, <3>1
    <3>3. QED
      BY <2>1, <3>2 DEF Loaded
  <2>2. CASE Loaded(s)
    <3> DEFINE Kind(h) ==
          /\ Row(s, view'[s].of) = Row(s, view[s].of) /\ view'[s].has = h
          /\ \A n \in 1..Version(s, view[s].of) : n \in view[s].has => n \in h
          /\ s \in st.writes /\ s \in st.patches \union st.drops \union st.appends
               /\ Row(s, view[s].of) = Row(s, c.key) => V \in h
    <3>1. PICK v : v = view[s]
      OBVIOUS
    <3>2. ASSUME NEW h, view'[s] = [v EXCEPT !.has = h] PROVE view'[s].of = view[s].of /\ view'[s].has = h
      <4>1. v = [of |-> v.of, has |-> v.has, edits |-> v.edits]
        BY <1>7, <3>1 DEF SlotOf
      <4>2. QED
        BY <3>1, <3>2, <4>1
    <3>3. CASE s \in st.patches /\ row
      <4>1. PICK h : h = Patched(c, s, own)
        OBVIOUS
      <4>2. view'[s] = [v EXCEPT !.has = h]
        BY <1>4, <1>15, <2>2, <3>1, <3>3, <4>1
      <4>3. own = {V} /\ V # 0 /\ Log(s, c.key)[V] = c.key
        BY <1>2, <1>6, <1>11, <3>3 DEF st
      <4>4. h = {n \in view[s].has : Log(s, c.key)[n] # c.key} \union {n \in 1..V : Log(s, c.key)[n] = c.key}
        BY <4>1, <4>3 DEF Patched
      <4>5. Version(s, view[s].of) = V
        BY <1>9, <1>10, <2>2, <3>3
      <4>6. V \in h
        BY <1>8, <4>3, <4>4
      <4>7. \A n \in 1..Version(s, view[s].of) : n \in view[s].has => n \in h
        BY <4>4, <4>5
      <4>8. Kind(h)
        BY <3>2, <4>2, <4>6, <4>7
      <4>9. QED
        BY <1>15, <2>2, <4>8 DEF Lists, st, V
    <3>4. CASE ~(s \in st.patches /\ row) /\ s \in st.drops /\ row
      <4>1. PICK h : h = v.has \union own
        OBVIOUS
      <4>2. view'[s] = [v EXCEPT !.has = h]
        BY <1>4, <1>15, <2>2, <3>1, <3>4, <4>1
      <4>3. Kind(h)
        BY <1>6, <3>1, <3>2, <4>1, <4>2
      <4>4. QED
        BY <1>15, <2>2, <4>3 DEF Lists, st, V
    <3>5. CASE ~(s \in st.patches /\ row) /\ ~(s \in st.drops /\ row) /\ s \in st.appends
      <4>1. row
        BY <1>9, <2>2, <3>5 DEF Knows, st
      <4>2. view'[s].of = c.key /\ view'[s].has = view[s].has \union own
        BY <1>4, <1>15, <2>2, <3>5, <4>1
      <4>3. Kind(view[s].has \union own)
        BY <1>6, <1>9, <2>2, <4>1, <4>2
      <4>4. QED
        BY <1>15, <2>2, <4>3 DEF Lists, st, V
    <3>6. CASE ~(s \in st.patches /\ row) /\ ~(s \in st.drops /\ row) /\ s \notin st.appends
      <4>1. view'[s] = view[s]
        BY <1>4, <1>15, <3>6
      <4>2. Kind(view[s].has)
        BY <1>9, <2>2, <3>6, <4>1
      <4>3. QED
        BY <1>15, <2>2, <4>2 DEF Lists, st, V
    <3>7. QED
      BY <3>3, <3>4, <3>5, <3>6
  <2>3. QED
    BY <2>1, <2>2
<1>16. QED
  BY <1>12, <1>13, <1>14, <1>15

(***************************************************************************)
(* What is written is shown: what the handlers know stays true.            *)
(***************************************************************************)
\* Who brings or knows something of the slot uses it.
LEMMA KnowsUse ==
  ASSUME NEW s, NEW c, HandlerOf(page, c), ~Uses(page, c.op, s)
  PROVE  ~Brings(c, s) /\ Knows(c, s) /\ s \notin At(c).writes \union Fills(At(c)) \union At(c).clears
<1>1. /\ s \notin At(c).writes \union Fills(At(c)) \union At(c).clears
      /\ \A j \in DOMAIN page.ops[c.op].steps :
           LET st == page.ops[c.op].steps[j] IN s \notin st.reads \union st.clears \union st.rebuilds
  BY DEF Uses, Fills, At, Op, HandlerOf
<1>2. QED
  BY <1>1 DEF Brings, Replaces, Extends, Knows, Fills

\* A control that does not select and leaves a slot alone leaves it as it is.
LEMMA PressLeaves ==
  ASSUME NEW o, Press(o), ~page.ops[o].selects, NEW s \in page.slots \ (page.ops[o].blanks \union page.ops[o].opens)
  PROVE  view'[s] = view[s] /\ (\A k \in Targets(o) : page.ops[o].target = "sel" => k = sel)
         /\ \A t \in page.ops[o].needs : Loaded(t)
<1>1. ~Op(o).selects /\ s \notin Op(o).blanks \union Op(o).opens
  BY DEF Op
<1>2. view'[s] = view[s]
  BY <1>1 DEF Press
<1>3. \A t \in page.ops[o].needs : Loaded(t)
  BY DEF Press, Op
<1>4. QED
  BY <1>2, <1>3 DEF Targets, Op

\* The rule of what is added to a list.
LEMMA AddRules ==
  ASSUME TypeInv, NEW s, ShowsWrites(name, mode, s), NEW c, HandlerOf(page, c), s \in At(c).appends
  PROVE  /\ Patient /\ page.ops[c.op].user /\ ~page.ops[c.op].selects /\ s \notin page.ops[c.op].blanks
         /\ \A q \in DOMAIN page.ops : c.op \notin Spawns(page, q)
         /\ Len(page.ops[c.op].steps) = 1
         /\ s \in page.shared \cap page.ops[c.op].needs /\ NeverEmptied(page, s)
<1>1. Adds(page, mode, c.op, s)
  BY StepRules DEF At, Op, HandlerOf
<1>2. QED
  BY <1>1 DEF Adds, Patient

\* A handler that starts knows what it has seen.
LEMMA StartKnows ==
  ASSUME FollowInv, KeysInv, InTime, OwnSlots, TypeInv', KeysInv', UNCHANGED <<name, page, mode>>, Acts,
         NEW s, ShowsWrites(name, mode, s), NEW d \in calls', d \notin calls
  PROVE  Knows(d, s)'
<1>1. /\ TypeInv /\ WellDescribed(page) /\ FlagsInv /\ Excluded(s) /\ Shows(s)
      /\ HandlerOf(page, d) /\ UNCHANGED db
      /\ (Patient => calls = {}) /\ Bare(d) /\ Started(d)
  <2>1. FlagsInv /\ TypeInv /\ WellDescribed(page)
    BY PageRules DEF FollowInv, FlagsInv
  <2>2. s \in page.slots
    BY <2>1, ShowRules
  <2>3. Excluded(s) /\ Shows(s)
    BY <2>2 DEF OwnSlots, Settled
  <2>4. HandlerOf(page, d)
    BY DEF TypeInv
  <2>5. QED
    BY <2>1, <2>3, <2>4 DEF Acts
<1>2. /\ d.pos = 1 /\ d.wrote = <<>> /\ At(d) = page.ops[d.op].steps[1] /\ d.op \in DOMAIN page.ops
      /\ 1 \in DOMAIN page.ops[d.op].steps
  BY <1>1 DEF Bare, At, Op, HandlerOf
<1>3. \A k : Version(s, k)' = Version(s, k) /\ Row(s, k)' = Row(s, k)
  BY <1>1 DEF Version, Log, Row, Mirror
<1>4. page.ops[d.op].user => Press(d.op) /\ d.key \in Targets(d.op)
  BY <1>1 DEF Started, WellDescribed
<1>5. ASSUME s \in At(d).reads \ At(d).writes PROVE d.from[s] = Version(s, d.key)
  BY <1>1, <1>2, <1>5 DEF Bare
<1>6. ASSUME s \in At(d).rebuilds, d.base[s].of # Nil
      PROVE  /\ 1..(Version(s, d.base[s].of) - 1) \subseteq d.base[s].has
             /\ Complete(d.base[s], s)
  <2>1. s \in At(d).writes
    BY <1>1, <1>2, <1>6, StepRules
  <2>2. page.ops[d.op].user /\ Uses(page, d.op, s)
    BY <1>1, <1>2, <2>1, StepRules
  <2>3. d.base[s] = view[s]
    BY <1>1, <1>2, <1>6 DEF Bare, Rebuilt, Op
  <2>4. \A c \in calls : ~Brings(c, s)
    <3>1. SUFFICES ASSUME NEW c \in calls PROVE ~Brings(c, s)
      OBVIOUS
    <3>2. ~Uses(page, c.op, s)
      BY <1>1, <1>4, <2>2, <1>2, UserIsAlone
    <3>3. QED
      BY <1>1, <3>2, KnowsUse DEF TypeInv
  <2>5. Complete(view[s], s)
    BY <1>1, <1>6, <2>3, <2>4 DEF Shows, Loaded
  <2>6. Version(s, view[s].of) \in Nat
    BY <1>1, ShowRules, RowsCount DEF KeysInv
  <2>7. QED
    BY <2>3, <2>5, <2>6 DEF Complete
<1>7. ASSUME s \in At(d).appends PROVE Loaded(s)' /\ Row(s, view'[s].of) = Row(s, d.key)
  <2>1. /\ page.ops[d.op].user /\ ~page.ops[d.op].selects /\ s \notin page.ops[d.op].blanks
        /\ s \in page.shared \cap page.ops[d.op].needs
    BY <1>1, <1>7, AddRules
  <2>2. s \in page.slots /\ s \notin page.ops[d.op].opens /\ Mirror(s) = s
    BY <1>1, <1>2, ShowRules
  <2>3. view'[s] = view[s] /\ \A t \in page.ops[d.op].needs : Loaded(t)
    BY <1>4, <2>1, <2>2, PressLeaves
  <2>4. QED
    BY <2>1, <2>2, <2>3 DEF Loaded, Row
<1>8. At(d)' = At(d) /\ \A v : Complete(v, s)' = Complete(v, s)
  BY <1>3 DEF At, Op, Complete
<1>9. QED
  BY <1>2, <1>3, <1>5, <1>6, <1>7, <1>8 DEF Knows

\* While the log and the slot stay, so does what is known.
LEMMA KnowsStays ==
  ASSUME UNCHANGED page, NEW s, Mirror(s) = s, NEW c, Knows(c, s), db'[s] = db[s],
         s \in At(c).appends => Loaded(s)' /\ Row(s, view'[s].of) = Row(s, c.key)
  PROVE  Knows(c, s)'
<1>1. \A k : Version(s, k)' = Version(s, k) /\ Row(s, k)' = Row(s, k) /\ Log(s, k)' = Log(s, k)
  BY DEF Version, Log, Row, Mirror
<1>2. At(c)' = At(c) /\ \A v : Complete(v, s)' = Complete(v, s)
  BY <1>1 DEF At, Op, Complete
<1>3. QED
  BY <1>1, <1>2 DEF Knows

\* A handler that is served knows what it wrote.
LEMMA ServedKnows ==
  ASSUME TypeInv, KeysInv, UNCHANGED <<page, mode>>, NEW s, ShowsWrites(name, mode, s),
         NEW c \in calls, NEW d, Serves(c, d), UNCHANGED view, Knows(c, s),
         db' = [r \in page.slots |-> IF r \in At(c).writes
                  THEN [db[r] EXCEPT ![Row(r, c.key)] = Append(@, c.key)] ELSE db[r]]
  PROVE  Knows(d, s)'
<1>1. /\ s \in page.slots /\ s \notin DOMAIN page.mirror
      /\ \A k : Mirror(s) = s /\ Version(s, k) = Len(db[s][Row(s, k)]) /\ Log(s, k) = db[s][Row(s, k)]
  BY ShowRules
<1>2. /\ s \notin At(c).writes => db'[s] = db[s]
      /\ s \in At(c).writes => \A k \in Keys \union {Nil} :
           db'[s][k] = IF k = Row(s, c.key) THEN Append(db[s][k], c.key) ELSE db[s][k]
  BY <1>1, LogsGrow
<1>3. /\ d.op = c.op /\ d.key = c.key /\ d.pos = c.pos /\ d.base = c.base /\ d.from = c.from
      /\ c.wrote = <<>> /\ d.wrote # <<>>
      /\ \A r \in At(c).writes : d.wrote[r] = Version(r, c.key) + 1
  BY DEF Serves
<1>4. At(d) = At(c) /\ At(d)' = At(c)
  BY <1>3 DEF At, Op
<1>5. s \in At(c).rebuilds => s \in At(c).writes /\ s \in Rebuilt(c.op)
  <2>1. c.op \in DOMAIN page.ops /\ c.pos \in DOMAIN page.ops[c.op].steps /\ At(c) = page.ops[c.op].steps[c.pos]
    BY DEF TypeInv, HandlerOf, At, Op
  <2>2. QED
    BY <2>1, StepRules DEF Rebuilt, Op
<1>6. \A k : Row(s, k)' = Row(s, k) /\ Version(s, k)' = Len(db'[s][Row(s, k)]) /\ Log(s, k)' = db'[s][Row(s, k)]
  BY <1>1 DEF Version, Log, Row, Mirror
<1>7. CASE s \notin At(c).writes
  <2>1. \A k : Version(s, k)' = Version(s, k)
    BY <1>1, <1>2, <1>6, <1>7
  <2>2. QED
    BY <1>3, <1>4, <1>5, <1>6, <1>7, <2>1 DEF Knows, Loaded
<1>8. CASE s \in At(c).writes
  <2>1. c.key \in Keys /\ db[s] \in [Keys \union {Nil} -> Seq(Keys)]
    BY <1>1 DEF KeysInv
  <2>2. \A k \in Keys \union {Nil} : Row(s, k) \in Keys \union {Nil} /\ db[s][Row(s, k)] \in Seq(Keys)
    BY <2>1 DEF Row
  <2>3. \A k \in Keys \union {Nil} : IF Row(s, k) = Row(s, c.key)
          THEN /\ Log(s, k)' = Append(Log(s, c.key), c.key)
               /\ Version(s, k)' = Version(s, c.key) + 1 /\ Version(s, c.key) \in Nat
               /\ Log(s, k)'[Version(s, k)'] = c.key
          ELSE Version(s, k)' = Version(s, k)
    <3> SUFFICES ASSUME NEW k \in Keys \union {Nil}
                 PROVE  IF Row(s, k) = Row(s, c.key)
                          THEN /\ Log(s, k)' = Append(Log(s, c.key), c.key)
                               /\ Version(s, k)' = Version(s, c.key) + 1 /\ Version(s, c.key) \in Nat
                               /\ Log(s, k)'[Version(s, k)'] = c.key
                          ELSE Version(s, k)' = Version(s, k)
      OBVIOUS
    <3>1. PICK r, q : r = Row(s, k) /\ q = db[s][r]
      OBVIOUS
    <3>2. r \in Keys \union {Nil} /\ q \in Seq(Keys)
      BY <2>2, <3>1
    <3>3. db'[s][r] = IF r = Row(s, c.key) THEN Append(q, c.key) ELSE q
      BY <1>2, <1>8, <3>1, <3>2
    <3>4. Log(s, k)' = db'[s][r] /\ Version(s, k)' = Len(db'[s][r]) /\ Version(s, k) = Len(q)
      BY <1>1, <1>6, <3>1
    <3>5. CASE r = Row(s, c.key)
      <4>1. Log(s, c.key) = q /\ Version(s, c.key) = Len(q)
        BY <1>1, <3>1, <3>5
      <4>2. Len(Append(q, c.key)) = Len(q) + 1 /\ Append(q, c.key)[Len(q) + 1] = c.key /\ Len(q) \in Nat
        BY <2>1, <3>2
      <4>3. QED
        BY <3>1, <3>3, <3>4, <3>5, <4>1, <4>2
    <3>6. CASE r # Row(s, c.key)
      BY <3>1, <3>3, <3>4, <3>6
    <3>7. QED
      BY <3>5, <3>6
  <2>4. d.wrote[s] = Version(s, c.key)' /\ Version(s, c.key)' # 0 /\ Log(s, c.key)'[Version(s, c.key)'] = c.key
    BY <1>3, <1>8, <2>1, <2>3
  <2>5. ASSUME s \in At(c).rebuilds, c.base[s].of # Nil
        PROVE  /\ 1..(Version(s, c.base[s].of)' - 1) \subseteq c.base[s].has
               /\ Complete(c.base[s], s)' \/ Row(s, c.base[s].of) = Row(s, c.key)
    <3>1. c.base[s].of \in Keys \union {Nil}
      BY <1>1, <1>5, <2>5 DEF KeysInv
    <3>2. Complete(c.base[s], s) /\ 1..(Version(s, c.base[s].of) - 1) \subseteq c.base[s].has
      BY <1>3, <2>5 DEF Knows
    <3>3. Row(s, c.base[s].of) = Row(s, c.key) => Version(s, c.base[s].of) = Version(s, c.key)
      BY <1>1
    <3>4. CASE Row(s, c.base[s].of) = Row(s, c.key)
      BY <2>3, <3>1, <3>2, <3>3, <3>4 DEF Complete
    <3>5. CASE Row(s, c.base[s].of) # Row(s, c.key)
      BY <2>3, <3>1, <3>2, <3>5 DEF Complete
    <3>6. QED
      BY <3>4, <3>5
  <2>6. s \in At(c).appends => Loaded(s)' /\ Row(s, view'[s].of) = Row(s, c.key)
    BY DEF Knows, Loaded
  <2> QED
    BY <1>3, <1>4, <1>6, <1>8, <2>4, <2>5, <2>6 DEF Knows
<1>9. QED
  BY <1>7, <1>8

(***************************************************************************)
(* What is written is shown: lists that are there stay there.              *)
(***************************************************************************)
\* What an answer makes of a slot that it does not empty.
LEMMA AnsweredFull ==
  ASSUME TypeInv, KeysInv, NEW c \in calls, Answer(c), NEW s \in page.slots, s \notin page.derives,
         s \notin At(c).rebuilds \union At(c).clears
  PROVE  /\ Loaded(s) => Loaded(s)'
         /\ Live(c) /\ s \in At(c).reads \ At(c).empties => Loaded(s)'
         /\ s \notin Fills(At(c)) => view'[s].of = view[s].of
<1>1. SlotOf(view[s]) /\ c.key # Nil
  BY KeysAssumption DEF KeysInv
<1>2. \/ /\ view'[s].of = view[s].of
         /\ ~(Live(c) /\ s \in At(c).reads /\ s \notin At(c).clears \union At(c).empties)
      \/ view'[s].of = c.key /\ s \in At(c).reads \union At(c).appends
  BY <1>1, AnsweredSlot
<1>3. QED
  BY <1>1, <1>2 DEF Loaded, Fills

\* A slot that nothing empties stays loaded.
LEMMA StaysFull ==
  ASSUME TypeInv, TypeInv', KeysInv, [Next]_vars, UNCHANGED page, faults \in Nat, faults' = 0,
         NEW s, ShowsWrites(name, mode, s), NeverEmptied(page, s), Loaded(s)
  PROVE  Loaded(s)'
<1>1. s \in page.slots \ Refreshed(page) /\ s \notin page.derives /\ s \notin page.resets
  BY ShowRules DEF NeverEmptied
<1>2. \A o \in DOMAIN page.ops : s \notin page.ops[o].opens /\ s \notin page.ops[o].blanks
  BY ShowRules DEF NeverEmptied
<1>3. CASE Acts
  BY <1>1, <1>2, <1>3 DEF Acts, Loaded
<1>4. ASSUME NEW c \in calls, Serve(c) PROVE Loaded(s)'
  BY <1>4 DEF Serve, Loaded
<1>5. ASSUME NEW c \in calls, Answer(c) PROVE Loaded(s)'
  <2>1. s \notin At(c).rebuilds \union At(c).clears
    BY <1>5 DEF NeverEmptied, At, Op, TypeInv, HandlerOf
  <2>2. QED
    BY <1>1, <1>5, <2>1, AnsweredFull
<1>6. QED
  BY <1>3, <1>4, <1>5, FaultFree

(***************************************************************************)
(* What is written is shown: what is known after an answer.                *)
(***************************************************************************)
LEMMA AnswerKnows ==
  ASSUME TypeInv, TypeInv', KeysInv, WellDescribed(page), [Next]_vars, UNCHANGED <<page, mode>>,
         faults \in Nat, faults' = 0, NEW s, ShowsWrites(name, mode, s), Excluded(s),
         \A c \in calls : Knows(c, s), NEW b \in calls, Answer(b), NEW d \in calls'
  PROVE  Knows(d, s)'
<1>1. s \in page.slots /\ s \notin page.derives /\ (\A k : Mirror(s) = s) /\ UNCHANGED db
  BY ShowRules DEF Answer
<1>2. PICK R, spawns : GoesOnTo(b, R, spawns) /\ UNCHANGED epoch
  BY AnswerGoes
<1>3. HandlerOf(page, d) /\ HandlerOf(page, b)
  BY DEF TypeInv
<1>4. CASE d \in calls /\ d # b
  <2>1. ASSUME s \in At(d).appends PROVE Loaded(s)' /\ Row(s, view'[s].of) = Row(s, d.key)
    <3>1. Loaded(s) /\ Row(s, view[s].of) = Row(s, d.key)
      BY <1>4, <2>1 DEF Knows
    <3>2. s \in page.shared /\ NeverEmptied(page, s)
      BY <1>3, <2>1, AddRules
    <3>3. Loaded(s)'
      BY <3>1, <3>2, StaysFull
    <3>4. QED
      BY <1>1, <3>2, <3>3 DEF Row
  <2>2. QED
    BY <1>1, <1>4, <2>1, KnowsStays
<1>5. CASE d \in R /\ Advances(b, d)
  <2>1. /\ d.op = b.op /\ d.key = b.key /\ d.pos = b.pos + 1 /\ d.pos \in DOMAIN page.ops[d.op].steps
        /\ d.wrote = <<>> /\ \A r \in page.ops[d.op].steps[d.pos].reads : d.from[r] = Version(r, d.key)
    BY <1>5 DEF Advances
  <2>2. /\ d.op \in DOMAIN page.ops /\ At(d) = page.ops[d.op].steps[d.pos] /\ At(d)' = At(d)
        /\ b.pos \in DOMAIN page.ops[d.op].steps
    BY <1>3, <2>1 DEF HandlerOf, At, Op
  <2>3. /\ DOMAIN page.ops[d.op].steps = 1..Len(page.ops[d.op].steps) /\ Len(page.ops[d.op].steps) \in Nat
    BY <2>2 DEF WellDescribed
  <2>4. d.pos # 1 /\ Len(page.ops[d.op].steps) # 1
    BY <2>1, <2>2, <2>3
  <2>5. s \notin At(d).rebuilds
    BY <2>1, <2>2, <2>4, StepRules
  <2>6. s \notin At(d).appends
    BY <1>3, <2>4, AddRules
  <2>7. \A k : Version(s, k)' = Version(s, k)
    BY <1>1 DEF Version, Log, Row, Mirror
  <2>8. QED
    BY <2>1, <2>2, <2>5, <2>6, <2>7 DEF Knows
<1>6. CASE Bare(d) /\ d.op \in Spawns(page, b.op)
  <2>1. /\ d.pos = 1 /\ d.wrote = <<>> /\ 1 \in DOMAIN page.ops[d.op].steps
        /\ \A r \in page.ops[d.op].steps[1].reads : d.from[r] = Version(r, d.key)
    BY <1>3, <1>6 DEF Bare, HandlerOf
  <2>2. /\ d.op \in DOMAIN page.ops /\ b.op \in DOMAIN page.ops
        /\ At(d) = page.ops[d.op].steps[1] /\ At(d)' = At(d)
    BY <1>3, <2>1 DEF HandlerOf, At, Op
  <2>3. s \notin At(d).rebuilds
    BY <1>6, <2>1, <2>2, StepRules
  <2>4. s \notin At(d).appends
    BY <1>3, <1>6, <2>2, AddRules
  <2>5. \A k : Version(s, k)' = Version(s, k)
    BY <1>1 DEF Version, Log, Row, Mirror
  <2>6. QED
    BY <2>1, <2>2, <2>3, <2>4, <2>5 DEF Knows
<1>7. QED
  BY <1>2, <1>4, <1>5, <1>6, AfterAnswer

\* and after any step.
LEMMA KnowsKept ==
  ASSUME FollowInv, KeysInv, InTime, OwnSlots, TypeInv', KeysInv', [Next]_vars, UNCHANGED <<name, page, mode>>,
         faults \in Nat, faults' = 0, NEW s, ShowsWrites(name, mode, s), NEW d \in calls'
  PROVE  Knows(d, s)'
<1>1. FlagsInv /\ TypeInv /\ WellDescribed(page)
  BY PageRules DEF FollowInv, FlagsInv
<1>2. s \in page.slots /\ (\A k : Mirror(s) = s)
  BY <1>1, ShowRules
<1>3. Excluded(s) /\ \A c \in calls : Knows(c, s)
  BY <1>2 DEF OwnSlots, Settled
<1>4. \A c \in calls : HandlerOf(page, c)
  BY <1>1 DEF TypeInv
<1>5. CASE Acts
  <2>1. CASE d \in calls
    <3>1. ASSUME s \in At(d).appends PROVE Loaded(s)' /\ Row(s, view'[s].of) = Row(s, d.key)
      <4>1. Loaded(s) /\ s \in page.shared /\ NeverEmptied(page, s)
        BY <1>1, <1>3, <1>4, <2>1, <3>1, AddRules DEF Knows
      <4>2. Loaded(s)'
        BY <1>1, <4>1, StaysFull
      <4>3. QED
        BY <1>2, <4>1, <4>2 DEF Row
    <3>2. UNCHANGED db
      BY <1>5 DEF Acts
    <3>3. QED
      BY <1>2, <1>3, <2>1, <3>1, <3>2, KnowsStays
  <2>2. CASE d \notin calls
    BY <1>5, <2>2, StartKnows
  <2>3. QED
    BY <2>1, <2>2
<1>6. ASSUME NEW b \in calls, Serve(b) PROVE Knows(d, s)'
  <2>1. PICK a : Serves(b, a)
    BY <1>1, <1>6, ServeGoes
  <2>2. /\ UNCHANGED view
        /\ db' = [r \in page.slots |-> IF r \in At(b).writes
                    THEN [db[r] EXCEPT ![Row(r, b.key)] = Append(@, b.key)] ELSE db[r]]
    BY <1>1, <1>6, ServeGoes
  <2>3. CASE d = a
    BY <1>1, <1>3, <1>6, <2>1, <2>2, <2>3, ServedKnows
  <2>4. CASE d # a
    <3>1. d \in calls /\ d # b
      BY <2>1, <2>4 DEF Serves
    <3>2. CASE s \in At(b).writes
      <4>1. b.pos \in DOMAIN page.ops[b.op].steps /\ At(b) = page.ops[b.op].steps[b.pos] /\ b.pos <= b.pos
        BY <1>1, <1>4, <1>6 DEF HandlerOf, At, Op, WellDescribed
      <4>2. Writing(b, s)
        BY <3>2, <4>1 DEF Writing
      <4>3. ~Uses(page, d.op, s)
        BY <1>1, <1>3, <1>6, <3>1, <4>2, Exclusive
      <4>4. s \notin At(d).writes \union Fills(At(d)) /\ At(d)' = At(d)
        BY <1>4, <3>1, <4>3, KnowsUse DEF At, Op
      <4>5. QED
        BY <4>4 DEF Knows, Fills
    <3>3. CASE s \notin At(b).writes
      <4>1. db'[s] = db[s]
        BY <1>2, <2>2, <3>3
      <4>2. s \in At(d).appends => Loaded(s)' /\ Row(s, view'[s].of) = Row(s, d.key)
        BY <1>3, <2>2, <3>1 DEF Knows, Loaded
      <4>3. QED
        BY <1>2, <1>3, <3>1, <4>1, <4>2, KnowsStays
    <3>4. QED
      BY <3>2, <3>3
  <2>5. QED
    BY <2>3, <2>4
<1>7. ASSUME NEW b \in calls, Answer(b) PROVE Knows(d, s)'
  BY <1>1, <1>3, <1>7, AnswerKnows
<1>8. QED
  BY <1>1, <1>5, <1>6, <1>7, FaultFree

(***************************************************************************)
(* What is written is shown: what is missing is brought.                   *)
(***************************************************************************)
\* Whoever brings the slot still does so while nothing about it changes.
LEMMA BringsStays ==
  ASSUME UNCHANGED page, NEW s, Mirror(s) = s, NEW c, NEW d, Brings(c, s),
         d.op = c.op, d.key = c.key, d.pos = c.pos, c.wrote # <<>> => d.wrote # <<>>,
         db'[s] = db[s], view'[s].of = view[s].of, view'[s].has = view[s].has
  PROVE  Brings(d, s)'
<1>1. \A k : Version(s, k)' = Version(s, k) /\ Row(s, k)' = Row(s, k)
  BY DEF Version, Log, Row, Mirror
<1>2. At(d)' = At(c)
  BY DEF At, Op
<1>3. ASSUME Replaces(c, s) PROVE Replaces(d, s)'
  BY <1>3 DEF Replaces
<1>4. ASSUME Extends(c, s) PROVE Extends(d, s)'
  BY <1>1, <1>2, <1>4 DEF Extends
<1>5. QED
  BY <1>3, <1>4 DEF Brings

\* The user's steps leave what is shown, or empty the slot.
LEMMA ActsShow ==
  ASSUME UNCHANGED <<name, page, mode>>, Acts, TypeInv, NEW s, ShowsWrites(name, mode, s), Shows(s)
  PROVE  Shows(s)'
<1>1. /\ s \in page.slots \ Refreshed(page) /\ (\A k : Mirror(s) = s)
      /\ \A o \in DOMAIN page.ops : s \notin page.ops[o].opens
  BY ShowRules
<1>2. /\ view'[s] = Blank \/ (view'[s].of = view[s].of /\ view'[s].has = view[s].has)
      /\ UNCHANGED db /\ calls \subseteq calls'
  BY <1>1 DEF Acts
<1>3. CASE view'[s] = Blank
  BY <1>3 DEF Shows, Loaded, Blank
<1>4. CASE view'[s].of = view[s].of /\ view'[s].has = view[s].has
  <2>1. ASSUME Complete(view[s], s) PROVE Complete(view[s], s)'
    <3>1. \A k : Version(s, k)' = Version(s, k)
      BY <1>2 DEF Version, Log, Row, Mirror
    <3>2. QED
      BY <1>4, <2>1, <3>1 DEF Complete
  <2>2. ASSUME NEW c \in calls, Brings(c, s) PROVE c \in calls' /\ Brings(c, s)'
    BY <1>1, <1>2, <1>4, <2>2, BringsStays
  <2>3. QED
    BY <1>4, <2>1, <2>2 DEF Shows, Loaded
<1>5. QED
  BY <1>2, <1>3, <1>4

\* Who has written brings it.
LEMMA ServedBrings ==
  ASSUME TypeInv, KeysInv, UNCHANGED <<name, page, mode>>, WellDescribed(page), NEW s, ShowsWrites(name, mode, s),
         NEW c \in calls, NEW d, Serves(c, d), UNCHANGED view, Knows(d, s)', s \in At(c).writes,
         Replaces(c, s) \/ Complete(view[s], s), Loaded(s),
         \A k \in Keys \union {Nil} : Version(s, k)' = IF Row(s, k) = Row(s, c.key) THEN Version(s, k) + 1 ELSE Version(s, k)
  PROVE  Complete(view[s], s)' \/ Brings(d, s)'
<1>1. /\ d.op = c.op /\ d.key = c.key /\ d.pos = c.pos /\ d.wrote # <<>>
      /\ At(c) = page.ops[c.op].steps[c.pos] /\ At(d)' = At(c)
      /\ c.op \in DOMAIN page.ops /\ c.pos \in DOMAIN page.ops[c.op].steps
      /\ DOMAIN page.ops[c.op].steps = 1..Len(page.ops[c.op].steps)
  BY DEF Serves, At, Op, TypeInv, HandlerOf, WellDescribed
<1>2. /\ page.ops[c.op].user /\ ~Guarded(page, c.op)
      /\ \/ \E j \in c.pos..Len(page.ops[c.op].steps) :
              s \in page.ops[c.op].steps[j].reads \union page.ops[c.op].steps[j].clears
         \/ s \in At(c).patches \union At(c).drops \union At(c).rebuilds \union At(c).appends
  BY <1>1, StepRules
<1>3. Len(page.ops[c.op].steps) \in Nat
  BY <1>1 DEF WellDescribed
<1>4. Replaces(c, s) => Replaces(d, s)'
  BY <1>1 DEF Replaces
<1>5. ASSUME NEW j \in c.pos..Len(page.ops[c.op].steps),
             s \in page.ops[c.op].steps[j].reads \union page.ops[c.op].steps[j].clears
      PROVE  Replaces(c, s)
  <2>1. j \in DOMAIN page.ops[c.op].steps /\ c.pos <= j
    BY <1>1, <1>3, <1>5
  <2>2. QED
    BY <1>5, <2>1 DEF Replaces
<1>6. ASSUME s \in At(c).rebuilds PROVE Replaces(c, s)
  <2>1. c.pos <= c.pos
    BY <1>1, <1>3
  <2>2. QED
    BY <1>1, <1>6, <2>1 DEF Replaces
<1>7. CASE Complete(view[s], s) /\ s \in At(c).patches \union At(c).drops \union At(c).appends
  <2>1. c.key \in Keys /\ view[s].of \in Keys \union {Nil} /\ s \in page.slots
    BY ShowRules DEF KeysInv
  <2>2. Version(s, c.key) \in Nat /\ (Row(s, view[s].of) = Row(s, c.key) => Version(s, view[s].of) = Version(s, c.key))
    BY <2>1, RowsCount
  <2>3. \A k : Row(s, k)' = Row(s, k)
    BY DEF Row, Mirror
  <2>4. CASE Row(s, view[s].of) = Row(s, c.key)
    <3>1. 1..(Version(s, c.key)' - 1) \subseteq view[s].has
      BY <1>7, <2>1, <2>2, <2>4 DEF Complete
    <3>2. Extends(d, s)'
      BY <1>1, <1>7, <2>3, <2>4, <3>1 DEF Extends
    <3>3. QED
      BY <1>1, <1>2, <3>2 DEF Brings
  <2>5. CASE Row(s, view[s].of) # Row(s, c.key)
    <3>1. Version(s, view[s].of)' = Version(s, view[s].of)
      BY <2>1, <2>5
    <3>2. QED
      BY <1>7, <3>1 DEF Complete
  <2>6. QED
    BY <2>4, <2>5
<1>8. QED
  BY <1>1, <1>2, <1>4, <1>5, <1>6, <1>7 DEF Brings

\* While nobody else uses the slot, the write is brought by who was served.
LEMMA ServeShows ==
  ASSUME TypeInv, KeysInv, UNCHANGED <<name, page, mode>>, WellDescribed(page), NEW s, ShowsWrites(name, mode, s),
         Excluded(s), Shows(s), NEW c \in calls, Serve(c), \A d \in calls' : Knows(d, s)'
  PROVE  Shows(s)'
<1>1. /\ s \in page.slots /\ s \notin DOMAIN page.mirror
      /\ \A k : Mirror(s) = s /\ Version(s, k) = Len(db[s][Row(s, k)]) /\ Log(s, k) = db[s][Row(s, k)]
  BY ShowRules
<1>2. PICK d : Serves(c, d)
  BY ServeGoes
<1>3. /\ UNCHANGED view
      /\ db' = [r \in page.slots |-> IF r \in At(c).writes
                  THEN [db[r] EXCEPT ![Row(r, c.key)] = Append(@, c.key)] ELSE db[r]]
  BY ServeGoes
<1>4. /\ s \notin At(c).writes => db'[s] = db[s]
      /\ s \in At(c).writes => \A k \in Keys \union {Nil} :
           db'[s][k] = IF k = Row(s, c.key) THEN Append(db[s][k], c.key) ELSE db[s][k]
  BY <1>1, <1>3, LogsGrow
<1>5. /\ d.op = c.op /\ d.key = c.key /\ d.pos = c.pos /\ c.wrote = <<>> /\ d.wrote # <<>>
      /\ calls' = (calls \ {c}) \union {d}
  BY <1>2 DEF Serves
<1> SUFFICES ASSUME Loaded(s)
             PROVE  Complete(view[s], s)' \/ \E b \in calls' : Brings(b, s)'
  BY <1>3 DEF Shows, Loaded
<1>6. Complete(view[s], s) \/ \E b \in calls : Brings(b, s)
  BY DEF Shows
<1>7. CASE s \notin At(c).writes
  <2>1. db'[s] = db[s]
    BY <1>4, <1>7
  <2>2. ASSUME Complete(view[s], s) PROVE Complete(view[s], s)'
    <3>1. \A k : Version(s, k)' = Version(s, k)
      BY <1>1, <2>1 DEF Version, Log, Row, Mirror
    <3>2. QED
      BY <1>3, <2>2, <3>1 DEF Complete
  <2>3. ASSUME NEW b \in calls, Brings(b, s) PROVE \E a \in calls' : Brings(a, s)'
    <3>1. CASE b = c
      BY <1>1, <1>3, <1>5, <2>1, <2>3, <3>1, BringsStays
    <3>2. CASE b # c
      BY <1>1, <1>3, <1>5, <2>1, <2>3, <3>2, BringsStays
    <3>3. QED
      BY <3>1, <3>2
  <2>4. QED
    BY <1>6, <2>2, <2>3
<1>8. CASE s \in At(c).writes
  <2>1. \A b \in calls : HandlerOf(page, b)
    BY DEF TypeInv
  <2>2. Writing(c, s)
    <3>1. c.pos \in DOMAIN page.ops[c.op].steps /\ At(c) = page.ops[c.op].steps[c.pos] /\ c.pos <= c.pos
      BY <2>1 DEF HandlerOf, At, Op, WellDescribed
    <3>2. QED
      BY <1>8, <3>1 DEF Writing
  <2>3. \A b \in calls : b # c => ~Brings(b, s)
    BY <2>1, <2>2, Exclusive, KnowsUse
  <2>4. Brings(c, s) => Replaces(c, s)
    BY <1>5 DEF Brings, Extends
  <2>5. ASSUME NEW k \in Keys \union {Nil}
        PROVE  Version(s, k)' = IF Row(s, k) = Row(s, c.key) THEN Version(s, k) + 1 ELSE Version(s, k)
    <3>1. Row(s, k) \in Keys \union {Nil} /\ db[s] \in [Keys \union {Nil} -> Seq(Keys)] /\ c.key \in Keys
      BY <1>1 DEF Row, KeysInv
    <3>2. Version(s, k)' = Len(db'[s][Row(s, k)])
      BY <1>1 DEF Version, Log, Row, Mirror
    <3>3. PICK r, q : r = Row(s, k) /\ q = db[s][r]
      OBVIOUS
    <3>4. q \in Seq(Keys) /\ Len(Append(q, c.key)) = Len(q) + 1
      BY <3>1, <3>3
    <3>5. db'[s][r] = IF r = Row(s, c.key) THEN Append(q, c.key) ELSE q
      BY <1>4, <1>8, <3>1, <3>3
    <3>6. Version(s, k) = Len(q) /\ Version(s, k)' = Len(db'[s][r])
      BY <1>1, <3>2, <3>3
    <3>7. QED
      BY <3>3, <3>4, <3>5, <3>6
  <2>6. Knows(d, s)'
    BY <1>5
  <2>7. Complete(view[s], s)' \/ Brings(d, s)'
    BY <1>2, <1>3, <1>6, <1>8, <2>3, <2>4, <2>5, <2>6, ServedBrings
  <2>8. QED
    BY <1>5, <2>7
<1>9. QED
  BY <1>7, <1>8

\* Who is answered brings it, or goes on to bring it.
LEMMA AnswerShows ==
  ASSUME TypeInv, KeysInv, KeysInv', UNCHANGED <<name, page, mode>>, WellDescribed(page),
         NEW s, ShowsWrites(name, mode, s), Shows(s), NEW c \in calls, Answer(c), Knows(c, s)
  PROVE  Shows(s)'
<1>1. /\ s \in page.slots /\ s \notin DOMAIN page.mirror /\ \A k : Mirror(s) = s
  BY ShowRules
<1>2. PICK R, spawns : GoesOnTo(c, R, spawns) /\ UNCHANGED <<db, epoch>>
  BY AnswerGoes
<1>3. \A k : Version(s, k)' = Version(s, k) /\ Row(s, k)' = Row(s, k)
  BY <1>2 DEF Version, Log, Row, Mirror
<1>4. \A v : Complete(v, s)' = Complete(v, s)
  BY <1>3 DEF Complete
<1>5. \A b \in calls : b # c => b \in calls'
  BY OthersStay
<1>6. HandlerOf(page, c) /\ c.pos \in DOMAIN page.ops[c.op].steps /\ At(c) = page.ops[c.op].steps[c.pos]
      /\ c.op \in DOMAIN page.ops
  BY DEF TypeInv, HandlerOf, At, Op
<1>7. CASE ~Live(c)
  <2>1. view'[s] = view[s]
    BY <1>1, <1>7 DEF Answer
  <2>2. Guarded(page, c.op)
    BY <1>6, <1>7 DEF Live, Guarded, At, Op
  <2>3. ~Brings(c, s)
    BY <2>2 DEF Brings
  <2>4. ASSUME NEW b \in calls, Brings(b, s) PROVE b \in calls' /\ Brings(b, s)'
    BY <1>1, <1>2, <1>5, <2>1, <2>3, <2>4, BringsStays
  <2>5. QED
    BY <1>4, <2>1, <2>4 DEF Shows, Loaded
<1>8. CASE Live(c) /\ Lists(c, s)
  <2>1. /\ s \notin At(c).reads \union At(c).clears \union At(c).rebuilds /\ Loaded(s)
        /\ Row(s, view'[s].of) = Row(s, view[s].of)
        /\ \A n \in 1..Version(s, view[s].of) : n \in view[s].has => n \in view'[s].has
        /\ s \in At(c).writes /\ s \in At(c).patches \union At(c).drops \union At(c).appends
             /\ Row(s, view[s].of) = Row(s, c.key) => Version(s, c.key) \in view'[s].has
    BY <1>8 DEF Lists
  <2>2. view[s].of \in Keys \union {Nil} /\ c.key \in Keys /\ \A b \in calls : b.key \in Keys
    BY <1>1 DEF KeysInv
  <2>3. Version(s, view'[s].of) = Version(s, view[s].of) /\ Version(s, view[s].of) \in Nat
    BY <2>1, <2>2, RowsCount
  <2>4. \A k : Row(s, view[s].of) = Row(s, k) => Version(s, k) = Version(s, view[s].of)
    BY <2>2, RowsCount
  <2>5. CASE Complete(view[s], s)
    BY <1>4, <2>1, <2>3, <2>5 DEF Complete, Shows
  <2>6. ASSUME NEW b \in calls, b # c, Brings(b, s) PROVE b \in calls' /\ Brings(b, s)'
    <3>1. Replaces(b, s) => Replaces(b, s)'
      BY DEF Replaces
    <3>2. ASSUME Extends(b, s) PROVE Extends(b, s)'
      <4>1. /\ s \in At(b).writes /\ b.wrote # <<>>
            /\ s \in At(b).patches \union At(b).drops \union At(b).appends
            /\ Row(s, view[s].of) = Row(s, b.key)
            /\ 1..(Version(s, b.key) - 1) \subseteq view[s].has
        BY <3>2 DEF Extends
      <4>2. Version(s, b.key) = Version(s, view[s].of)
        BY <2>4, <4>1
      <4>3. 1..(Version(s, b.key) - 1) \subseteq view'[s].has
        BY <2>1, <2>3, <4>1, <4>2
      <4>4. At(b)' = At(b)
        BY DEF At, Op
      <4>5. QED
        BY <1>3, <2>1, <4>1, <4>3, <4>4 DEF Extends
    <3>3. QED
      BY <1>5, <2>6, <3>1, <3>2 DEF Brings
  <2>7. CASE Brings(c, s) /\ Replaces(c, s)
    <3>1. PICK j \in DOMAIN page.ops[c.op].steps :
            LET st == page.ops[c.op].steps[j]
            IN  c.pos <= j /\ s \in st.reads \union st.clears \union st.rebuilds
      BY <2>7 DEF Replaces
    <3>2. j # c.pos
      BY <1>6, <2>1, <3>1
    <3>3. DOMAIN page.ops[c.op].steps = 1..Len(page.ops[c.op].steps) /\ Len(page.ops[c.op].steps) \in Nat
      BY <1>6 DEF WellDescribed
    <3>4. c.pos + 1 <= j /\ c.pos + 1 \in DOMAIN page.ops[c.op].steps
      BY <1>6, <3>1, <3>2, <3>3
    <3>5. PICK d \in R : Advances(c, d)
      BY <1>2, <3>4 DEF GoesOnTo
    <3>6. d \in calls' /\ d.op = c.op /\ d.pos = c.pos + 1
      BY <1>2, <3>5 DEF GoesOnTo, Advances
    <3>7. Brings(d, s)'
      BY <2>7, <3>1, <3>4, <3>6 DEF Brings, Replaces
    <3>8. QED
      BY <3>6, <3>7 DEF Shows
  <2>8. CASE Extends(c, s)
    <3>1. /\ s \in At(c).writes /\ s \in At(c).patches \union At(c).drops \union At(c).appends
          /\ Row(s, view[s].of) = Row(s, c.key) /\ 1..(Version(s, c.key) - 1) \subseteq view[s].has
      BY <2>8 DEF Extends
    <3>2. PICK V : V = Version(s, c.key)
      OBVIOUS
    <3>3. V \in Nat /\ Version(s, view[s].of) = V /\ V \in view'[s].has
      BY <2>1, <2>3, <2>4, <3>1, <3>2
    <3>4. 1..V \subseteq view'[s].has
      BY <2>1, <3>1, <3>2, <3>3
    <3>5. Complete(view'[s], s)
      BY <2>3, <3>3, <3>4 DEF Complete
    <3>6. QED
      BY <1>4, <3>5 DEF Shows
  <2>9. QED
    BY <2>1, <2>5, <2>6, <2>7, <2>8 DEF Shows, Brings
<1>9. CASE view'[s].of = Nil \/ Complete(view'[s], s)
  BY <1>4, <1>9 DEF Shows, Loaded
<1>10. QED
  BY <1>7, <1>8, <1>9, AnsweredList

(***************************************************************************)
(* What is written is shown.                                               *)
(***************************************************************************)
\* So it is with every step.
LEMMA SettledKept ==
  ASSUME FollowInv, FollowInv', KeysInv, KeysInv', InTime, OwnSlots, [Next]_vars, UNCHANGED <<name, page, mode>>,
         faults \in Nat, faults' = 0, NEW s, ShowsWrites(name, mode, s)
  PROVE  Settled(s)'
<1>1. FlagsInv /\ FlagsInv' /\ TypeInv /\ TypeInv' /\ WellDescribed(page)
  BY PageRules DEF FollowInv, FlagsInv
<1>2. s \in page.slots
  BY <1>1, ShowRules
<1>3. Excluded(s) /\ Shows(s) /\ \A c \in calls : Knows(c, s)
  BY <1>2 DEF OwnSlots, Settled
<1>4. Excluded(s)'
  BY <1>1, <1>3, ExcludedKept
<1>5. \A d \in calls' : Knows(d, s)'
  BY <1>1, KnowsKept
<1>6. ASSUME Acts PROVE Shows(s)'
  BY <1>1, <1>3, <1>6, ActsShow
<1>7. ASSUME NEW c \in calls, Serve(c) PROVE Shows(s)'
  BY <1>1, <1>3, <1>5, <1>7, ServeShows
<1>8. ASSUME NEW c \in calls, Answer(c) PROVE Shows(s)'
  BY <1>1, <1>3, <1>8, AnswerShows
<1>9. Shows(s)'
  <2>1. Acts \/ \E c \in calls : Serve(c) \/ Answer(c)
    BY <1>1, FaultFree
  <2>2. QED
    BY <1>6, <1>7, <1>8, <2>1
<1>10. QED
  BY <1>4, <1>5, <1>9 DEF Settled

\* The inductive invariant: while nothing has failed.
OwnInv == FollowInv /\ KeysInv /\ InTime /\ faults \in Nat /\ (faults = 0 => OwnSlots)

\* The rules of a page's rail.
LEMMA RailRules ==
  ASSUME TypeInv, Kept(RailLags), "rail" \in page.slots
  PROVE  ShowsWrites(name, mode, "rail") /\ NeverEmptied(page, "rail") /\ "rail" \in page.shared
<1>1. mode \in DOMAIN HidesWrites /\ name \in DOMAIN Pages /\ page = Pages[name]
  BY DEF TypeInv, HidesWrites
<1>2. QED
  BY <1>1, WritesAssumption DEF Kept

\* So it is when a page opens,
LEMMA OwnInit == ScreensInit => OwnInv
<1> SUFFICES ASSUME ScreensInit PROVE OwnInv
  OBVIOUS
<1>1. FollowInv /\ KeysInv /\ TypeInv /\ WellDescribed(page)
  BY FollowInit, KeysInit, PageRules DEF FollowInv, FlagsInv
<1>2. /\ epoch = 0 /\ faults = 0 /\ sel \in Keys
      /\ view = [s \in page.slots |-> IF s = "rail" THEN [Blank EXCEPT !.of = sel] ELSE Blank]
      /\ calls = Begun(FirstEffects, sel, 0, 0)
      /\ db = [s \in page.slots |-> [k \in Keys \union {Nil} |-> <<>>]]
  BY DEF ScreensInit, Init
<1>3. ASSUME NEW c \in calls
      PROVE  /\ c.op \in FirstEffects /\ c.epoch = epoch /\ c.pos = 1 /\ c.wrote = <<>>
             /\ \A s \in page.ops[c.op].steps[1].reads : c.from[s] = Version(s, c.key)
             /\ \A s \in Rebuilt(c.op) : c.base[s] = view[s]
  <2>1. PICK k, e, n, os : k = sel /\ e = 0 /\ n = 0 /\ os = FirstEffects
    OBVIOUS
  <2>2. PICK o \in os : c = Call(o, k, e, n)
    BY <1>2, <2>1 DEF Begun, Asynchronous
  <2>3. /\ c.op = o /\ c.epoch = e /\ c.pos = 1 /\ c.wrote = <<>> /\ c.key = k
        /\ c.base = [s \in Rebuilt(o) |-> view[s]]
        /\ c.from = [s \in Op(o).steps[1].reads |-> Version(s, k)]
    BY <2>2 DEF Call
  <2>4. \A s \in page.ops[c.op].steps[1].reads : c.from[s] = Version(s, c.key)
    BY <2>3 DEF Op
  <2>5. \A s \in Rebuilt(c.op) : c.base[s] = view[s]
    BY <2>3
  <2>6. c.op \in FirstEffects /\ c.epoch = epoch
    BY <1>2, <2>1, <2>2, <2>3
  <2>7. QED
    BY <2>3, <2>4, <2>5, <2>6
<1>4. InTime
  BY <1>3 DEF InTime
<1>5. ASSUME NEW f \in page.slots, f # "rail" PROVE ~Loaded(f)
  BY <1>2, <1>5 DEF Loaded, Blank
<1>6. "rail" \in page.slots => view["rail"].of = sel /\ view["rail"].has = {} /\ Loaded("rail")
  <2>1. [Blank EXCEPT !.of = sel] = [of |-> sel, has |-> {}, edits |-> 0]
    BY DEF Blank
  <2>2. "rail" \in page.slots => view["rail"] = [of |-> sel, has |-> {}, edits |-> 0]
    BY <1>2, <2>1
  <2>3. QED
    BY <1>2, <2>2, KeysAssumption DEF Loaded
<1>7. ASSUME NEW s \in page.slots, ShowsWrites(name, mode, s), NEW c \in calls
      PROVE  /\ ~page.ops[c.op].user /\ ~Writing(c, s) /\ Knows(c, s)
  <2>1. c.op \in DOMAIN page.ops /\ ~page.ops[c.op].user /\ HandlerOf(page, c)
    BY <1>1, <1>3 DEF FirstEffects, WellDescribed, TypeInv, HandlerOf
  <2>2. ~Writing(c, s)
    BY <1>1, <1>7, <2>1, WritersAre
  <2>3. At(c) = page.ops[c.op].steps[1] /\ 1 \in DOMAIN page.ops[c.op].steps
    BY <1>3, <2>1 DEF At, Op, HandlerOf
  <2>4. s \notin At(c).rebuilds
    BY <1>1, <1>7, <2>1, <2>3, StepRules
  <2>5. s \notin At(c).appends
    BY <1>1, <1>7, <2>1, AddRules
  <2>6. QED
    BY <1>3, <2>1, <2>2, <2>3, <2>4, <2>5 DEF Knows
<1>8. ASSUME NEW s \in page.slots, ShowsWrites(name, mode, s) PROVE Settled(s)
  <2>1. Excluded(s)
    <3>1. CASE Patient
      BY <1>7, <1>8, <3>1 DEF Excluded, Alone
    <3>2. CASE ~Patient
      BY <1>7, <1>8, <3>2 DEF Excluded, Sole, HasOwnFlag
    <3>3. QED
      BY <3>1, <3>2
  <2>2. Shows(s)
    <3>1. Loaded(s) => s = "rail" /\ view[s].of = sel
      BY <1>5, <1>6, <1>8
    <3>2. Mirror(s) = s /\ (Row(s, sel) \in Keys \union {Nil}) /\ db[s][Row(s, sel)] = <<>>
      BY <1>1, <1>2, <1>8, ShowRules DEF Row
    <3>3. Version(s, sel) = 0
      BY <3>2 DEF Version, Log
    <3>4. QED
      BY <3>1, <3>3 DEF Shows, Complete
  <2>3. QED
    BY <1>7, <1>8, <2>1, <2>2 DEF Settled
<1>9. NeverEmptied(page, "rail") => Loaded("rail")
  BY <1>6 DEF NeverEmptied
<1>10. QED
  BY <1>1, <1>2, <1>4, <1>8, <1>9 DEF OwnInv, OwnSlots

\* and with every step.
LEMMA OwnStep == OwnInv /\ [Next]_vars => OwnInv'
<1> SUFFICES ASSUME OwnInv, [Next]_vars PROVE OwnInv'
  OBVIOUS
<1>1. FlagsInv /\ TypeInv /\ WellDescribed(page)
  BY PageRules DEF OwnInv, FollowInv, FlagsInv
<1>2. FollowInv' /\ KeysInv' /\ FlagsInv' /\ TypeInv' /\ UNCHANGED <<name, page, mode>>
  BY <1>1, FollowStep, KeysKept, TypesKept DEF OwnInv, FollowInv, FlagsInv
<1>3. InTime'
  BY <1>1, <1>2, TimelyKept DEF OwnInv
<1>4. faults' = faults \/ faults' = faults + 1
  BY <1>1, PollingChanges DEF Next, Press, Move, Type, Serve, Answer, Fail, vars
<1>5. faults' \in Nat /\ (faults' = 0 => faults = 0)
  BY <1>4 DEF OwnInv
<1>6. ASSUME faults' = 0 PROVE OwnSlots'
  <2>1. OwnSlots /\ KeysInv /\ InTime /\ FollowInv /\ faults \in Nat
    BY <1>5, <1>6 DEF OwnInv
  <2>2. ASSUME NEW s \in page.slots, ShowsWrites(name, mode, s) PROVE Settled(s)'
    BY <1>2, <1>6, <2>1, <2>2, SettledKept
  <2>3. ASSUME NeverEmptied(page, "rail"), ShowsWrites(name, mode, "rail") PROVE Loaded("rail")'
    BY <1>1, <1>2, <1>6, <2>1, <2>3, StaysFull DEF OwnSlots
  <2>4. QED
    BY <1>2, <2>2, <2>3 DEF OwnSlots
<1>7. QED
  BY <1>2, <1>3, <1>5, <1>6 DEF OwnInv

(***************************************************************************)
(* Once all requests are answered, nothing that the user has changed is    *)
(* missing from the lists, on every page that keeps the rules.             *)
(***************************************************************************)
THEOREM WritesAreShown == ScreensSpec => []PagesShowOwnWrites
<1>1. OwnInv => PagesShowOwnWrites
  <2> SUFFICES ASSUME OwnInv, Kept(HidesWrites), calls = {}, faults = 0,
                      NEW s \in page.slots \ (page.forms \union {"rail"} \union Refreshed(page)), Loaded(s)
               PROVE  1..Version(s, view[s].of) \subseteq view[s].has
    BY DEF PagesShowOwnWrites, ShowsOwnWrites
  <2>1. TypeInv /\ OwnSlots /\ KeysInv
    BY DEF OwnInv, FollowInv, FlagsInv
  <2>2. \/ ~Filled(page, s)
        \/ s \notin DOMAIN page.mirror /\ ~Written(page, s)
        \/ ShowsWrites(name, mode, s)
    <3>1. mode \in DOMAIN HidesWrites /\ name \in DOMAIN Pages /\ page = Pages[name]
      BY <2>1 DEF TypeInv, HidesWrites
    <3>2. QED
      BY <3>1, WritesAssumption DEF Kept
  <2>3. Filled(page, s)
    BY <2>1 DEF KeysInv, Loaded
  <2>4. CASE s \notin DOMAIN page.mirror /\ ~Written(page, s)
    <3>1. view[s].of \in Keys \union {Nil} /\ \A k \in Keys \union {Nil} : db[s][k] = <<>>
      BY <2>1, <2>4 DEF KeysInv
    <3>2. Log(s, view[s].of) = <<>>
      BY <2>4, <3>1 DEF Log, Row, Mirror
    <3>3. Version(s, view[s].of) = 0
      BY <3>2 DEF Version
    <3>4. QED
      BY <3>3
  <2>5. CASE ShowsWrites(name, mode, s)
    <3>1. Shows(s)
      BY <2>1, <2>5 DEF OwnSlots, Settled
    <3>2. QED
      BY <3>1 DEF Shows, Complete
  <2>6. QED
    BY <2>2, <2>3, <2>4, <2>5
<1>2. QED
  BY <1>1, OwnInit, OwnStep, PTL DEF ScreensSpec

(***************************************************************************)
(* The rail of the onboarding guide follows every change that may complete *)
(* a step, on every page that keeps the rules.                             *)
(***************************************************************************)
THEOREM RailIsUpToDate == ScreensSpec => []RailFollowsPages
<1>1. OwnInv => RailFollowsPages
  <2> SUFFICES ASSUME OwnInv, Kept(RailLags), calls = {}, faults = 0, "rail" \in page.slots
               PROVE  1..Version("rail", Nil) \subseteq view["rail"].has
    BY DEF RailFollowsPages, RailShowsProgress
  <2>1. TypeInv /\ OwnSlots /\ KeysInv
    BY DEF OwnInv, FollowInv, FlagsInv
  <2>2. ShowsWrites(name, mode, "rail") /\ NeverEmptied(page, "rail") /\ "rail" \in page.shared
    BY <2>1, RailRules
  <2>3. Loaded("rail") /\ Shows("rail")
    BY <2>1, <2>2 DEF OwnSlots, Settled
  <2>4. 1..Version("rail", view["rail"].of) \subseteq view["rail"].has
    BY <2>3 DEF Shows, Complete
  <2>5. Mirror("rail") = "rail"
    BY <2>1, <2>2, ShowRules
  <2>6. Version("rail", view["rail"].of) = Version("rail", Nil)
    BY <2>2, <2>5 DEF Version, Log, Row
  <2>7. QED
    BY <2>4, <2>6
<1>2. QED
  BY <1>1, OwnInit, OwnStep, PTL DEF ScreensSpec

=============================================================================

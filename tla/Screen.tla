------------------------------- MODULE Screen -------------------------------
(***************************************************************************)
(* A page of the dashboard, its requests and the server behind it.         *)
(*                                                                         *)
(* The user points at rows, types, presses what the page offers and moves  *)
(* to other apps, sessions or knowledge bases; requests are served and     *)
(* answered in any order.  A careful user waits for every answer before    *)
(* the next move, a hasty one only before turning to another selection, a  *)
(* roaming one never; an unlucky one is careful, but requests fail.  The   *)
(* requests of a timer come and go at any time, and nobody waits for them. *)
(***************************************************************************)
EXTENDS ScreenOps

CONSTANTS Nil,
          Pages,      \* the pages, a function from names to descriptions
          Keys,       \* apps, sessions or knowledge bases to choose from
          MaxMoves,   \* moves of a user who waits for answers
          MaxHasty,   \* moves of one who does not, by page
          MaxFaults,  \* requests or answers that fail
          MaxPolls    \* requests of timers that are under way at a time

VARIABLES name,    \* the page that is open
          page,    \* its description
          mode,    \* how patient the user is
          sel,     \* the selection: what the url or the highlighted row names
          epoch,   \* how often the selection has changed
          db,      \* db[slot][key]: the writes the server has done, by row
          view,    \* what the page holds in each slot
          up,      \* the flags that are up
          calls,   \* the handlers under way
          polls,   \* the requests of timers under way
          moves, faults

vars == <<name, page, mode, sel, epoch, db, view, up, calls, polls, moves, faults>>

Op(o) == page.ops[o]

\* A slot holds data of a key, namely the writes it reflects; edits is the
\* move at which the user last typed into it, 0 if it is as it was filled.
Blank == [of |-> Nil, has |-> {}, edits |-> 0]
Loaded(s) == view[s].of # Nil

Mirror(s) == IF s \in DOMAIN page.mirror THEN page.mirror[s] ELSE s
Row(s, k) == IF Mirror(s) \in page.shared THEN Nil ELSE k
Log(s, k) == db[Mirror(s)][Row(s, k)]
Version(s, k) == Len(Log(s, k))

\* Mutant: a page does not compare what it holds with the selection.
MutantVisible == page.hides \cap up = {} /\ \A s \in page.awaits : Loaded(s)

Visible ==
  /\ page.hides \cap up = {}
  /\ \A s \in page.awaits : Loaded(s)
  /\ \A s \in page.matches : view[s].of = sel

\* Mutant: what is being loaded again can be typed into.
MutantOffered == Visible

Offered == Visible /\ page.covers \cap up = {}

Live(c) ==
  LET st == Op(c.op).steps[c.pos]
  IN  st.guarded => c.epoch = epoch

(***************************************************************************)
(* Handlers.                                                               *)
(***************************************************************************)
Rebuilt(o) == UNION {Op(o).steps[i].rebuilds : i \in DOMAIN Op(o).steps}

\* The closure a handler runs with: its target, the forms it sends and the
\* lists it has captured; from is what the server held when the request left.
Call(o, k, e, n) ==
  [op |-> o, n |-> n, key |-> k, epoch |-> e, pos |-> 1,
   sent |-> [f \in Op(o).sends |-> view[f]],
   base |-> [s \in Rebuilt(o) |-> view[s]],
   wrote |-> <<>>,
   from |-> [s \in Op(o).steps[1].reads |-> Version(s, k)]]

Asynchronous(os) == {o \in os : Op(o).steps # <<>>}
Begun(os, k, e, n) == {Call(o, k, e, n) : o \in Asynchronous(os)}
Raised(os) == UNION {Op(o).up \union Op(o).steps[1].during : o \in Asynchronous(os)}

\* Effects that depend on a slot run once it is loaded.
Effects == {o \in page.loads : \A s \in Op(o).needs : Loaded(s)}
FirstEffects == page.opening \union {o \in page.loads : Op(o).needs = {}}

Init ==
  /\ name \in DOMAIN Pages
  /\ page = Pages[name]
  /\ mode \in {"careful", "unlucky", "hasty", "roaming"}
  /\ sel \in Keys
  /\ epoch = 0 /\ moves = 0 /\ faults = 0
  /\ db = [s \in page.slots |-> [k \in Keys \union {Nil} |-> <<>>]]
  /\ view = [s \in page.slots |-> IF s = "rail" THEN [Blank EXCEPT !.of = sel] ELSE Blank]
  /\ up = Raised(FirstEffects)
  /\ calls = Begun(FirstEffects, sel, 0, 0)
  /\ polls = {}

Patient == mode \in {"careful", "unlucky"}
MayMove == IF Patient THEN moves < MaxMoves /\ calls = {} ELSE moves < MaxHasty[name]
MaySelect == MayMove /\ (mode # "roaming" => calls = {})

\* Mutant: a form opened for a row is sent for the selection.
MutantTargets(o) == IF Op(o).target = "row" THEN Keys ELSE {sel}

Targets(o) ==
  CASE Op(o).target = "sel" -> {sel}
    [] Op(o).target = "row" -> Keys
    [] OTHER -> {view[Op(o).target].of} \ {Nil}

\* A control is pressed.  Filling a form from the page copies the row.
Press(o) ==
  /\ MayMove /\ Visible
  /\ Op(o).user
  /\ \A s \in Op(o).needs : Loaded(s)
  /\ \A f \in Op(o).dirty : view[f].edits # 0
  /\ Op(o).idle \cap up = {}
  /\ \E k \in Targets(o) :
       LET turns == Op(o).selects /\ k # sel
           started == {o} \union IF turns THEN Effects ELSE {}
           e == IF Op(o).selects THEN epoch + 1 ELSE epoch
       IN  /\ turns => MaySelect
           /\ sel' = IF Op(o).selects THEN k ELSE sel
           /\ epoch' = e
           /\ calls' = calls \union Begun(started, k, e, moves + 1)
           /\ up' = up \union Raised(started)
           /\ view' = [s \in page.slots |->
                IF s \in Op(o).blanks \union (IF turns THEN page.resets ELSE {}) THEN Blank
                ELSE IF s \in Op(o).opens
                  THEN [of |-> k, has |-> view[Mirror(s)].has, edits |-> 0]
                ELSE view[s]]
  /\ moves' = moves + 1
  /\ UNCHANGED <<name, page, mode, db, polls, faults>>

\* Navigation: the url names another app, the component stays mounted.
Move(k) ==
  /\ MaySelect /\ page.moves /\ k # sel
  /\ sel' = k
  /\ epoch' = epoch + 1
  /\ calls' = calls \union Begun(Effects, k, epoch + 1, moves + 1)
  /\ up' = up \union Raised(Effects)
  /\ view' = [s \in page.slots |-> IF s \in page.resets THEN Blank ELSE view[s]]
  /\ moves' = moves + 1
  /\ UNCHANGED <<name, page, mode, db, polls, faults>>

Type(f) ==
  /\ MayMove /\ Offered /\ Loaded(f)
  /\ view' = [view EXCEPT ![f].edits = moves + 1]
  /\ LET started == IF f \in page.watches THEN Effects ELSE {}
     IN  calls' = calls \union Begun(started, sel, epoch, moves + 1) /\ up' = up \union Raised(started)
  /\ moves' = moves + 1
  /\ UNCHANGED <<name, page, mode, sel, epoch, db, polls, faults>>

(***************************************************************************)
(* Requests.                                                               *)
(***************************************************************************)
At(c) == Op(c.op).steps[c.pos]
Unserved(c) == At(c).writes # {} /\ c.wrote = <<>>

Serve(c) ==
  /\ Unserved(c)
  /\ db' = [s \in page.slots |-> IF s \in At(c).writes
                                   THEN [db[s] EXCEPT ![Row(s, c.key)] = Append(@, c.key)] ELSE db[s]]
  /\ calls' = (calls \ {c}) \union
       {[c EXCEPT !.wrote = [s \in At(c).writes |-> Version(s, c.key) + 1]]}
  /\ UNCHANGED <<name, page, mode, sel, epoch, view, up, polls, moves, faults>>

\* Mutant: a GET may be answered from a cache.
MutantSeen(c) ==
  {v \in [At(c).reads -> 0..(MaxMoves + MaxHasty[name])] :
     \A s \in At(c).reads : v[s] <= Version(s, c.key)}

\* What each GET of the step may have seen: any state of the server since it
\* was sent.  The answer to a write carries what the write left behind.
Seen(c) ==
  {v \in [At(c).reads -> 0..(MaxMoves + MaxHasty[name])] :
     \A s \in At(c).reads :
       IF Mirror(s) \in DOMAIN c.wrote THEN v[s] = c.wrote[Mirror(s)]
       ELSE v[s] \in c.from[s]..Version(s, c.key)}

\* Mutant: the row is not replaced.
MutantPatched(c, s, own) == view[s].has

\* A list whose row is replaced by the answer shows every write to that row
\* that came before it, and of the other rows what it showed.
Patched(c, s, own) ==
  {n \in view[s].has : Log(s, c.key)[n] # c.key}
    \union {n \in UNION {1..m : m \in own} : Log(s, c.key)[n] = c.key}

Applied(c, seen, s) ==
  LET st == At(c)
      own == IF Mirror(s) \in DOMAIN c.wrote THEN {c.wrote[Mirror(s)]} ELSE {}
      row == c.key = view[s].of \/ s \in page.shared
  IN  IF s \in st.clears THEN Blank
      ELSE IF s \in st.empties THEN [view[s] EXCEPT !.edits = 0]
      ELSE IF s \in st.reads THEN
        [of |-> c.key, has |-> 1..seen[s],
         edits |-> IF s \in st.keeps /\ view[s].of = c.key THEN view[s].edits ELSE 0]
      ELSE IF s \in st.rebuilds THEN [c.base[s] EXCEPT !.has = @ \union own]
      ELSE IF s \in st.patches /\ Loaded(s) /\ row THEN [view[s] EXCEPT !.has = Patched(c, s, own)]
      ELSE IF s \in st.drops /\ Loaded(s) /\ row THEN [view[s] EXCEPT !.has = @ \union own]
      ELSE IF s \in st.appends THEN
        [of |-> c.key, has |-> (IF row THEN view[s].has ELSE {}) \union own, edits |-> 0]
      ELSE view[s]

\* Drafts that an effect recomputes from the list it depends on.
Derived(c, s) ==
  s \in page.derives /\ Mirror(s) \in At(c).reads \union At(c).patches \union At(c).drops \union At(c).rebuilds

Others(c) == calls \ {c}

Flags(c) == Op(c.op).up \union At(c).during

\* The handler goes on to its next request, or ends and drops its flags.
Proceed(c, spawns) ==
  LET spawned == Begun(spawns, sel, epoch, c.n)
      op == Op(c.op)
      dropped == IF Live(c) \/ op.finally THEN Flags(c) ELSE {}
  IN IF c.pos < Len(op.steps)
       THEN LET next == op.steps[c.pos + 1]
            IN /\ calls' = Others(c) \union spawned \union
                    {[c EXCEPT !.pos = @ + 1, !.wrote = <<>>,
                        !.from = [s \in next.reads |-> Version(s, c.key)]]}
               /\ up' = (up \ At(c).during) \union next.during \union Raised(spawns)
       ELSE /\ calls' = Others(c) \union spawned
            /\ up' = (up \ dropped) \union Raised(spawns)

Answer(c) ==
  /\ ~Unserved(c)
  /\ \E seen \in Seen(c) :
       view' = [s \in page.slots |->
                  IF ~Live(c) THEN view[s]
                  ELSE IF Derived(c, s)
                    THEN [of |-> sel, has |-> Applied(c, seen, Mirror(s)).has, edits |-> 0]
                  ELSE Applied(c, seen, s)]
  /\ Proceed(c, IF Live(c) THEN At(c).spawns ELSE {})
  /\ UNCHANGED <<name, page, mode, sel, epoch, db, polls, moves, faults>>

\* Mutant: the flags are dropped at the end of the try block, not in a finally.
MutantFail(c) ==
  /\ mode = "unlucky" /\ faults < MaxFaults
  /\ faults' = faults + 1
  /\ view' = [s \in page.slots |-> IF Live(c) /\ s \in At(c).lost THEN Blank ELSE view[s]]
  /\ IF At(c).soft THEN Proceed(c, {}) ELSE calls' = Others(c) /\ up' = up
  /\ UNCHANGED <<name, page, mode, sel, epoch, db, polls, moves>>

\* The request is lost, or its answer is: the handler's catch, or its end.
Fail(c) ==
  /\ mode = "unlucky" /\ faults < MaxFaults
  /\ faults' = faults + 1
  /\ view' = [s \in page.slots |-> IF Live(c) /\ s \in At(c).lost THEN Blank ELSE view[s]]
  /\ IF At(c).soft
       THEN Proceed(c, {})
       ELSE /\ calls' = Others(c)
            /\ up' = IF Live(c) \/ Op(c.op).finally THEN up \ Flags(c) ELSE up
  /\ UNCHANGED <<name, page, mode, sel, epoch, db, polls, moves>>

(***************************************************************************)
(* Timers.  A request asks for the key that the target slot names as it is *)
(* sent; it raises no flag, and a selection does not abort it.             *)
(***************************************************************************)
Timers == Timed(page)
PollsOf(o) == {q \in polls : q.op = o}

Poll(o) ==
  /\ Cardinality(polls) < MaxPolls
  /\ \E k \in Targets(o) :
       polls' = polls \union
         {[op |-> o, key |-> k, from |-> [s \in Op(o).steps[1].reads |-> Version(s, k)]]}
  /\ UNCHANGED <<name, page, mode, sel, epoch, db, view, up, calls, moves, faults>>

PollAnswer(o) ==
  LET shown == Op(o).steps[1].reads IN
  \E q \in PollsOf(o) :
    /\ \E seen \in [shown -> 0..(MaxMoves + MaxHasty[name])] :
         /\ \A s \in shown : seen[s] \in q.from[s]..Version(s, q.key)
         /\ view' = [s \in page.slots |->
              IF s \in shown THEN [of |-> q.key, has |-> 1..seen[s], edits |-> 0] ELSE view[s]]
    /\ polls' = polls \ {q}
    /\ UNCHANGED <<name, page, mode, sel, epoch, db, up, calls, moves, faults>>

\* Its failure is ignored.
PollFails(o) ==
  /\ \E q \in PollsOf(o) : polls' = polls \ {q}
  /\ UNCHANGED <<name, page, mode, sel, epoch, db, view, up, calls, moves, faults>>

Polling(o) == Poll(o) \/ PollAnswer(o) \/ PollFails(o)

Next ==
  \/ \E o \in DOMAIN page.ops : Press(o)
  \/ \E o \in Timers : Polling(o)
  \/ \E k \in Keys : Move(k)
  \/ \E f \in page.forms : Type(f)
  \/ \E c \in calls : Serve(c) \/ Answer(c) \/ Fail(c)

Spec == Init /\ [][Next]_vars

(***************************************************************************)
(* What a page should be like; Screens says of which pages it holds.       *)
(***************************************************************************)
\* What follows the selection: all but the forms opened for a row, and what a
\* timer refreshes.
RowForms == UNION {Op(o).opens : o \in {q \in DOMAIN page.ops : ~Op(q).selects}}
Keyed == page.slots \ (page.shared \union RowForms \union Refreshed(page))

\* Whatever the page offers to read and edit is of the selection.
ShowsSelection ==
  Offered => \A s \in Keyed : Loaded(s) => view[s].of = sel

\* At rest, everything the page has written is in what it shows, but for what a
\* timer refreshes; and the rail of the onboarding guide shows the progress that
\* the page has made.
ShowsOwnWrites ==
  (calls = {} /\ faults = 0) =>
     \A s \in page.slots \ (page.forms \union {"rail"} \union Refreshed(page)) :
       Loaded(s) => 1..Version(s, view[s].of) \subseteq view[s].has

RailShowsProgress ==
  (calls = {} /\ faults = 0 /\ "rail" \in page.slots) =>
     1..Version("rail", Nil) \subseteq view["rail"].has

\* What is saved for a key was loaded from that key.
SavesWhatWasLoaded ==
  \A c \in calls : \A f \in DOMAIN c.sent : c.sent[f].of = c.key

\* A flag is up exactly while a handler that raised it is under way.
BusyWhileRunning ==
  up = UNION {Flags(c) : c \in {d \in calls : Live(d)}}

\* An answer discards only what was typed before its handler was started, and
\* only if the handler saves that form, closes it or follows a change of the
\* selection; a failed save discards nothing.
EditsSurvive ==
  \A f \in page.forms :
    (view[f].edits # 0 /\ view'[f].edits # view[f].edits /\ moves' = moves) =>
       /\ faults' = faults
       /\ \E c \in calls \ calls' :
            /\ view[f].edits < c.n
            /\ \/ f \in DOMAIN c.sent \union At(c).clears
               \/ Op(c.op).selects \/ c.op \in page.loads
=============================================================================

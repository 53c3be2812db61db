----------------------------- MODULE ScreenRules -----------------------------
(***************************************************************************)
(* The rules by which the pages of the dashboard keep their promises.      *)
(*                                                                         *)
(* Each rule can be read off a page's description.  TLC evaluates them for *)
(* every page and every kind of user to whom Screens makes a promise;      *)
(* ScreenProofs shows that pages that follow them keep it, whatever the    *)
(* number of moves, of keys and of requests under way.                     *)
(***************************************************************************)
EXTENDS Screens

(***************************************************************************)
(* The rules by which the pages manage their flags.  Of every page:        *)
(* handlers that start together raise different flags, a step's own flags  *)
(* are not those of its handler, an effect that is also started by the     *)
(* answer it waits for waits for nothing that goes away again, and what a  *)
(* timer repeats only reads, and no forms.                                 *)
(***************************************************************************)
Raises(p, o) == p.ops[o].up \union UNION {p.ops[o].steps[i].during : i \in DOMAIN p.ops[o].steps}
Share(p, o, q) == Raises(p, o) \cap Raises(p, q) # {}
Quiet(p, o) == Raises(p, o) = {}
Guarded(p, o) == \E i \in DOMAIN p.ops[o].steps : p.ops[o].steps[i].guarded
Spawns(p, o) == UNION {p.ops[o].steps[i].spawns : i \in DOMAIN p.ops[o].steps}

WellDescribed(p) ==
  /\ p.opening \union p.loads \subseteq DOMAIN p.ops
  /\ \A o \in DOMAIN p.ops :
       /\ Len(p.ops[o].steps) \in Nat /\ DOMAIN p.ops[o].steps = 1..Len(p.ops[o].steps)
       /\ p.ops[o].steps # <<>> => 1 \in DOMAIN p.ops[o].steps
       /\ Spawns(p, o) \subseteq DOMAIN p.ops
       /\ Guarded(p, o) => Len(p.ops[o].steps) = 1
       /\ \A i \in DOMAIN p.ops[o].steps : p.ops[o].up \cap p.ops[o].steps[i].during = {}
       /\ p.ops[o].user => o \notin p.opening \union p.loads
       /\ p.ops[o].selects => p.ops[o].user
       /\ p.ops[o].target \notin Refreshed(p)
       /\ o \in p.opening \cap p.loads => p.ops[o].needs = {}
  /\ \A o \in Timed(p) :
       /\ o \notin p.opening \union p.loads /\ \A q \in DOMAIN p.ops : o \notin Spawns(p, q)
       /\ p.ops[o].up = {} /\ p.ops[o].steps = <<Get(p.ops[o].steps[1].reads)>>
  /\ Refreshed(p) \subseteq p.slots \ (p.forms \union p.derives \union DOMAIN p.mirror \union {"rail"})
  /\ \A f \in p.derives \cap DOMAIN p.mirror : p.mirror[f] \notin Refreshed(p)

\* Only the answer to o ever fills the slot, and nothing empties it.
FilledBy(p, s, o) ==
  /\ s \in p.slots \ (p.resets \union p.derives \union {"rail"} \union Refreshed(p))
  /\ \A q \in DOMAIN p.ops :
       /\ s \notin p.ops[q].blanks \union p.ops[q].opens
       /\ \A i \in DOMAIN p.ops[q].steps :
            LET st == p.ops[q].steps[i]
            IN  /\ s \notin st.clears \union st.empties \union st.lost \union st.rebuilds \union st.appends
                /\ s \in st.reads => q = o /\ s \notin st.patches \union st.drops

\* The operation runs once, when the page opens.
RunsOnce(p, o) ==
  /\ o \in p.opening \ p.loads
  /\ ~p.ops[o].user /\ p.ops[o].target \notin p.slots
  /\ Len(p.ops[o].steps) = 1
  /\ \A q \in DOMAIN p.ops : o \notin Spawns(p, q)

StartsApart(p) ==
  /\ \A o, q \in p.opening \union p.loads : o # q => ~Share(p, o, q)
  /\ \A o \in DOMAIN p.ops : p.ops[o].user /\ p.ops[o].selects => \A q \in p.loads : ~Share(p, o, q)
  /\ \A o \in DOMAIN p.ops : \A q \in Spawns(p, o) : ~Quiet(p, q) =>
       /\ RunsOnce(p, o) /\ q \in p.loads \ p.opening /\ p.ops[q].needs # {}
       /\ \A s \in p.ops[q].needs : FilledBy(p, s, o) /\ s \in p.ops[o].steps[1].reads
       /\ \A r \in DOMAIN p.ops \ {q} : ~Share(p, q, r)
       /\ \A r \in DOMAIN p.ops : q \in Spawns(p, r) => r = o
       /\ p.ops[q].target \notin p.slots
  /\ \A q \in p.loads : ~Quiet(p, q) => \A s \in p.ops[q].needs : \E o \in DOMAIN p.ops : FilledBy(p, s, o)

\* Of pages for the hasty: a control is disabled while a flag that it shares
\* is up, and so are the forms that start a load; nothing else interferes.
LocksInTime(p) ==
  /\ \A o, q \in DOMAIN p.ops : p.ops[o].user /\ Share(p, o, q) => p.ops[o].idle \cap p.ops[q].up # {}
  /\ p.watches # {} => \A o \in p.loads, q \in DOMAIN p.ops :
                         Share(p, o, q) => (p.hides \union p.covers) \cap p.ops[q].up # {}
  /\ \A o \in DOMAIN p.ops : Guarded(p, o) /\ ~Quiet(p, o) =>
       ~p.ops[o].finally /\ \A q \in DOMAIN p.ops : p.ops[q].user => ~p.ops[q].selects

\* Of pages for those who roam: a load with a spinner drops late answers, and
\* starts again with every selection.
LoadsAgain(p) ==
  /\ \A o \in p.loads : ~Quiet(p, o) => Guarded(p, o) /\ \A q \in DOMAIN p.ops \ {o} : ~Share(p, o, q)
  /\ \A o \in DOMAIN p.ops : Guarded(p, o) /\ ~Quiet(p, o) => o \in p.loads

ASSUME KeysAssumption == Nil \notin Keys

ASSUME FlagsAssumption ==
  \A n \in DOMAIN Pages :
    /\ WellDescribed(Pages[n]) /\ StartsApart(Pages[n])
    /\ n \notin LocksWrongly.hasty => LocksInTime(Pages[n])
    /\ n \notin LocksWrongly.roaming => LocksInTime(Pages[n]) /\ LoadsAgain(Pages[n])

(***************************************************************************)
(* The rules by which pages follow the selection.  Followers are the slots *)
(* that are to be of the selection: those that are not shared, that the    *)
(* page does not compare with the selection itself, that are not opened    *)
(* for a row and that no timer refreshes.                                  *)
(***************************************************************************)
Fills(st) == st.reads \union st.rebuilds \union st.appends
Filled(p, s) ==
  \/ s \in p.derives
  \/ \E o \in DOMAIN p.ops : \/ s \in p.ops[o].opens
                             \/ \E i \in DOMAIN p.ops[o].steps : s \in Fills(p.ops[o].steps[i])
OpenedForRow(p) == UNION {p.ops[o].opens : o \in {q \in DOMAIN p.ops : p.ops[q].target = "row" /\ ~p.ops[q].selects}}
Followers(p) == p.slots \ (p.shared \union p.matches \union OpenedForRow(p) \union Refreshed(p))

\* The operation is about the selection.
Aims(p, o) == p.ops[o].selects \/ p.ops[o].target = "sel"

\* The load o replaces the slot when the selection changes.
Reloads(p, o, s) ==
  /\ o \in p.loads /\ Len(p.ops[o].steps) = 1
  /\ s \in p.ops[o].steps[1].reads /\ s \notin p.resets
  /\ s \notin p.ops[o].steps[1].clears \union p.ops[o].steps[1].empties

\* Whatever fills the slot is about the selection, or dropped if it is late.
FilledForSelection(p, m, s) ==
  \A o \in DOMAIN p.ops :
    /\ s \in p.ops[o].opens => Aims(p, o)
    /\ p.ops[o].selects /\ Filled(p, s) => s \in p.ops[o].blanks \union p.ops[o].opens
    /\ \A i \in DOMAIN p.ops[o].steps :
         /\ s \in Fills(p.ops[o].steps[i]) => Aims(p, o) /\ (m = "roaming" => p.ops[o].steps[i].guarded)
         /\ s \in p.ops[o].steps[i].rebuilds =>
              /\ m # "roaming" /\ p.ops[o].user /\ ~p.ops[o].selects
              /\ \A q \in DOMAIN p.ops : o \notin Spawns(p, q)
              /\ \A l \in p.loads : Reloads(p, l, s) => p.ops[l].up \cap p.hides # {}

\* A load that replaces it does so when the selection moves, unless it has not
\* been there yet; if it fails the slot is emptied.
LoadedForSelection(p, m, s) ==
  /\ p.moves /\ Filled(p, s) => s \in p.resets \/ \E o \in p.loads : Reloads(p, o, s)
  /\ \A o \in p.loads : Reloads(p, o, s) =>
       /\ m = "unlucky" => s \in p.ops[o].steps[1].lost
       /\ p.ops[o].needs # {} =>
            /\ ~Quiet(p, o) /\ s \notin p.derives
            /\ \A q \in DOMAIN p.ops :
                 /\ s \notin p.ops[q].opens
                 /\ \A i \in DOMAIN p.ops[q].steps : s \in Fills(p.ops[q].steps[i]) => q = o

Own(p, m) ==
  {s \in Followers(p) : s \in p.slots \ {"rail", "sel", "row"} /\ FilledForSelection(p, m, s) /\ LoadedForSelection(p, m, s)}

\* The page loads when nothing else runs, and nothing else raises those flags.
LoadsAlone(p, m) ==
  /\ m = "hasty" /\ p.watches = {}
  /\ \A o \in p.loads :
       /\ p.ops[o].needs = {} /\ Len(p.ops[o].steps) = 1
       /\ \A q \in DOMAIN p.ops : o \notin Spawns(p, q) /\ (q # o => ~Share(p, o, q))

\* The selection is followed, and what is loaded meanwhile shows its flag.
Guided(n, m) ==
  (\E s \in Own(Pages[n], m), o \in Pages[n].loads : Reloads(Pages[n], o, s)) =>
     n \notin LocksWrongly[m] \/ LoadsAlone(Pages[n], m)

\* All that the page offers follows it, and is covered while it is loaded.
ShowsOwn(n, m) ==
  LET p == Pages[n]
  IN  /\ Followers(p) \subseteq Own(p, m) /\ Guided(n, m)
      /\ \A s \in Followers(p), o \in p.loads : Reloads(p, o, s) => p.ops[o].up \cap (p.hides \union p.covers) # {}

\* Who waits for answers finds the form f to be of the same row as the slot t.
Attached(p, f, t) ==
  /\ {f, t} \subseteq p.slots \ (p.resets \union p.derives \union {"rail", "sel", "row"} \union Refreshed(p))
  /\ \A o \in DOMAIN p.ops :
       /\ p.ops[o].target = t => p.ops[o].user
       /\ t \in p.ops[o].blanks => f \in p.ops[o].blanks
       /\ t \notin p.ops[o].opens
       /\ f \in p.ops[o].opens => p.ops[o].target = t /\ t \notin p.ops[o].blanks
       /\ \A i \in DOMAIN p.ops[o].steps :
            LET st == p.ops[o].steps[i]
            IN  /\ {f, t} \cap (st.rebuilds \union st.appends \union st.empties) = {} /\ t \notin st.lost
                /\ t \in st.clears => f \in st.clears
                /\ t \in st.reads => /\ p.ops[o].user
                                     /\ p.ops[o].target = t \/ f \in st.clears \union st.reads
                /\ f \in st.reads => f \in st.clears \/ t \in st.reads \ st.clears
                /\ \A q \in st.spawns : ~p.ops[q].user

\* The form is filled by what happens when the page opens.
FillsFirst(p, o, l, f) ==
  /\ FilledBy(p, f, l) /\ Len(p.ops[l].steps) = 1 /\ f \in p.ops[l].steps[1].reads
  /\ Len(p.ops[o].steps) = 1 /\ ~p.ops[o].steps[1].guarded /\ l \in p.ops[o].steps[1].spawns
FilledFirst(p, f) == \E o \in p.opening, l \in p.loads : FillsFirst(p, o, l, f)

\* A form that is sent was opened from the row it is sent for, is attached to
\* it, or follows the selection and is there.
SendsOwn(n, m, o, f) ==
  LET p == Pages[n]
      t == p.ops[o].target
  IN  \/ t = f
      \/ /\ t \in p.slots /\ Attached(p, f, t)
         /\ f \in p.ops[o].needs /\ m \in {"careful", "unlucky"}
      \/ /\ t = "sel" /\ f \in Own(p, m) /\ Guided(n, m)
         /\ f \in p.ops[o].needs \/ (m = "careful" /\ FilledFirst(p, f))
         /\ m \in {"hasty", "roaming"} =>
              \A l \in p.loads : Reloads(p, l, f) => p.ops[l].up \cap p.hides # {}

SavesOwn(n, m) ==
  LET p == Pages[n]
  IN  \A o \in DOMAIN p.ops : \A f \in p.ops[o].sends :
        /\ p.ops[o].user /\ f \in p.slots \ {"sel", "row"} /\ \A q \in DOMAIN p.ops : o \notin Spawns(p, q)
        /\ SendsOwn(n, m, o, f)

(***************************************************************************)
(* The rules by which pages keep what is typed.                            *)
(***************************************************************************)
\* The answer to the step may discard it.
Discards(p, st, f) ==
  \/ f \in st.clears \union st.empties \union st.reads \union st.appends
  \/ /\ f \in p.derives
     /\ (IF f \in DOMAIN p.mirror THEN p.mirror[f] ELSE f)
          \in st.reads \union st.patches \union st.drops \union st.rebuilds

\* The operation does so, or one that it spawns.
Touches(p, o, f) ==
  \E q \in {o} \union Spawns(p, o) : \E i \in DOMAIN p.ops[q].steps : Discards(p, p.ops[q].steps[i], f)

\* A load that leaves what was typed for the same key.
Leaves(p, o, f) ==
  /\ Spawns(p, o) = {} /\ f \notin p.derives
  /\ \A i \in DOMAIN p.ops[o].steps :
       LET st == p.ops[o].steps[i]
       IN  /\ f \notin st.clears \union st.empties \union st.appends
           /\ f \in st.reads => f \in st.keeps

\* It may, if it saves or closes the form or follows the selection.
MayDiscard(p, o, f) ==
  /\ o \notin Spawns(p, o) /\ \A q \in Spawns(p, o) : Spawns(p, q) = {}
  /\ \A i \in DOMAIN p.ops[o].steps :
       Discards(p, p.ops[o].steps[i], f) =>
         f \in p.ops[o].sends \union p.ops[o].steps[i].clears \/ p.ops[o].selects \/ o \in p.loads

\* One who does not wait cannot type meanwhile.
LocksForm(p, o, f) ==
  \/ p.ops[o].up \cap (p.hides \union p.covers) # {}
  \/ RunsOnce(p, o) /\ \E s \in p.awaits : s \in p.slots /\ FilledBy(p, s, o)

KeepsTyping(n, m) ==
  LET p == Pages[n]
  IN  \A f \in p.forms :
        /\ f \in p.slots \ {"rail"}
        /\ \A o \in DOMAIN p.ops :
             /\ MayDiscard(p, o, f)
             /\ \A i \in DOMAIN p.ops[o].steps :
                  f \notin p.ops[o].steps[i].rebuilds /\ (m = "unlucky" => f \notin p.ops[o].steps[i].lost)
             /\ m \in {"hasty", "roaming"} /\ Touches(p, o, f) => LocksForm(p, o, f) /\ n \notin LocksWrongly[m]
        /\ f \in p.watches => /\ f \in Own(p, m) /\ Guided(n, m)
                              /\ \A o \in p.loads :
                                   /\ Touches(p, o, f) => Leaves(p, o, f)
                                   /\ Reloads(p, o, f) => p.ops[o].up \cap (p.hides \union p.covers) # {}

ASSUME SelectionAssumption ==
  \A n \in DOMAIN Pages : \A m \in DOMAIN ShowsOthers :
    /\ n \notin ShowsOthers[m] => ShowsOwn(n, m)
    /\ n \notin SavesElsewhere[m] => SavesOwn(n, m)
    /\ n \notin LosesTyping[m] => KeepsTyping(n, m)

(***************************************************************************)
(* The rules by which a page shows what it has written.                    *)
(***************************************************************************)
Written(p, s) == \E o \in DOMAIN p.ops : \E i \in DOMAIN p.ops[o].steps : s \in p.ops[o].steps[i].writes
Uses(p, o, s) ==
  \E i \in DOMAIN p.ops[o].steps :
    LET st == p.ops[o].steps[i]
    IN  s \in st.writes \union Fills(st) \union st.patches \union st.drops \union st.clears

\* Of those who wait, a handler is alone until it has written.
WritesAlone(p, s) ==
  \A o \in DOMAIN p.ops : \A i \in DOMAIN p.ops[o].steps :
    s \in p.ops[o].steps[i].writes =>
      /\ p.ops[o].selects => p.loads = {}
      /\ \A h \in 1..(i - 1) : p.ops[o].steps[h].spawns = {}

\* Of others, one button saves: its flag is raised by nothing else and disables
\* it, and the loads that replace the slot hide it.
HasOwnFlag(p, o, g) ==
  /\ g \in p.ops[o].idle \cap p.ops[o].up /\ ~Guarded(p, o)
  /\ p.ops[o].user /\ \A q \in DOMAIN p.ops : o \notin Spawns(p, q) /\ (q # o => g \notin Raises(p, q))
SavesAlone(n, m, s) ==
  LET p == Pages[n]
  IN  /\ \A o, q \in DOMAIN p.ops : p.ops[o].user /\ p.ops[q].user /\ Uses(p, o, s) /\ Uses(p, q, s) => o = q
      /\ \A o \in DOMAIN p.ops : Uses(p, o, s) =>
           \/ \E g \in p.ops[o].up : HasOwnFlag(p, o, g)
           \/ /\ ~p.ops[o].user /\ o \in p.loads /\ p.ops[o].target \notin p.slots
              /\ m = "hasty" /\ n \notin LocksWrongly[m] /\ p.ops[o].up \cap p.hides # {}
              /\ p.watches = {} /\ \A q \in DOMAIN p.ops : ~p.ops[q].selects /\ o \notin Spawns(p, q)

\* Nothing empties the slot.
NeverEmptied(p, s) ==
  /\ s \in p.slots \ p.resets
  /\ \A o \in DOMAIN p.ops :
       /\ s \notin p.ops[o].blanks
       /\ \A i \in DOMAIN p.ops[o].steps : s \notin p.ops[o].steps[i].clears \union p.ops[o].steps[i].rebuilds

\* What is added to a list is added to one that is there.
Adds(p, m, o, s) ==
  /\ m \in {"careful", "unlucky"}
  /\ p.ops[o].user /\ ~p.ops[o].selects /\ s \notin p.ops[o].blanks /\ Len(p.ops[o].steps) = 1
  /\ \A q \in DOMAIN p.ops : o \notin Spawns(p, q)
  /\ s \in p.shared \cap p.ops[o].needs /\ NeverEmptied(p, s)

\* A write is followed by a load of the list, or patches it.
ShowsWrites(n, m, s) ==
  LET p == Pages[n]
  IN  /\ s \in p.slots \ (DOMAIN p.mirror \union p.derives \union Refreshed(p))
      /\ IF m \in {"careful", "unlucky"} THEN WritesAlone(p, s) ELSE SavesAlone(n, m, s)
      /\ \A o \in DOMAIN p.ops :
           /\ s \notin p.ops[o].opens
           /\ \A i \in DOMAIN p.ops[o].steps :
                LET st == p.ops[o].steps[i]
                IN  /\ s \notin st.empties
                    /\ s \in st.writes =>
                         /\ p.ops[o].user /\ ~Guarded(p, o) /\ \A q \in DOMAIN p.ops : o \notin Spawns(p, q)
                         /\ \/ \E j \in i..Len(p.ops[o].steps) :
                                 s \in p.ops[o].steps[j].reads \union p.ops[o].steps[j].clears
                            \/ s \in st.patches \union st.drops \union st.rebuilds \union st.appends
                    /\ s \in st.patches \union st.rebuilds => s \in st.writes
                    /\ s \in st.rebuilds => i = 1 /\ s \notin p.ops[o].blanks /\ ~p.ops[o].selects
                    /\ s \in st.appends => Adds(p, m, o, s)

ASSUME WritesAssumption ==
  \A n \in DOMAIN Pages : \A m \in DOMAIN HidesWrites :
    /\ \A o \in DOMAIN Pages[n].ops : Pages[n].ops[o].target \in Pages[n].slots \union {"sel", "row"}
    /\ n \notin HidesWrites[m] =>
         \A s \in Pages[n].slots \ (Pages[n].forms \union {"rail"} \union Refreshed(Pages[n])) :
           \/ ~Filled(Pages[n], s)
           \/ s \notin DOMAIN Pages[n].mirror /\ ~Written(Pages[n], s)
           \/ ShowsWrites(n, m, s)
    /\ n \notin RailLags[m] /\ "rail" \in Pages[n].slots =>
           /\ ShowsWrites(n, m, "rail") /\ NeverEmptied(Pages[n], "rail") /\ "rail" \in Pages[n].shared
=============================================================================

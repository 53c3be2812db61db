------------------------------ MODULE ScreenOps ------------------------------
(***************************************************************************)
(* The words in which the dashboard's pages are described.                 *)
(*                                                                         *)
(* A page of src/dashboard/src/dashboard_pages keeps two kinds of state:   *)
(* slots, which hold what the server answered (or a form that was filled   *)
(* from it), and flags, which say that a request is under way and disable  *)
(* or hide what must not be used meanwhile.  An async handler raises its   *)
(* flags, goes through its requests one after the other, applies each      *)
(* answer to its slots and drops the flags in its finally block.           *)
(* Module Screen runs these descriptions; nothing here has state.          *)
(***************************************************************************)
EXTENDS Naturals, Sequences, FiniteSets, TLC

(***************************************************************************)
(* One awaited request, or one Promise.all of several GETs:                *)
(*   writes    what the request changes at the server                      *)
(*   reads     the slots that the answer replaces                          *)
(*   keeps     those of them that keep what was typed for the same key     *)
(*   patches   lists whose row is replaced by the answer: set(prev => ...) *)
(*   drops     lists whose row is taken out or marked: set(prev => ...)    *)
(*   rebuilds  lists set to the list the handler saw at its start, changed *)
(*   appends   lists that the answer is added to, whosever they are        *)
(*   clears    slots emptied and forms closed once it has succeeded        *)
(*   empties   forms whose text is taken out once it has succeeded         *)
(*   lost      slots emptied when it fails                                 *)
(*   guarded   the answer is dropped if the effect was cleaned up since    *)
(*   soft      the error is caught here and the handler goes on            *)
(*   during    flags up while this step runs                               *)
(*   spawns    operations started without await once it has succeeded      *)
(***************************************************************************)
Step == [writes |-> {}, reads |-> {}, keeps |-> {}, patches |-> {}, drops |-> {},
         rebuilds |-> {}, appends |-> {}, clears |-> {}, empties |-> {}, lost |-> {}, guarded |-> FALSE,
         soft |-> FALSE, during |-> {}, spawns |-> {}]

Get(slots) == [reads |-> slots] @@ Step
Send(slots) == [writes |-> slots] @@ Step
Put(slots, shown) == [writes |-> slots, reads |-> shown] @@ Step

(***************************************************************************)
(* One handler or effect:                                                  *)
(*   user     a control starts it; otherwise the page itself does          *)
(*   target   whose data it is about: "sel" (the selection), "row" (a row  *)
(*            the user points at) or a slot that remembers whose it is     *)
(*   selects  it makes its target the selection                            *)
(*   needs    slots without which it returns at once                       *)
(*   idle     flags whose being up disables the control; none, where the   *)
(*            key Enter starts it as well or a dialog does, which can be     *)
(*            closed while it is busy and is not busy when opened again      *)
(*   dirty    forms that must differ from what was loaded                  *)
(*   up       flags raised at the start and dropped at the end             *)
(*   blanks   slots emptied at the start                                   *)
(*   opens    forms filled at the start from the data on the page          *)
(*   sends    forms whose content goes into the request                    *)
(*   finally  its flags are dropped even if the answer was ignored         *)
(*   steps    the requests                                                 *)
(***************************************************************************)
Operation == [user |-> TRUE, target |-> "sel", selects |-> FALSE, needs |-> {}, idle |-> {},
              dirty |-> {}, up |-> {}, blanks |-> {}, opens |-> {}, sends |-> {},
              finally |-> FALSE, steps |-> <<>>]

\* An effect that loads slots, and a local handler that only touches forms.
Load(flags, slots) == [user |-> FALSE, up |-> flags, steps |-> <<Get(slots)>>] @@ Operation
GuardedLoad(flags, slots) ==
  [user |-> FALSE, up |-> flags, steps |-> <<[guarded |-> TRUE] @@ Get(slots)>>] @@ Operation
Reset(forms) == [blanks |-> forms] @@ Operation
Open(forms) == [target |-> "row", opens |-> forms] @@ Operation

(***************************************************************************)
(* One page or panel:                                                      *)
(*   ops      its operations by name                                       *)
(*   slots    its slots; forms are those the user types into               *)
(*   mirror   for a form or a derived slot, the slot of the server it is a *)
(*            copy of                                                      *)
(*   shared   slots that do not depend on the selection                    *)
(*   loads    operations started when the page opens or the selection      *)
(*            changes; opening those started on opening only               *)
(*   resets   slots emptied when the selection changes                     *)
(*   derives  forms refilled whenever the slot they mirror is replaced     *)
(*   hides    flags that put a spinner in place of the page                *)
(*   covers   flags that hide or disable the data, but not the controls    *)
(*   watches  forms whose change starts the loads again                    *)
(*   awaits   slots without which there is a spinner                       *)
(*   matches  slots that must be of the selection, or there is a spinner   *)
(*   moves    the selection changes by navigation, without an operation    *)
(***************************************************************************)
PageOf == [ops |-> <<>>, slots |-> {}, forms |-> {}, mirror |-> <<>>, shared |-> {},
           loads |-> {}, opening |-> {}, resets |-> {}, derives |-> {}, hides |-> {},
           covers |-> {}, watches |-> {}, awaits |-> {}, matches |-> {}, moves |-> TRUE]

\* Operations that a timer repeats as long as their target slot is loaded, and
\* what they show without a look at the selection.
Timed(p) == {o \in DOMAIN p.ops : ~p.ops[o].user /\ p.ops[o].target \in p.slots}
Refreshed(p) == UNION {p.ops[o].steps[1].reads : o \in Timed(p)}

\* OnboardingContext.refresh: reads the state of the rail and never throws.
Refresh == [soft |-> TRUE, lost |-> {"rail"}] @@ Get({"rail"})
RefreshInBackground == [user |-> FALSE, steps |-> <<Refresh>>] @@ Operation
=============================================================================

------------------------------- MODULE Screens -------------------------------
(***************************************************************************)
(* What the pages of the dashboard promise, and to whom.                   *)
(*                                                                         *)
(* The pages guard themselves in different ways (a spinner, a skeleton, a  *)
(* clean-up of the effect, a disabled button) and some in none.  Every     *)
(* promise is stated of every page and every kind of user, except for the  *)
(* pages named with it, where the code does not keep it; README.md says    *)
(* what happens there.                                                     *)
(***************************************************************************)
EXTENDS Screen, AppScreens, WorkScreens, KnowledgeScreens

AllPages == AppPages @@ WorkPages @@ KnowledgePages

\* To roam is to change the selection; elsewhere it is the same as to haste.
Turns == page.moves \/ \E o \in DOMAIN page.ops : Op(o).selects
ScreensInit == Init /\ (mode = "roaming" => Turns)
ScreensSpec == ScreensInit /\ [][Next]_vars

Kept(exceptions) == name \notin exceptions[mode]
Only(names) == DOMAIN Pages \ names

\* Pages that show the old data until the answer is there, and pages that
\* show it again when no answer came.
ShowsOldData == {"AgentPrompt", "Limits", "LlmConfig", "Playbooks", "PlaybookList", "KbDetails",
                 "KbSearch"}
BackOnError == {"ApiKeys", "Languages", "ChatTheme", "Analytics", "Spend", "SessionList",
                "LlmModels", "AppKnowledgeBases"}

\* Pages whose effects ignore an answer that comes too late.
IgnoresLate == {"Functions", "AppKnowledgeBases", "KbSettings"}

\* Forms that can be sent before they are filled, or after their load failed.
SendsUnfilled == {"AgentPrompt", "Limits", "LlmConfig", "LlmModels", "AppKnowledgeBases"}
ModelPanels == {"ProfileModels", "SummaryModels"}

\* Pages that a late answer to a save turns back to what was saved.
TurnsBack == {"Playbooks", "ChatTheme"}

\* Pages with a flag that an operation shares with another one, or that does not
\* keep its own operation from being started again.
SharesFlag == {"Sessions", "Team", "LlmProfiles", "KbSettings", "EmbeddingProfiles", "ApiKeys",
               "Apps", "Playbooks"}

ShowsOthers ==
  [careful |-> ShowsOldData, unlucky |-> ShowsOldData \union BackOnError,
   hasty |-> ShowsOldData, roaming |-> Only(IgnoresLate)]

(***************************************************************************)
(* Whatever a page offers to read or edit belongs to the app, session,     *)
(* profile or knowledge base that is selected.  The loads of most pages    *)
(* have no clean-up, so one who roams sees late answers of another app.    *)
(***************************************************************************)
PagesShowSelection == Kept(ShowsOthers) => ShowsSelection

HidesWrites ==
  [careful |-> {}, unlucky |-> {},
   hasty |-> Only({"Languages", "ChatTheme", "AppKnowledgeBases", "LlmModels"}),
   roaming |-> Only({"AppKnowledgeBases", "LlmModels"})]

(***************************************************************************)
(* Once all requests are answered, nothing that the user has changed is    *)
(* missing from the lists: whether a handler reloads them, patches a row   *)
(* or rebuilds the list.  Two handlers that overlap may lose a change from *)
(* view; a page with a single save button lets them not overlap.  Who      *)
(* leaves an app with the theme being saved and comes back may lose it.    *)
(***************************************************************************)
PagesShowOwnWrites == Kept(HidesWrites) => ShowsOwnWrites

RailLags ==
  [careful |-> {"Apps", "Team"}, unlucky |-> {"Apps", "Team"},
   hasty |-> Only({}), roaming |-> Only({})]

(***************************************************************************)
(* The rail of the onboarding guide follows every change that may complete *)
(* a step or name its app; renaming an app and accepting an invitation do  *)
(* not refresh it.                                                         *)
(***************************************************************************)
RailFollowsPages == Kept(RailLags) => RailShowsProgress

SavesElsewhere ==
  [careful |-> {}, unlucky |-> SendsUnfilled \union {"ChatTheme", "Languages"},
   hasty |-> SendsUnfilled \union ModelPanels \union {"Playbooks"},
   roaming |-> SendsUnfilled \union ModelPanels \union TurnsBack \union {"Languages"}]

(***************************************************************************)
(* A save never writes what was loaded from elsewhere (or from nowhere)    *)
(* over the data of its target.                                            *)
(***************************************************************************)
SavesGoHome == Kept(SavesElsewhere) => SavesWhatWasLoaded

\* Where a flag is dropped by another operation than the one that raised it, or
\* by an answer of a selection that is gone.
LocksWrongly ==
  [careful |-> {}, unlucky |-> {}, hasty |-> SharesFlag,
   roaming |-> SharesFlag \union ModelPanels \union
     {"Languages", "LlmModels", "AuditLog", "Analytics", "Spend", "PlaybookList", "SessionList"}]

(***************************************************************************)
(* A spinner or a disabled button lasts exactly as long as the request it  *)
(* stands for, whatever fails: no button stays locked, none is freed early.*)
(***************************************************************************)
ButtonsLockAndFree == Kept(LocksWrongly) => BusyWhileRunning

LosesTyping ==
  [careful |-> {"Playbooks", "KbSettings"},
   unlucky |-> {"Playbooks", "KbSettings", "Functions", "LlmModels"} \union ModelPanels,
   hasty |-> Only({"AppKnowledgeBases", "LlmModels"} \union ModelPanels),
   roaming |-> Only({"AppKnowledgeBases"})]

(***************************************************************************)
(* An answer takes away only what was typed before its request was made,   *)
(* and only to save it or because the user turned elsewhere; a failed save *)
(* takes away nothing.  Saving a playbook's text reloads its steps, a      *)
(* reload of the knowledge bases refills the drafts, and a reply that is   *)
(* answered empties the box, whatever was typed meanwhile.                 *)
(***************************************************************************)
TypingIsKept == [][Kept(LosesTyping) => EditsSurvive]_vars
=============================================================================

----------------------------- MODULE WorkScreens -----------------------------
(***************************************************************************)
(* The pages with rows to choose from: the apps, an app's playbooks and    *)
(* sessions, the organization and its spend.  The selection is the         *)
(* playbook, session or time window that is open, or, for the lists of     *)
(* playbooks and sessions, the app; the rows of Apps and Team are pointed  *)
(* at one by one.                                                          *)
(***************************************************************************)
EXTENDS ScreenOps

(***************************************************************************)
(* Apps.  The list tells which apps lack a model or a key; that status is  *)
(* asked for every app of the list, without await, once the list has come. *)
(***************************************************************************)
AppsLoad ==
  [user |-> FALSE, steps |-> <<[guarded |-> TRUE, spawns |-> {"status"}] @@ Get({"apps"})>>]
  @@ Operation
LoadAppConfigStatus == [user |-> FALSE, steps |-> <<Get({"status"})>>] @@ Operation
CreateApp ==
  [idle |-> {"creating"}, up |-> {"creating"},
   steps |-> <<[writes |-> {"apps", "status", "rail"}, rebuilds |-> {"apps"},
                drops |-> {"status"}, spawns |-> {"refresh"}] @@ Step>>] @@ Operation
BeginEdit == [needs |-> {"apps"}] @@ Open({"edit"})
CancelEdit == [needs |-> {"edit"}, idle |-> {"updating"}] @@ Reset({"edit"})
UpdateAppDetails ==
  [target |-> "edit", needs |-> {"edit"}, idle |-> {"updating"}, up |-> {"updating"},
   sends |-> {"edit"},
   steps |-> <<[writes |-> {"apps", "rail"}, patches |-> {"apps"}, clears |-> {"edit"}] @@ Step>>]
  @@ Operation
DeleteApp ==
  [target |-> "row", needs |-> {"apps"}, up |-> {"deleting"},
   steps |-> <<[writes |-> {"apps", "status", "rail"}, drops |-> {"apps", "status"},
                spawns |-> {"refresh"}] @@ Step>>] @@ Operation
ToggleIntegration ==
  [target |-> "row", needs |-> {"apps"}, up |-> {"toggling"},
   steps |-> <<[writes |-> {"apps"}, patches |-> {"apps"}] @@ Step>>] @@ Operation
AppsPage ==
  [ops |-> [load |-> AppsLoad, status |-> LoadAppConfigStatus, create |-> CreateApp,
            edit |-> BeginEdit, cancel |-> CancelEdit, update |-> UpdateAppDetails,
            delete |-> DeleteApp, toggle |-> ToggleIntegration,
            refresh |-> RefreshInBackground],
   slots |-> {"apps", "status", "edit", "rail"}, forms |-> {"edit"},
   mirror |-> [edit |-> "apps"], shared |-> {"apps", "status", "rail"},
   opening |-> {"load"}, moves |-> FALSE] @@ PageOf

(***************************************************************************)
(* Playbooks.  What a click asks for is shown when its answer comes; the   *)
(* form and the steps are copies of the playbook that is shown.  The forms *)
(* of an edit and of a creation share their text, so that the one that is  *)
(* opened takes it from the other.                                         *)
(***************************************************************************)
PlaybooksLoad == Load({"loading"}, {"list", "functions"})
LoadPlaybooks == Get({"list"})
ShowPlaybook == [clears |-> {"form"}] @@ Get({"detail", "steps"})
SelectPlaybook ==
  [target |-> "row", selects |-> TRUE, needs |-> {"list"}, steps |-> <<ShowPlaybook>>]
  @@ Operation
StartEdit ==
  [target |-> "detail", needs |-> {"detail"}, blanks |-> {"creating"}, opens |-> {"form"}]
  @@ Operation
CancelForm == [needs |-> {"form"}] @@ Reset({"form", "creating"})
StartCreate ==
  [needs |-> {"list"}, blanks |-> {"detail", "steps", "form"}, opens |-> {"creating"}]
  @@ Operation
CreatePlaybook ==
  [target |-> "row", selects |-> TRUE, needs |-> {"creating"},
   steps |-> <<[clears |-> {"creating"}] @@ Send({"list"}), LoadPlaybooks, ShowPlaybook>>]
  @@ Operation
UpdatePlaybook ==
  [target |-> "detail", needs |-> {"detail", "form"}, sends |-> {"form"},
   steps |-> <<[clears |-> {"form"}] @@ Send({"list", "detail"}), LoadPlaybooks, ShowPlaybook>>]
  @@ Operation
DeletePlaybook ==
  [target |-> "detail", needs |-> {"detail"}, up |-> {"deleting"},
   steps |-> <<[clears |-> {"detail", "steps", "form"}] @@ Send({"list"}), LoadPlaybooks>>]
  @@ Operation
SaveSteps ==
  [target |-> "detail", needs |-> {"detail", "steps"}, idle |-> {"savingSteps"},
   up |-> {"savingSteps"}, sends |-> {"steps"},
   steps |-> <<Put({"list", "detail"}, {"detail", "steps"}), LoadPlaybooks>>] @@ Operation
StepsForm == {"steps"}
PlaybooksPage ==
  [ops |-> [load |-> PlaybooksLoad, select |-> SelectPlaybook, edit |-> StartEdit,
            cancel |-> CancelForm, new |-> StartCreate, create |-> CreatePlaybook,
            update |-> UpdatePlaybook, delete |-> DeletePlaybook, saveSteps |-> SaveSteps],
   slots |-> {"list", "functions", "detail", "form", "steps", "creating"},
   forms |-> {"form", "creating"} \union StepsForm,
   mirror |-> [form |-> "detail", steps |-> "detail"],
   shared |-> {"list", "functions", "creating"}, opening |-> {"load"},
   hides |-> {"loading"}, moves |-> FALSE] @@ PageOf

\* Of another app the page loads the list, and keeps the playbook that is open.
\* (What is saved of it then is refused: the app has no such playbook.)
OpenPlaybook == [needs |-> {"list"}, steps |-> <<Get({"detail"})>>] @@ Operation
AddPlaybook ==
  [needs |-> {"list"}, steps |-> <<Send({"list"}), LoadPlaybooks, Get({"detail"})>>] @@ Operation
PlaybookListPanel ==
  [ops |-> [load |-> PlaybooksLoad, open |-> OpenPlaybook, add |-> AddPlaybook],
   slots |-> {"list", "functions", "detail"}, loads |-> {"load"}, hides |-> {"loading"}] @@ PageOf

(***************************************************************************)
(* Sessions.  Opening a session aborts the load of the one before, whose   *)
(* finally block runs nevertheless; a timer then polls the messages, and   *)
(* neither it nor a reply looks at which session is open when the answer   *)
(* comes.                                                                  *)
(***************************************************************************)
SessionsLoad == Load({"loading"}, {"sessions"})
MoreSessions ==
  [needs |-> {"sessions"}, idle |-> {"loadingMore"}, up |-> {"loadingMore"},
   steps |-> <<[appends |-> {"sessions"}] @@ Step>>] @@ Operation
LoadMessages ==
  [target |-> "row", selects |-> TRUE, needs |-> {"sessions"}, up |-> {"messagesLoading"},
   blanks |-> {"messages", "poll"}, opens |-> {"reply"}, finally |-> TRUE,
   steps |-> <<[guarded |-> TRUE] @@ Get({"messages", "poll"})>>] @@ Operation
PollMessages ==
  [user |-> FALSE, target |-> "poll", steps |-> <<Get({"messages"})>>]
  @@ Operation
SendReply ==
  [needs |-> {"reply"}, dirty |-> {"reply"}, idle |-> {"sending"}, up |-> {"sending"},
   sends |-> {"reply"},
   steps |-> <<[writes |-> {"messages"}, appends |-> {"messages"}, empties |-> {"reply"}]
               @@ Step>>] @@ Operation
TakeOverSession ==
  [needs |-> {"reply"}, idle |-> {"takingOver"}, up |-> {"takingOver"},
   steps |-> <<[writes |-> {"sessions"}, reads |-> {"poll"}, patches |-> {"sessions"}]
               @@ Step>>] @@ Operation
ResolveSession ==
  [needs |-> {"reply"}, idle |-> {"resolving"}, up |-> {"resolving"},
   steps |-> <<[writes |-> {"sessions"}, patches |-> {"sessions"}] @@ Step>>] @@ Operation
ThreadForms == {"reply"}
SessionsPage ==
  [ops |-> [load |-> SessionsLoad, more |-> MoreSessions, open |-> LoadMessages,
            poll |-> PollMessages, reply |-> SendReply, takeOver |-> TakeOverSession,
            resolve |-> ResolveSession],
   slots |-> {"sessions", "messages", "poll"} \union ThreadForms, forms |-> ThreadForms,
   mirror |-> [reply |-> "messages"], shared |-> {"sessions", "poll"}, opening |-> {"load"},
   hides |-> {"loading"}, moves |-> FALSE] @@ PageOf

\* Of another app the page loads the list and shows no thread.
SessionListPanel ==
  [ops |-> [load |-> SessionsLoad, more |-> MoreSessions], slots |-> {"sessions"},
   loads |-> {"load"}, hides |-> {"loading"}] @@ PageOf

(***************************************************************************)
(* The organization.  Every change is followed by loadData, which reads    *)
(* everything the page shows and catches its own errors.  Members stand    *)
(* for all that belongs to the organization one is in, profiles included   *)
(* where they are not the point.  The spend of a time window is read by an *)
(* effect of its own.                                                      *)
(***************************************************************************)
OrganizationSlots == {"members", "sent"}
LoadData == [soft |-> TRUE, during |-> {"loading"}] @@ Get(OrganizationSlots)
OrganizationLoad == [user |-> FALSE, steps |-> <<LoadData>>] @@ Operation
Change(flag, slots) ==
  [needs |-> {"members"}, up |-> {flag}, steps |-> <<Send(slots), LoadData>>] @@ Operation

HandleInvite == [idle |-> {"inviting"}] @@ Change("inviting", {"sent"})
CancelInvitation == [idle |-> {"loading", "canceling"}] @@ Change("canceling", {"sent"})
AcceptInvitation ==
  [idle |-> {"loading", "accepting"}] @@ Change("accepting", OrganizationSlots \union {"rail"})
UpdateMemberRole == [idle |-> {"loading", "updatingRole"}] @@ Change("updatingRole", {"members"})
TeamPage ==
  [ops |-> [load |-> OrganizationLoad, invite |-> HandleInvite, cancel |-> CancelInvitation,
            accept |-> AcceptInvitation, role |-> UpdateMemberRole],
   slots |-> OrganizationSlots \union {"rail"}, shared |-> OrganizationSlots \union {"rail"},
   opening |-> {"load"}, moves |-> FALSE] @@ PageOf

LoadProfiles == [reads |-> {"profiles"}] @@ LoadData
CreateLlmProfile ==
  [idle |-> {"creatingProfile"}, up |-> {"creatingProfile"},
   steps |-> <<Send({"profiles", "rail"}), LoadProfiles, Refresh>>] @@ Operation
DeleteLlmProfile ==
  [needs |-> {"profiles"}, idle |-> {"loading", "deletingProfile"}, up |-> {"deletingProfile"},
   steps |-> <<Send({"profiles", "rail"}), LoadProfiles, Refresh>>] @@ Operation
LlmProfilesPage ==
  [ops |-> [load |-> [steps |-> <<LoadProfiles>>] @@ OrganizationLoad,
            create |-> CreateLlmProfile, delete |-> DeleteLlmProfile],
   slots |-> {"profiles", "rail"}, shared |-> {"profiles", "rail"},
   opening |-> {"load"}, moves |-> FALSE] @@ PageOf

LoadSpendData == Load({"spendLoading"}, {"spend"})
RefreshSpend == [user |-> TRUE, idle |-> {"spendLoading"}] @@ LoadSpendData
SpendPage ==
  [ops |-> [load |-> LoadSpendData, refresh |-> RefreshSpend], slots |-> {"spend"},
   loads |-> {"load"}, hides |-> {"spendLoading"}] @@ PageOf

WorkPages ==
  [Apps |-> AppsPage, Playbooks |-> PlaybooksPage, PlaybookList |-> PlaybookListPanel,
   Sessions |-> SessionsPage, SessionList |-> SessionListPanel,
   Team |-> TeamPage, LlmProfiles |-> LlmProfilesPage, Spend |-> SpendPage]
=============================================================================

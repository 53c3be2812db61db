------------------------------ MODULE AppScreens ------------------------------
(***************************************************************************)
(* The pages of one app, under /apps/:appId.  The router keeps a page      *)
(* mounted when only the appId changes, so the selection is the appId; on  *)
(* the audit log and analytics pages it is the app with the filter or      *)
(* range, on LlmModels the provider profile chosen in the form.            *)
(***************************************************************************)
EXTENDS ScreenOps

\* Saving a form whose answer is the resource as it now is.
SaveForm(flag, form, slots, shown) ==
  [dirty |-> {form}, needs |-> {form}, idle |-> {flag}, up |-> {flag}, sends |-> {form},
   steps |-> <<Put(slots, shown)>>] @@ Operation

(* Agent prompt: config.system_prompt and config.scope_mode. *)
AgentPromptLoad == Load({}, {"config", "draft"})
AgentPromptSave == SaveForm("saving", "draft", {"config"}, {"config", "draft"})
AgentPromptPage ==
  [ops |-> [load |-> AgentPromptLoad, save |-> AgentPromptSave],
   slots |-> {"config", "draft"}, forms |-> {"draft"}, mirror |-> [draft |-> "config"],
   loads |-> {"load"}, awaits |-> {"config", "draft"}] @@ PageOf

(* Limits: the numeric part of the config. *)
LimitsLoad == Load({}, {"config", "draft"})
LimitsSave == SaveForm("saving", "draft", {"config"}, {"config", "draft"})
LimitsForms == {"draft"}
LimitsPage ==
  [ops |-> [load |-> LimitsLoad, save |-> LimitsSave],
   slots |-> {"config", "draft"}, forms |-> LimitsForms, mirror |-> [draft |-> "config"],
   loads |-> {"load"}, awaits |-> {"config", "draft"}] @@ PageOf

(* API keys.  The new list is built from the one the handler captured.  Enter *)
(* in the field of the label does not look at the flag, see also Operation.   *)
ApiKeysLoad == Load({"loading"}, {"keys"})
CreateKey ==
  [up |-> {"generating"},
   steps |-> <<[writes |-> {"keys", "rail"}, rebuilds |-> {"keys"}] @@ Step, Refresh>>]
  @@ Operation
RevokeKey ==
  [needs |-> {"keys"}, up |-> {"confirm"},
   steps |-> <<[writes |-> {"keys", "rail"}, rebuilds |-> {"keys"}] @@ Step, Refresh>>]
  @@ Operation
ApiKeysPage ==
  [ops |-> [load |-> ApiKeysLoad, create |-> CreateKey, revoke |-> RevokeKey],
   slots |-> {"keys", "rail"}, shared |-> {"rail"}, loads |-> {"load"},
   hides |-> {"loading"}] @@ PageOf

(* Chat texts per language. *)
LanguagesLoad == Load({"loading"}, {"rows", "texts"})
LanguagesSave == SaveForm("saving", "texts", {"rows"}, {"rows", "texts"})
LanguagesForms == {"texts"}
LanguagesPage ==
  [ops |-> [load |-> LanguagesLoad, save |-> LanguagesSave],
   slots |-> {"rows", "texts"}, forms |-> LanguagesForms, mirror |-> [texts |-> "rows"],
   loads |-> {"load"}, hides |-> {"loading"}] @@ PageOf

(* Chat theme.  The effect drops the answer of an app that was left. *)
ChatThemeLoad == GuardedLoad({"loading"}, {"savedTheme", "theme"})
SaveTheme == SaveForm("saving", "theme", {"savedTheme"}, {"savedTheme", "theme"})
ChatThemeForms == {"theme"}
ChatThemePage ==
  [ops |-> [load |-> ChatThemeLoad, save |-> SaveTheme],
   slots |-> {"savedTheme", "theme"}, forms |-> ChatThemeForms,
   mirror |-> [theme |-> "savedTheme"], loads |-> {"load"}, hides |-> {"loading"},
   awaits |-> {"theme"}] @@ PageOf

(***************************************************************************)
(* Knowledge bases of an app.  The page first asks whether the integration *)
(* works at all; the assignment can be saved as soon as it says so.        *)
(***************************************************************************)
KnowledgeBaseStatus ==
  [user |-> FALSE, steps |-> <<[spawns |-> {"load"}] @@ Get({"status"})>>] @@ Operation
AssignmentsLoad ==
  [needs |-> {"status"}] @@ GuardedLoad({"loading"}, {"list", "selected"})
SaveAssignments ==
  [idle |-> {"saving"}, up |-> {"saving"}, sends |-> {"selected"},
   steps |-> <<Send({"assigned"})>>] @@ Operation
AssignmentsForms == {"selected"}
AssignmentsPage ==
  [ops |-> [status |-> KnowledgeBaseStatus, load |-> AssignmentsLoad, save |-> SaveAssignments],
   slots |-> {"status", "list", "assigned", "selected"}, forms |-> AssignmentsForms,
   mirror |-> [selected |-> "assigned"], shared |-> {"status", "list"},
   opening |-> {"status"}, loads |-> {"load"}, awaits |-> {"status"},
   covers |-> AssignmentsLoad.up] @@ PageOf

(***************************************************************************)
(* The model of an app: its profile, model and vision mode, and, beside    *)
(* it, the models that the profile chosen in the form offers.  The effect  *)
(* that lists them also replaces a model the profile does not have.        *)
(***************************************************************************)
LlmConfigLoad == Load({}, {"config", "draft", "profiles"})
LlmConfigSave ==
  [needs |-> {"draft"}, dirty |-> {"draft"}, idle |-> {"saving"}, up |-> {"saving"},
   sends |-> {"draft"},
   steps |-> <<Put({"config", "rail"}, {"config", "draft"}), Refresh>>] @@ Operation
LlmConfigPage ==
  [ops |-> [load |-> LlmConfigLoad, save |-> LlmConfigSave],
   slots |-> {"config", "draft", "profiles", "rail"}, forms |-> {"draft"},
   mirror |-> [draft |-> "config"], shared |-> {"profiles", "rail"}, loads |-> {"load"},
   awaits |-> {"config"}] @@ PageOf

LlmModelsLoad ==
  [user |-> FALSE, up |-> {"modelsLoading"},
   steps |-> <<[lost |-> {"models"}, keeps |-> {"model"}] @@ Get({"models", "model"})>>] @@ Operation
LlmModelsSave ==
  [needs |-> {"model"}, idle |-> {"saving"}, up |-> {"saving"}, sends |-> {"model"},
   steps |-> <<Put({"config"}, {"config"})>>] @@ Operation
LlmModelsPage ==
  [ops |-> [models |-> LlmModelsLoad, save |-> LlmModelsSave],
   slots |-> {"config", "models", "model"}, forms |-> {"model"},
   mirror |-> [model |-> "models"], shared |-> {"config"}, loads |-> {"models"},
   covers |-> LlmModelsLoad.up, watches |-> {"model"}] @@ PageOf

(* The audit log of an app under a filter, and its next page of rows. *)
AuditLogLoad == [blanks |-> {"events"}] @@ Load({"loading"}, {"events"})
AuditLogMore ==
  [needs |-> {"events"}, idle |-> {"loadingMore"}, up |-> {"loadingMore"},
   steps |-> <<[appends |-> {"events"}] @@ Step>>] @@ Operation
AuditLogPage ==
  [ops |-> [load |-> AuditLogLoad, more |-> AuditLogMore], slots |-> {"events"},
   loads |-> {"load"}, resets |-> AuditLogLoad.blanks, hides |-> {"loading"}] @@ PageOf

(* The figures of an app over a range of days. *)
AnalyticsLoad == Load({"loading"}, {"figures"})
AnalyticsPage ==
  [ops |-> [load |-> AnalyticsLoad], slots |-> {"figures"}, loads |-> {"load"},
   hides |-> {"loading"}] @@ PageOf

(***************************************************************************)
(* Functions.  The page remembers whose functions it holds and shows a     *)
(* skeleton for any other app; an editor closes whatever the save did.     *)
(* What a failed load leaves has no rows, so there is nothing to press.    *)
(***************************************************************************)
FunctionsLoad ==
  [user |-> FALSE, steps |-> <<[guarded |-> TRUE, lost |-> {"functions"}] @@ Get({"functions"})>>]
  @@ Operation
PatchFunction(slots) == [writes |-> slots, patches |-> {"functions"}] @@ Step
ToggleActive ==
  [needs |-> {"functions"},
   steps |-> <<PatchFunction({"functions", "rail"}), Refresh>>] @@ Operation
EditOverride == [needs |-> {"functions"}, opens |-> {"override"}] @@ Operation
SaveOverride ==
  [needs |-> {"override"}, sends |-> {"override"},
   steps |-> <<[clears |-> {"override"}, lost |-> {"override"}] @@ PatchFunction({"functions"})>>]
  @@ Operation
ClearOverride ==
  [needs |-> {"override"},
   steps |-> <<[clears |-> {"override"}, lost |-> {"override"}] @@ PatchFunction({"functions"})>>]
  @@ Operation
CancelOverride == [needs |-> {"override"}] @@ Reset({"override"})
SaveSeverity ==
  [needs |-> {"functions"}, steps |-> <<PatchFunction({"functions"})>>] @@ Operation
FunctionsPage ==
  [ops |-> [load |-> FunctionsLoad, toggle |-> ToggleActive, edit |-> EditOverride,
            save |-> SaveOverride, clear |-> ClearOverride, cancel |-> CancelOverride,
            severity |-> SaveSeverity],
   slots |-> {"functions", "override", "rail"}, forms |-> {"override"},
   mirror |-> [override |-> "functions"], shared |-> {"rail"}, loads |-> {"load"},
   resets |-> {"override"}, matches |-> {"functions"}] @@ PageOf

AppPages ==
  [AgentPrompt |-> AgentPromptPage, Limits |-> LimitsPage, ApiKeys |-> ApiKeysPage,
   Languages |-> LanguagesPage, ChatTheme |-> ChatThemePage,
   AppKnowledgeBases |-> AssignmentsPage, LlmConfig |-> LlmConfigPage,
   LlmModels |-> LlmModelsPage, AuditLog |-> AuditLogPage, Analytics |-> AnalyticsPage,
   Functions |-> FunctionsPage]
=============================================================================

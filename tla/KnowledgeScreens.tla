--------------------------- MODULE KnowledgeScreens ---------------------------
(***************************************************************************)
(* The panels of the page KnowledgeBases.  Its state falls apart into      *)
(* panels that share nothing but the selected knowledge base and the list: *)
(* sources, documents and jobs of the selected one, its settings, search,  *)
(* the embedding profiles, and the choice of a model of a provider profile.*)
(***************************************************************************)
EXTENDS ScreenOps

(***************************************************************************)
(* Sources, documents and jobs.  Every handler ends with loadKbDetails of  *)
(* the knowledge base it was pressed for, and that sets what the page      *)
(* shows without a look at the selection.                                  *)
(***************************************************************************)
Details == {"sources", "documents"}
LoadKbDetails == [soft |-> TRUE] @@ Get(Details)
ShowKbDetails == [user |-> FALSE, steps |-> <<LoadKbDetails>>] @@ Operation
OnDetails(slots) == [needs |-> {"sources"}, steps |-> <<Send(slots), LoadKbDetails>>] @@ Operation
AddUrlSource ==
  [idle |-> {"addingUrl"}, up |-> {"addingUrl"}] @@ OnDetails({"sources"})
AddUploadSource ==
  [idle |-> {"uploading"}, up |-> {"uploading"}] @@ OnDetails({"sources"})
RecrawlSource == OnDetails({"sources"})
RemoveSource == OnDetails({"sources", "documents"})
RemoveDocument == OnDetails({"documents"})
RefreshKbIndex ==
  [idle |-> {"refreshingIndex"}, up |-> {"refreshingIndex"}] @@ OnDetails({})
KbDetailsPanel ==
  [ops |-> [show |-> ShowKbDetails, addUrl |-> AddUrlSource, upload |-> AddUploadSource,
            recrawl |-> RecrawlSource, removeSource |-> RemoveSource,
            removeDocument |-> RemoveDocument, refreshIndex |-> RefreshKbIndex],
   slots |-> Details, loads |-> {"show"}] @@ PageOf

(* Search hits of the knowledge base; no effect takes them away. *)
RunSearch ==
  [idle |-> {"searching"}, up |-> {"searching"}, steps |-> <<Get({"hits"})>>] @@ Operation
KbSearchPanel == [ops |-> [search |-> RunSearch], slots |-> {"hits"}] @@ PageOf

(***************************************************************************)
(* Settings.  The drafts follow the selected row of the list: an effect    *)
(* refills them whenever that row is another object, so whenever the list  *)
(* is loaded or another knowledge base is chosen.  An embedding change     *)
(* that touches chunks opens a dialog, which keeps the change it is about. *)
(***************************************************************************)
LoadKnowledgeBases == [soft |-> TRUE, during |-> {"isLoading"}] @@ Get({"kbs"})
ListKnowledgeBases ==
  [user |-> FALSE, steps |-> <<LoadKnowledgeBases>>] @@ Operation
KbDrafts == {"embeddingDraft", "summaryDraft"}
SelectKb ==
  [target |-> "row", selects |-> TRUE, needs |-> {"kbs"}, idle |-> {"isLoading"},
   opens |-> KbDrafts] @@ Operation
CreateKnowledgeBase ==
  [idle |-> {"creatingKb"}, up |-> {"creatingKb"},
   steps |-> <<Send({"kbs"}), LoadKnowledgeBases>>] @@ Operation
DeleteKnowledgeBase ==
  [target |-> "row", needs |-> {"kbs"}, idle |-> {"isLoading"},
   steps |-> <<Send({"kbs"}), LoadKnowledgeBases>>] @@ Operation
RequestKbEmbeddingChange ==
  [needs |-> {"kbs", "embeddingDraft"}, dirty |-> {"embeddingDraft"},
   idle |-> {"updatingEmbedding"}, sends |-> {"embeddingDraft"}, steps |-> <<Get({"confirm"})>>]
  @@ Operation
ApplyKbEmbeddingChange == <<Send({"kbs"}), LoadKnowledgeBases>>
ChangeAtOnce ==
  [steps |-> <<Step>> \o [i \in 1..2 |-> [during |-> {"updatingEmbedding"}]
                                           @@ ApplyKbEmbeddingChange[i]]]
  @@ RequestKbEmbeddingChange
ConfirmRegeneration ==
  [target |-> "confirm", needs |-> {"confirm"}, up |-> {"updatingEmbedding"},
   steps |-> <<ApplyKbEmbeddingChange[1],
               [clears |-> {"confirm"}] @@ ApplyKbEmbeddingChange[2]>>] @@ Operation
CancelConfirm == [needs |-> {"confirm"}] @@ Reset({"confirm"})
SaveKbSummaryConfig ==
  [needs |-> {"kbs", "summaryDraft"}, dirty |-> {"summaryDraft"}, idle |-> {"savingSummary"},
   up |-> {"savingSummary"}, sends |-> {"summaryDraft"},
   steps |-> <<Send({"kbs"}), LoadKnowledgeBases>>] @@ Operation
KbSettingsPanel ==
  [ops |-> [list |-> ListKnowledgeBases, select |-> SelectKb, create |-> CreateKnowledgeBase,
            delete |-> DeleteKnowledgeBase, request |-> RequestKbEmbeddingChange,
            change |-> ChangeAtOnce, confirm |-> ConfirmRegeneration,
            cancel |-> CancelConfirm, saveSummary |-> SaveKbSummaryConfig],
   slots |-> {"kbs", "confirm"} \union KbDrafts, forms |-> KbDrafts,
   mirror |-> [embeddingDraft |-> "kbs", summaryDraft |-> "kbs"],
   shared |-> {"kbs", "confirm"}, derives |-> KbDrafts, opening |-> {"list"},
   moves |-> FALSE] @@ PageOf

(***************************************************************************)
(* Embedding profiles.  An edit that changes the vectors of some chunks    *)
(* asks first, as above; any other is applied at once.                     *)
(***************************************************************************)
LoadEmbeddingProfiles ==
  [soft |-> TRUE, during |-> {"embeddingLoading"}] @@ Get({"profiles"})
ListProfiles == [user |-> FALSE, steps |-> <<LoadEmbeddingProfiles>>] @@ Operation
CreateEmbeddingProfile ==
  [idle |-> {"creatingProfile"}, up |-> {"creatingProfile"},
   steps |-> <<Send({"profiles"}), LoadEmbeddingProfiles>>] @@ Operation
StartEditingProfile ==
  [needs |-> {"profiles"}, idle |-> {"embeddingLoading"}] @@ Open({"edit"})
StopEditingProfile == [needs |-> {"edit"}] @@ Reset({"edit"})
DeleteEmbeddingProfile ==
  [target |-> "row", needs |-> {"profiles"}, idle |-> {"embeddingLoading"},
   up |-> {"deletingProfile"}, steps |-> <<Send({"profiles"}), LoadEmbeddingProfiles>>]
  @@ Operation
ApplyEmbeddingProfileUpdate ==
  <<[clears |-> {"edit"}, during |-> {"savingProfile"}] @@ Send({"profiles"}),
    [during |-> {"savingProfile", "embeddingLoading"}] @@ LoadEmbeddingProfiles>>
SaveEmbeddingProfileEdit ==
  [target |-> "edit", needs |-> {"profiles", "edit"}, sends |-> {"edit"},
   idle |-> {"savingProfile", "embeddingLoading"}, steps |-> <<Get({"confirm"})>>]
  @@ Operation
SaveEditAtOnce == [steps |-> ApplyEmbeddingProfileUpdate] @@ SaveEmbeddingProfileEdit
ConfirmProfileUpdate ==
  [target |-> "confirm", needs |-> {"confirm"}, up |-> {"confirming"},
   steps |-> <<ApplyEmbeddingProfileUpdate[1],
               [clears |-> {"confirm"}] @@ ApplyEmbeddingProfileUpdate[2]>>] @@ Operation
EmbeddingProfilesPanel ==
  [ops |-> [list |-> ListProfiles, create |-> CreateEmbeddingProfile,
            edit |-> StartEditingProfile, stop |-> StopEditingProfile,
            delete |-> DeleteEmbeddingProfile, save |-> SaveEmbeddingProfileEdit,
            saveAtOnce |-> SaveEditAtOnce, confirm |-> ConfirmProfileUpdate,
            cancel |-> CancelConfirm],
   slots |-> {"profiles", "edit", "confirm"}, forms |-> {"edit"},
   mirror |-> [edit |-> "profiles"], shared |-> {"profiles", "confirm"},
   opening |-> {"list"}, moves |-> FALSE] @@ PageOf

(***************************************************************************)
(* The models that a provider profile offers, for a new or edited          *)
(* embedding profile and for the summaries of a new or the selected        *)
(* knowledge base.  The selection is the provider profile of the form; a   *)
(* failed load takes the models away.                                      *)
(***************************************************************************)
LoadModels(flag) ==
  [user |-> FALSE, up |-> {flag},
   steps |-> <<[lost |-> {"models", "model"}, keeps |-> {"model"}] @@ Get({"models", "model"})>>] @@ Operation
LoadEmbeddingModels == LoadModels("modelsLoading")
LoadChatModels == LoadModels("summaryModelsLoading")
SubmitWithModel(flag) ==
  [needs |-> {"model"}, idle |-> {flag}, up |-> {flag}, sends |-> {"model"},
   steps |-> <<Send({"rows"})>>] @@ Operation
ModelsPanel(load, flag) ==
  [ops |-> [load |-> load, submit |-> SubmitWithModel(flag)],
   slots |-> {"models", "model", "rows"}, forms |-> {"model"},
   mirror |-> [model |-> "models"], shared |-> {"rows"}, loads |-> {"load"},
   covers |-> load.up] @@ PageOf

KnowledgePages ==
  [KbDetails |-> KbDetailsPanel, KbSearch |-> KbSearchPanel, KbSettings |-> KbSettingsPanel,
   EmbeddingProfiles |-> EmbeddingProfilesPanel,
   ProfileModels |-> ModelsPanel(LoadEmbeddingModels, "creatingProfile"),
   SummaryModels |-> ModelsPanel(LoadChatModels, "creatingKb")]
=============================================================================

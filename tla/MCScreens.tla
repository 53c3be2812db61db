------------------------------ MODULE MCScreens ------------------------------
(* Two things to choose from on every page of the dashboard; they are alike. *)
EXTENDS ScreenRules

CONSTANTS k1, k2

\* The more there is to do at once on a page, the fewer moves suffice.
Busy ==
  {"Functions", "Apps", "ApiKeys", "Team", "KbDetails", "KbSettings", "EmbeddingProfiles"}
Hasty ==
  [p \in DOMAIN AllPages |->
     IF p \in Busy THEN 3 ELSE IF p \in {"LlmProfiles", "Playbooks", "PlaybookList", "Sessions"} THEN 4 ELSE 5]

Alike == Permutations({k1, k2})
=============================================================================

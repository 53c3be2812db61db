----------------------------- MODULE MCAppSetup -----------------------------
(* Two apps of which the first is set up or about to be.  The symmetric    *)
(* sets hold model values that no operator tells apart.                    *)
EXTENDS AppSetup, TLC

Symmetry ==
  Permutations(Profiles) \union Permutations(Functions) \union Permutations(Requests)

\* Of the settled databases: the first app, if it exists, has all functions;
\* it is configured for images with a profile or not at all.
MCInit ==
  /\ Init
  /\ \A a \in Apps :
       config[a] # Nil => a = 1 /\ config[a].profile # Nil /\ config[a].vision = "multimodal"
  /\ \A k \in Keys : key[k] # Nil => key[k].app = 1
  /\ \A f \in Functions : fn[f] # Nil => fn[f].app = 1
  /\ apps \in {{}, {1}, Apps}
  /\ \A f \in Functions : (fn[f] # Nil) <=> (1 \in apps)

MCSpec == MCInit /\ [][Next]_vars
=============================================================================

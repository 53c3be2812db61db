----------------------------- MODULE MCKnowledge -----------------------------
(* Starts with one profile, or two of different models, and a knowledge    *)
(* base with the chunks of one source.                                     *)
EXTENDS Knowledge, TLC

CONSTANTS p1, p2, small, large, s1, s2

MCInit ==
  /\ Init
  /\ profile[p1] = small /\ profile[p2] \in {large, Nil}
  /\ kb[1] # Nil /\ kb[1].profile = p1 /\ kb[2] = Nil
  /\ source[s2] = Nil /\ source[s1] = [kb |-> 1, kind |-> "url", made |-> {small}]
  /\ \A a \in Apps : assigned[a].refs = {}

MCSpec == MCInit /\ [][Next]_vars /\ Fairness
=============================================================================

---------------------------- MODULE MCMembership ----------------------------
EXTENDS Membership, TLC
OneName == [a \in Apps |-> "app"]
Alike == Permutations(Requests) \union Permutations(Developers)
           \union Permutations(Orgs) \union Permutations(Invitations) \union Permutations(Apps)
=============================================================================

-------------------------- MODULE MCClusterGroups --------------------------
(* Two workspaces of the same name, two users, two groups, two requests.   *)
EXTENDS ClusterGroups, TLC

Symmetry == Permutations(Workspaces) \cup Permutations(Users) \cup Permutations(Requests)
=============================================================================

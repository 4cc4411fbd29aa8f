--------------------------- MODULE MCClusterScale ---------------------------
(* A master and up to three workers on two hosts.                          *)
EXTENDS ClusterScale

CONSTANTS m, w1, w2, w3

MCSymmetry == Permutations({w1, w2, w3})
=============================================================================

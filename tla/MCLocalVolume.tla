--------------------------- MODULE MCLocalVolume ---------------------------
(* Small instances of LocalVolume for TLC. *)
EXTENDS LocalVolume, TLC

CONSTANTS n1, n2, v1, v2, v3

MCNodes == {n1, n2}
MCInitNodes == {n1}
MCVolumes == {v1, v2, v3}
VolumeSymmetry == Permutations(MCVolumes)
============================================================================

--------------------------- MODULE MCAppVersions ---------------------------
(* Small instances of AppVersions for TLC.  The tags are interchangeable   *)
(* and no run checks liveness, so symmetry is sound.                       *)
EXTENDS AppVersions, TLC

CONSTANTS v1, v2, v3

MCTags == {v1, v2, v3}
MCWeights == {0, 30, 70, 100}
Symmetry == Permutations(MCTags)
=============================================================================

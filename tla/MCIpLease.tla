----------------------------- MODULE MCIpLease -----------------------------
(* Small instances of IpLease for TLC. *)
EXTENDS IpLease, TLC

CONSTANTS n1, n2, n3, d1

MCPool == <<254, 253, 252>>
MCNodes == {n1, n2, n3}
MCOneDeletion == {d1}
NodeSymmetry == Permutations(MCNodes)
============================================================================

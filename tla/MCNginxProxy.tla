---------------------------- MODULE MCNginxProxy ----------------------------
(* Small instances of NginxProxy for TLC. *)
EXTENDS NginxProxy, TLC

CONSTANTS g1, u1, d1, c1

MCAllOps == g1 :> "generate" @@ u1 :> "update" @@ d1 :> "delete" @@ c1 :> "cleanup"
MCTwoOps == g1 :> "generate" @@ u1 :> "update"
MCAllCalls == DOMAIN MCAllOps
MCTwoCalls == DOMAIN MCTwoOps
=============================================================================

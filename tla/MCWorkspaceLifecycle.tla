------------------------ MODULE MCWorkspaceLifecycle ------------------------
(* Small instances of WorkspaceLifecycle for TLC: the workspaces of an     *)
(* organisation meet only in its deletion, so one of them is enough.       *)
EXTENDS WorkspaceLifecycle

CONSTANTS w1, d1, d2

MCWorkspaces == {w1}
MCDeletions == {d1, d2}
=============================================================================

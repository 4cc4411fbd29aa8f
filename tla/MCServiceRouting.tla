-------------------------- MODULE MCServiceRouting --------------------------
(* Two workspaces: a database and a web site in one, a web site in the     *)
(* other.  The full names of its namespace and of its service begin with   *)
(* those of the first namespace and of the web site in it.                 *)
EXTENDS ServiceRouting, TLC

CONSTANTS db1, web1, web2, dev, dev2, ws1, ws2

MCNamespaceOf == (db1 :> dev) @@ (web1 :> dev) @@ (web2 :> dev2)
MCWorkspaceOf == (dev :> ws1) @@ (dev2 :> ws2)
MCPrefixes == {<<dev, dev2>>}
MCNamePrefixes == {<<web1, web2>>}
=============================================================================

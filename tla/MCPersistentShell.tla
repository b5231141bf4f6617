------------------------- MODULE MCPersistentShell -------------------------
(* Bounds for TLC.  Three callers: one in the shell, one spared by the      *)
(* acquire timeout and one it hits.  Two connections: the session and an    *)
(* old one whose events are still to come.  The device accepts the first of *)
(* two passwords, so that a transient error goes on with a wrong one.       *)
EXTENDS PersistentShell

CONSTANTS c1, c2, c3, k1, k2

MCCall == {c1, c2, c3}
MCConn == {k1, k2}
MCStoppable == {c1}
=============================================================================

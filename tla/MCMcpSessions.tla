---------------------------- MODULE MCMcpSessions ----------------------------
(* Small instances of McpSessions for TLC: two sessions of one instance,   *)
(* that is, an instance that reconnects.                                   *)
EXTENDS McpSessions, TLC
CONSTANTS c1, c2, i1
MCInstanceOf == c1 :> i1 @@ c2 :> i1
==============================================================================

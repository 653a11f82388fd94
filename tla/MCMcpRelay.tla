----------------------------- MODULE MCMcpRelay ------------------------------
(* Small instances of McpRelay for TLC: an instance that reconnects, and   *)
(* a forward that finds either of its sessions.                            *)
EXTENDS McpRelay, TLC
CONSTANTS c1, c2, i1
MCInstanceOf == c1 :> i1 @@ c2 :> i1
==============================================================================

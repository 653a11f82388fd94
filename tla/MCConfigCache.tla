--------------------------- MODULE MCConfigCache ----------------------------
(* A small instance of ConfigCache for TLC: two callers that differ in the *)
(* tool only, one that uses another connection and one without a token.    *)
EXTENDS ConfigCache, TLC
CONSTANTS a, b, c, d, tok, inst, conn1, conn2

Context(connection, tool) ==
  [token |-> tok, instance_id |-> inst, server_id |-> None,
   connection_ids |-> {connection}, schema |-> "schema", tool_name |-> tool]

MCContextOf == a :> Context(conn1, "send") @@ b :> Context(conn1, "list")
            @@ c :> Context(conn2, "send") @@ d :> [Context(conn1, "send") EXCEPT !.token = None]

(* The caller without a token shares neither the cache nor a flight with   *)
(* the others: it is let run while they have done nothing.                 *)
MCAlone ==
  pc[d] # "idle" \/ result[d] # None =>
    \A x \in {a, b, c} : pc[x] = "idle" /\ result[x] = None
==============================================================================

--------------------------- MODULE MCAdapterStartup ----------------------------
(* A small instance of AdapterStartup for TLC: two adapters, each of which  *)
(* may register two of the same tools or keys, a gateway, and a path that   *)
(* is free.  RunWithRegistry may be asked for one adapter, for one adapter  *)
(* twice, and for one that nobody has registered.                           *)
EXTENDS AdapterStartup
CONSTANTS a1, a2, unknown, m1, m2, gateway, free

MCMountOf == [a \in Adapters |-> IF a = a1 THEN m1 ELSE m2]

MCNameLists == {<<a1>>, <<a1, a1>>, <<a2, unknown>>}
================================================================================

--------------------------- MODULE MCHarnessRelay ----------------------------
(* A small instance of HarnessRelay for TLC: two workers of one user, one  *)
(* bound to a tenant, that share two runs.  The first worker may reconnect *)
(* (c1, c2) or the second may be there (c3); three sessions at a time are  *)
(* beyond the bound.  Runs are interchangeable.                            *)
EXTENDS HarnessRelay, TLC
CONSTANTS c1, c2, c3, w1, w2, t1, u1, p1

MCWorkerOf == c1 :> w1 @@ c2 :> w1 @@ c3 :> w2

MCTenantOf == [w \in Workers |-> IF w = w1 THEN t1 ELSE None]
MCUserOf   == [w \in Workers |-> u1]

MCQueryProviders == c1 :> {p1} @@ c2 :> {} @@ c3 :> {}

(* Frames that raise, lower and leave out max_concurrent.                  *)
MCCapabilities == {[tier |-> "heavy", providers |-> {p1}, max |-> 0],
                   [tier |-> "lightweight", providers |-> {}, max |-> 1],
                   [tier |-> "heavy", providers |-> {p1}, max |-> 2]}

MCSessionBound == stage[c2] = "new" \/ stage[c3] = "new"

MCSymmetry == Permutations(Runs)
==============================================================================

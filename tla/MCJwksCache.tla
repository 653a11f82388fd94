----------------------------- MODULE MCJwksCache -----------------------------
(* Two handlers, two keys, and a provider that rotates at any time.  Tokens *)
(* are signed with k1; k2 is there so that a set without k1 is usable.  The *)
(* time to live (five minutes in the code) is scaled down against the       *)
(* client's limit (five seconds); only their order matters.  Of the tokens  *)
(* that are refused with their key known, and of those that are refused     *)
(* without one, one kind stands for both.                                   *)
EXTENDS JwksCache
CONSTANTS k1, k2

Call(t) == [to |-> "call", token |-> t]
JWT(d) == [kind |-> "jwt", kid |-> k1, defect |-> d]

MCArrivals ==
  {[to |-> "metadata", token |-> [kind |-> "none"]],
   [to |-> "preflight", token |-> [kind |-> "none"]],
   [to |-> "handshake", token |-> JWT("unscoped")],
   Call([kind |-> "none"]), Call([kind |-> "pat"]), Call(JWT("none"))}
=============================================================================

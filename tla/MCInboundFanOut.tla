---------------------------- MODULE MCInboundFanOut ----------------------------
(* A small instance of InboundFanOut for TLC: a delivery that is tried twice, *)
(* a third attempt without a delivery id, and a route that is edited.         *)
EXTENDS InboundFanOut, TLC
CONSTANTS a1, a2, a3, d1, s1, s2

MCDeliveryOf == a1 :> d1 @@ a2 :> d1 @@ a3 :> Blank

Target(s) == [subscription |-> s, secret |-> TRUE]

Route(list) == [enabled |-> TRUE, bff |-> TRUE, targets |-> list]

MCRoutes ==
  {Route(<<Target(s1), Target(s2)>>), Route(<<Target(s2)>>), Route(<< >>),
   Route(<<Target(s1), [subscription |-> s2, secret |-> FALSE]>>),
   [Route(<<Target(s1)>>) EXCEPT !.enabled = FALSE]}
==============================================================================

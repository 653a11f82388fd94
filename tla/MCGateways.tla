----------------------------- MODULE MCGateways ------------------------------
(* A small instance of Gateways, and with it of ConfigGate, for TLC: two    *)
(* config keys, of which a schema may have one that the environment gives   *)
(* and one that it does not, up to two variables, whose names may clash in  *)
(* case or in the prefix, and three tools, two of which differ in case.     *)
EXTENDS Gateways, TLC
CONSTANTS k1, k2, e1, e2, c1, c2, n1, n2, n3, s1, s2, h1, h2

MCFold == n1 :> 1 @@ n2 :> 1 @@ n3 :> 3
MCDefaultSlug == n1 :> s1 @@ n2 :> s1 @@ n3 :> s2

MCConfigs == {<< >>, k1 :> c1, k1 :> c1 @@ k2 :> c2, k1 :> c1 @@ k2 :> Blank}

MCMapping(t, n, k) == [type |-> t, name |-> n, from |-> k]

MCBridges == [url : BOOLEAN,
              auth : {None, MCMapping("bearer", None, k1), MCMapping("header", h2, k1),
                      MCMapping("other", h1, k1), MCMapping("header", None, k1)},
              headers : {<< >>, <<MCMapping("header", h1, k2)>>,
                         <<MCMapping("header", h2, k1), MCMapping("header", h2, k2)>>,
                         <<MCMapping("header", None, k1)>>}]

MCPublished == {<< >>,
                <<[name |-> n1, slug |-> None], [name |-> n2, slug |-> s2]>>,
                <<[name |-> n1, slug |-> s1], [name |-> n2, slug |-> s2],
                  [name |-> n3, slug |-> None]>>}

MCComposios == [toolkit : BOOLEAN, allowlist : {{}, {s1}, {s2}}, published : MCPublished]

MCPayloads ==
  {p \in [config : MCConfigs, bridge : MCBridges \cup {None}, composio : MCComposios \cup {None}] :
     p.bridge = None \/ p.composio = None}

MCOverlays == {{}, {n1}, {n1, n3}}
MCUpstreamLists == {<<n1, n2>>, <<n3, n1>>}

(* A gateway looks neither at a schema nor at the environment.             *)
MCOneEndpoint ==
  endpoint # "adapter" =>
    schema = << >> /\ environ = << >> /\ settings.configRequired
==============================================================================

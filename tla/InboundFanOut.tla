----------------------------- MODULE InboundFanOut ----------------------------
(***************************************************************************)
(* A vendor's webhook on its way to the subscriptions of a route           *)
(* (adapter_route.go, webhook.go).  A connector that receives it calls     *)
(* LookupInboundAdapterRoute, then DeliverInboundFanOut, which posts to    *)
(* the BFF for one target after another, and answers the vendor by the     *)
(* result.  A vendor that sees no success sends the delivery again, maybe  *)
(* while the first attempt is still under way, and Control's route may be  *)
(* edited meanwhile.                                                       *)
(*                                                                         *)
(* The BFF takes a payload once for an idempotency key (webhook.go:43).    *)
(***************************************************************************)
EXTENDS Naturals, Sequences, Functions

CONSTANTS
  Attempts,       \* requests of vendors
  DeliveryOf,     \* the vendor's delivery id in each, Blank if it sends none
  Subscriptions,
  Routes,         \* what the route may be in Control, one after another
  Blank,
  None

Targets == [subscription : Subscriptions, secret : BOOLEAN]

ASSUME RoutesAssumption ==
  \A r \in Routes :
    /\ DOMAIN r = {"enabled", "bff", "targets"}
    /\ {r.enabled, r.bff} \subseteq BOOLEAN
    /\ r.targets \in Seq(Targets)
    /\ IsInjective([i \in DOMAIN r.targets |-> r.targets[i].subscription])

ASSUME NoneAssumption == None \notin {"nil", "error", "notFound"}

VARIABLES
  route,      \* in Control
  pc,         \* where an attempt is
  targets,    \* creds.DeliverTargets of its lookup
  i,          \* the target it is at
  firstErr,   \* of DeliverInboundFanOut: is it set?
  cancelled,  \* the vendor has gone, and with it the context
  result,     \* what the attempt came to: "nil", "error", "notFound"
  taken,      \* keys of the payloads the BFF has taken, with how often
  onTheWay,   \* may the BFF still take the post under way?
  posts       \* history: the posts of an attempt with their answers

vars == <<route, pc, targets, i, firstErr, cancelled, result, taken, onTheWay, posts>>

Deliveries == {DeliveryOf[a] : a \in Attempts} \ {Blank}

Answers == {"2xx", "4xx", "5xx", "error"}

Posts == [subscription : Subscriptions, answer : Answers]

TypeOK ==
  /\ route \in Routes
  /\ pc \in [Attempts -> {"idle", "deliver", "next", "posting", "returned"}]
  /\ targets \in [Attempts -> Seq(Targets)]
  /\ \A a \in Attempts :
       /\ i[a] \in 0 .. Len(targets[a])
       /\ pc[a] \in {"next", "posting"} =>
            /\ targets[a] # << >>
            /\ \A n \in DOMAIN targets[a] : targets[a][n].secret
       /\ pc[a] = "posting" => i[a] > 0
  /\ {firstErr, cancelled, onTheWay} \subseteq [Attempts -> BOOLEAN]
  /\ result \in [Attempts -> {"nil", "error", "notFound", None}]
  /\ taken \in [Deliveries \X Subscriptions -> Nat]
  /\ posts \in [Attempts -> Seq(Posts)]

Init ==
  /\ route \in Routes
  /\ pc = [a \in Attempts |-> "idle"]
  /\ targets = [a \in Attempts |-> << >>]
  /\ i = [a \in Attempts |-> 0]
  /\ firstErr = [a \in Attempts |-> FALSE]
  /\ cancelled = [a \in Attempts |-> FALSE]
  /\ result = [a \in Attempts |-> None]
  /\ taken = [k \in Deliveries \X Subscriptions |-> 0]
  /\ onTheWay = [a \in Attempts |-> FALSE]
  /\ posts = [a \in Attempts |-> << >>]

-------------------------------------------------------------------------------
(* LookupInboundAdapterRoute: nil, nil unless all of it can be used. *)

(* Fault: only the first target is looked at.                              *)
UsableByFirst(r) == r.enabled /\ r.bff /\ r.targets # << >> /\ r.targets[1].secret

Usable(r) ==
  /\ r.enabled /\ r.bff /\ r.targets # << >>
  /\ \A n \in DOMAIN r.targets : r.targets[n].secret

Return(a, what) == pc' = [pc EXCEPT ![a] = "returned"] /\ result' = [result EXCEPT ![a] = what]

LookupFinds(a) ==
  /\ pc[a] = "idle" /\ Usable(route)
  /\ pc' = [pc EXCEPT ![a] = "deliver"]
  /\ targets' = [targets EXCEPT ![a] = route.targets]
  /\ UNCHANGED <<route, i, firstErr, cancelled, result, taken, onTheWay, posts>>

(* A 403, a 404, or a route that cannot be used.                           *)
LookupFindsNothing(a) ==
  /\ pc[a] = "idle"
  /\ Return(a, "notFound")
  /\ UNCHANGED <<route, targets, i, firstErr, cancelled, taken, onTheWay, posts>>

(* No answer, another status from 400 on, or a body that is no JSON.       *)
LookupFails(a) ==
  /\ pc[a] = "idle"
  /\ Return(a, "error")
  /\ UNCHANGED <<route, targets, i, firstErr, cancelled, taken, onTheWay, posts>>

-------------------------------------------------------------------------------
(* DeliverInboundFanOut *)

BeginFanOut(a) ==
  /\ pc[a] = "deliver"
  /\ IF DeliveryOf[a] = Blank
     THEN Return(a, "error")
     ELSE pc' = [pc EXCEPT ![a] = "next"] /\ UNCHANGED result
  /\ UNCHANGED <<route, targets, i, firstErr, cancelled, taken, onTheWay, posts>>

(* Fault: the key is a new one in each attempt.                            *)
NewToBFFFreshKey(a, s) ==
  \A n \in DOMAIN posts[a] : posts[a][n].subscription # s

(* The key is the delivery's with the subscription's behind it.            *)
NewToBFF(a, s) == taken[<<DeliveryOf[a], s>>] = 0

NextTarget(a) ==
  /\ pc[a] = "next" /\ i[a] < Len(targets[a])
  /\ i' = [i EXCEPT ![a] = @ + 1]
  /\ pc' = [pc EXCEPT ![a] = "posting"]
  /\ onTheWay' = [onTheWay EXCEPT ![a] = ~cancelled[a]]
  /\ UNCHANGED <<route, targets, firstErr, cancelled, result, taken, posts>>

(* The post arrives; the BFF takes the payload unless it has the key.      *)
BFFTakes(a) ==
  LET s == targets[a][i[a]].subscription IN
  /\ pc[a] = "posting" /\ onTheWay[a]
  /\ onTheWay' = [onTheWay EXCEPT ![a] = FALSE]
  /\ taken' = IF NewToBFF(a, s) THEN [taken EXCEPT ![<<DeliveryOf[a], s>>] = @ + 1] ELSE taken
  /\ UNCHANGED <<route, pc, targets, i, firstErr, cancelled, result, posts>>

(* A success says that the BFF had it, a 4xx that it refused it; any other *)
(* outcome says nothing.  A post under a cancelled context fails, and one  *)
(* that begins under it is not sent.                                       *)
MayAnswer(a, answer) ==
  /\ answer = "2xx" => ~onTheWay[a]
  /\ answer = "4xx" => onTheWay[a]
  /\ cancelled[a] => answer = "error"

Answered(a, answer) ==
  /\ pc[a] = "posting" /\ MayAnswer(a, answer)
  /\ posts' = [posts EXCEPT ![a] =
       Append(@, [subscription |-> targets[a][i[a]].subscription, answer |-> answer])]
  /\ UNCHANGED <<route, targets, i, cancelled, taken, onTheWay>>

(* Fault: the result is that of the last target.                           *)
PostEndsLastErr(a, answer) ==
  /\ Answered(a, answer)
  /\ firstErr' = [firstErr EXCEPT ![a] = answer \in {"5xx", "error"}]
  /\ pc' = [pc EXCEPT ![a] = "next"] /\ UNCHANGED result

(* Fault: the first failure ends the fan-out.                              *)
PostEndsReturns(a, answer) ==
  /\ Answered(a, answer)
  /\ IF answer \in {"5xx", "error"}
     THEN Return(a, "error")
     ELSE pc' = [pc EXCEPT ![a] = "next"] /\ UNCHANGED result
  /\ UNCHANGED firstErr

PostEnds(a, answer) ==
  /\ Answered(a, answer)
  /\ firstErr' = [firstErr EXCEPT ![a] = @ \/ answer \in {"5xx", "error"}]
  /\ pc' = [pc EXCEPT ![a] = "next"] /\ UNCHANGED result

EndFanOut(a) ==
  /\ pc[a] = "next" /\ i[a] = Len(targets[a])
  /\ Return(a, IF firstErr[a] THEN "error" ELSE "nil")
  /\ UNCHANGED <<route, targets, i, firstErr, cancelled, taken, onTheWay, posts>>

-------------------------------------------------------------------------------
(* The others: the vendor hangs up, and someone edits the route. *)

HangUp(a) ==
  /\ pc[a] \in {"deliver", "next", "posting"} /\ ~cancelled[a]
  /\ cancelled' = [cancelled EXCEPT ![a] = TRUE]
  /\ UNCHANGED <<route, pc, targets, i, firstErr, result, taken, onTheWay, posts>>

EditRoute ==
  /\ \E r \in Routes \ {route} : route' = r
  /\ UNCHANGED <<pc, targets, i, firstErr, cancelled, result, taken, onTheWay, posts>>

Next ==
  \/ \E a \in Attempts :
       \/ LookupFinds(a) \/ LookupFindsNothing(a) \/ LookupFails(a)
       \/ BeginFanOut(a) \/ NextTarget(a) \/ EndFanOut(a)
       \/ BFFTakes(a) \/ HangUp(a)
       \/ \E answer \in Answers : PostEnds(a, answer)
  \/ EditRoute

Spec == Init /\ [][Next]_vars

-------------------------------------------------------------------------------
(* Properties *)

(* webhook.go:43, "IdempotencyKey deduplicates deliveries for safe         *)
(* retries": however attempts of one delivery overlap, fail half-way or    *)
(* are repeated, no subscription gets its payload twice.                   *)
OncePerSubscription ==
  \A d \in Deliveries, s \in Subscriptions : taken[<<d, s>>] <= 1

(* DeliverInboundFanOut returns nil, and the connector tells the vendor    *)
(* not to try again, only if each subscription of the lookup has the       *)
(* payload, by this attempt or another, or the BFF refused it with a 4xx.  *)
NilMeansTaken ==
  \A a \in Attempts : result[a] = "nil" =>
    \A n \in DOMAIN targets[a] :
      LET s == targets[a][n].subscription IN
      \/ taken[<<DeliveryOf[a], s>>] > 0
      \/ \E m \in DOMAIN posts[a] : posts[a][m] = [subscription |-> s, answer |-> "4xx"]

(* A fan-out that ends has posted once for every target of its lookup, in  *)
(* order, whatever became of the others (adapter_route.go:126-149).        *)
EveryTargetTried ==
  \A a \in Attempts :
    pc[a] = "returned" /\ targets[a] # << >> /\ DeliveryOf[a] # Blank =>
      [n \in DOMAIN posts[a] |-> posts[a][n].subscription] =
      [n \in DOMAIN targets[a] |-> targets[a][n].subscription]

(* What an attempt that returns has done, and what it says of it.          *)
AccountsForAll == EveryTargetTried /\ NilMeansTaken
==============================================================================

-------------------------- MODULE InboundFanOutProofs --------------------------
(***************************************************************************)
(* Proofs about the fan-out of a vendor's webhook, for any number of       *)
(* attempts, deliveries, subscriptions and routes of any length: what an   *)
(* attempt knows of the posts behind it is enough to answer for all of     *)
(* them at its end, whatever the other attempts do to the BFF meanwhile.   *)
(***************************************************************************)
EXTENDS InboundFanOut, SequenceTheorems, TLAPS

(* The BFF has the payload of a delivery for the n-th target.              *)
Has(a, n) == taken[<<DeliveryOf[a], targets[a][n].subscription>>] > 0

(* An attempt has posted once for each target up to the one it is at, in   *)
(* the order of its lookup, and comes to an end behind the last one.       *)
InOrder(a) ==
  /\ pc[a] = "idle" => i[a] = 0 /\ targets[a] = << >>
  /\ pc[a] = "deliver" =>
       /\ i[a] = 0 /\ targets[a] # << >>
       /\ \A n \in DOMAIN targets[a] : targets[a][n].secret
  /\ pc[a] \in {"next", "posting"} => DeliveryOf[a] # Blank
  /\ pc[a] = "returned" => i[a] = IF DeliveryOf[a] = Blank THEN 0 ELSE Len(targets[a])
  /\ Len(posts[a]) = IF pc[a] = "posting" THEN i[a] - 1 ELSE i[a]
  /\ \A n \in 1 .. Len(posts[a]) : posts[a][n].subscription = targets[a][n].subscription

(* As long as no error is noted, everything that was posted has been taken *)
(* or refused; a post that is no longer under way, of a vendor that has    *)
(* not hung up, has been taken.                                            *)
AccountedFor(a) ==
  /\ ~firstErr[a] => \A n \in 1 .. Len(posts[a]) : posts[a][n].answer = "4xx" \/ Has(a, n)
  /\ pc[a] = "posting" /\ ~onTheWay[a] /\ ~cancelled[a] => Has(a, i[a])
  /\ result[a] # None => pc[a] = "returned"
  /\ result[a] = "nil" => ~firstErr[a] /\ DeliveryOf[a] # Blank

PostsInOrder == \A a \in Attempts : InOrder(a)
PostsAccountedFor == \A a \in Attempts : AccountedFor(a)

IInv ==
  /\ TypeOK /\ i \in [Attempts -> Nat]
  /\ PostsInOrder
  /\ PostsAccountedFor

LEMMA NotNil == None # "nil"
BY NoneAssumption, Zenon

LEMMA InitIInv == Init => IInv
<1> SUFFICES ASSUME Init PROVE IInv
  OBVIOUS
<1>1. \A a \in Attempts : targets[a] = << >> /\ posts[a] = << >> /\ i[a] = 0
  BY DEF Init
<1>2. TypeOK /\ i \in [Attempts -> Nat]
  <2>1. << >> \in Seq(Targets) /\ << >> \in Seq(Posts) /\ Len(<< >>) = 0
    BY EmptySeq
  <2>2. targets \in [Attempts -> Seq(Targets)] /\ posts \in [Attempts -> Seq(Posts)]
    BY <2>1 DEF Init
  <2>3. {firstErr, cancelled, onTheWay} \subseteq [Attempts -> BOOLEAN]
    BY DEF Init
  <2>4. pc \in [Attempts -> {"idle", "deliver", "next", "posting", "returned"}]
    BY DEF Init
  <2>5. ASSUME NEW a \in Attempts
        PROVE  pc[a] = "idle" /\ i[a] \in 0 .. Len(targets[a])
    BY <1>1, <2>1 DEF Init
  <2> QED BY <2>2, <2>3, <2>4, <2>5 DEF Init, TypeOK
<1>3. PostsInOrder /\ PostsAccountedFor
  <2>0. Len(<< >>) = 0
    BY EmptySeq
  <2>1. ASSUME NEW a \in Attempts PROVE InOrder(a)
    BY <1>1 DEF Init, InOrder
  <2>2. ASSUME NEW a \in Attempts PROVE AccountedFor(a)
    <3>1. Len(posts[a]) = 0 /\ pc[a] = "idle" /\ result[a] = None
      BY <1>1, <2>0 DEF Init
    <3>2. result[a] # "nil"
      BY <3>1, NotNil
    <3> QED BY <3>1, <3>2 DEF AccountedFor
  <2> QED BY <2>1, <2>2 DEF PostsInOrder, PostsAccountedFor
<1> QED BY <1>2, <1>3 DEF IInv

(* What the types say of one attempt.                                      *)
LEMMA TypeOfAttempt ==
  ASSUME IInv, NEW a \in Attempts
  PROVE  /\ i[a] \in Nat /\ i[a] <= Len(targets[a])
         /\ targets[a] \in Seq(Targets) /\ Len(targets[a]) \in Nat
         /\ posts[a] \in Seq(Posts) /\ Len(posts[a]) \in Nat
         /\ \A n \in 1 .. Len(targets[a]) : targets[a][n].subscription \in Subscriptions
         /\ pc[a] \in {"next", "posting"} => DeliveryOf[a] \in Deliveries
         /\ pc[a] \in {"idle", "deliver", "next", "posting", "returned"}
         /\ pc[a] = "posting" => i[a] > 0
         /\ taken \in [Deliveries \X Subscriptions -> Nat]
<1>1. targets[a] \in Seq(Targets) /\ posts[a] \in Seq(Posts) /\ i[a] \in 0 .. Len(targets[a])
  BY DEF IInv, TypeOK
<1>2. \A n \in 1 .. Len(targets[a]) : targets[a][n] \in Targets
  BY <1>1, ElementOfSeq
<1>3. pc[a] \in {"next", "posting"} => DeliveryOf[a] \in Deliveries
  BY DEF IInv, PostsInOrder, InOrder, Deliveries
<1>4. Len(targets[a]) \in Nat /\ Len(posts[a]) \in Nat
  BY <1>1, LenProperties
<1>5. \A n \in 1 .. Len(targets[a]) : targets[a][n].subscription \in Subscriptions
  BY <1>2 DEF Targets
<1>6. /\ pc[a] \in {"idle", "deliver", "next", "posting", "returned"}
      /\ pc[a] = "posting" => i[a] > 0
  BY DEF IInv, TypeOK
<1>7. taken \in [Deliveries \X Subscriptions -> Nat]
  BY DEF IInv, TypeOK
<1> QED BY <1>1, <1>3, <1>4, <1>5, <1>6, <1>7

LEMMA StateIsFunctions ==
  ASSUME IInv
  PROVE  /\ pc \in [Attempts -> {"idle", "deliver", "next", "posting", "returned"}]
         /\ targets \in [Attempts -> Seq(Targets)] /\ posts \in [Attempts -> Seq(Posts)]
         /\ i \in [Attempts -> Nat]
         /\ firstErr \in [Attempts -> BOOLEAN] /\ cancelled \in [Attempts -> BOOLEAN]
         /\ onTheWay \in [Attempts -> BOOLEAN]
         /\ result \in [Attempts -> {"nil", "error", "notFound", None}]
BY DEF IInv, TypeOK

(* The BFF forgets no payload.                                             *)
TakenStays == \A k \in Deliveries \X Subscriptions : taken'[k] >= taken[k]

Untouched(b) ==
  /\ pc'[b] = pc[b] /\ targets'[b] = targets[b] /\ i'[b] = i[b] /\ posts'[b] = posts[b]
  /\ firstErr'[b] = firstErr[b] /\ result'[b] = result[b]
  /\ onTheWay'[b] = onTheWay[b] /\ cancelled'[b] = cancelled[b]

(* What has been taken stays so for every attempt.                         *)
LEMMA HasStays ==
  ASSUME IInv, TakenStays, NEW a \in Attempts, targets'[a] = targets[a],
         \A k \in Deliveries \X Subscriptions : taken'[k] \in Nat,
         DeliveryOf[a] # Blank, NEW n \in 1 .. Len(targets[a]), Has(a, n)
  PROVE  Has(a, n)'
<1>1. <<DeliveryOf[a], targets[a][n].subscription>> \in Deliveries \X Subscriptions
  BY TypeOfAttempt DEF Deliveries
<1>2. \A k \in Deliveries \X Subscriptions : taken[k] \in Nat
  BY DEF IInv, TypeOK
<1>3. taken'[<<DeliveryOf[a], targets[a][n].subscription>>] >=
        taken[<<DeliveryOf[a], targets[a][n].subscription>>]
  BY <1>1 DEF TakenStays
<1>4. taken'[<<DeliveryOf[a], targets[a][n].subscription>>] \in Nat
  BY <1>1
<1> QED BY <1>1, <1>2, <1>3, <1>4 DEF Has

(* So does what an attempt knows of the posts behind it and under way.     *)
LEMMA PostsStay ==
  ASSUME IInv, TakenStays, NEW b \in Attempts, targets'[b] = targets[b],
         \A k \in Deliveries \X Subscriptions : taken'[k] \in Nat
  PROVE  /\ \A n \in 1 .. Len(posts[b]) : n \in 1 .. Len(targets[b]) /\ DeliveryOf[b] # Blank
         /\ \A n \in 1 .. Len(posts[b]) : Has(b, n) => Has(b, n)'
         /\ pc[b] = "posting" /\ i'[b] = i[b] => (Has(b, i[b]) => Has(b, i[b])')
<1>1. InOrder(b)
  BY DEF IInv, PostsInOrder
<1>2. DeliveryOf[b] # Blank => \A n \in 1 .. Len(targets[b]) : Has(b, n) => Has(b, n)'
  BY HasStays
<1>3. Len(posts[b]) > 0 => DeliveryOf[b] # Blank
  BY <1>1, TypeOfAttempt DEF InOrder
<1>4. \A n \in 1 .. Len(posts[b]) : n \in 1 .. Len(targets[b]) /\ DeliveryOf[b] # Blank
  BY <1>1, <1>3, TypeOfAttempt DEF InOrder
<1>5. pc[b] = "posting" => i[b] \in 1 .. Len(targets[b]) /\ DeliveryOf[b] # Blank
  BY <1>1, TypeOfAttempt DEF InOrder
<1>6. \A n \in 1 .. Len(posts[b]) : Has(b, n) => Has(b, n)'
  BY <1>2, <1>4
<1> QED BY <1>2, <1>4, <1>5, <1>6

LEMMA OthersKeep ==
  ASSUME IInv, TakenStays, NEW b \in Attempts, Untouched(b),
         \A k \in Deliveries \X Subscriptions : taken'[k] \in Nat
  PROVE  InOrder(b)' /\ AccountedFor(b)'
<1>1. InOrder(b) /\ AccountedFor(b)
  BY DEF IInv, PostsInOrder, PostsAccountedFor
<1>2. InOrder(b)'
  BY <1>1 DEF InOrder, Untouched
<1>3. AccountedFor(b)'
  BY <1>1, PostsStay DEF AccountedFor, Untouched
<1> QED BY <1>2, <1>3

(* A lookup that finds a route takes its targets.                          *)
LEMMA TargetsOfRoute ==
  ASSUME IInv
  PROVE  route.targets \in Seq(Targets)
BY RoutesAssumption DEF IInv, TypeOK

LEMMA PostIsTyped ==
  ASSUME IInv, NEW a \in Attempts, pc[a] = "posting", NEW answer \in Answers
  PROVE  LET p == [subscription |-> targets[a][i[a]].subscription, answer |-> answer]
         IN  /\ p \in Posts
             /\ Append(posts[a], p) \in Seq(Posts)
             /\ Len(Append(posts[a], p)) = i[a]
             /\ \A n \in 1 .. Len(posts[a]) : Append(posts[a], p)[n] = posts[a][n]
             /\ Append(posts[a], p)[i[a]] = p
<1> DEFINE p == [subscription |-> targets[a][i[a]].subscription, answer |-> answer]
<1>1. i[a] \in 1 .. Len(targets[a]) /\ posts[a] \in Seq(Posts)
  BY TypeOfAttempt
<1>2. p \in Posts
  BY <1>1, TypeOfAttempt DEF Posts
<1>3. Len(posts[a]) = i[a] - 1
  BY DEF IInv, PostsInOrder, InOrder
<1> HIDE DEF p
<1>4. Len(Append(posts[a], p)) = Len(posts[a]) + 1 /\ Append(posts[a], p) \in Seq(Posts)
  BY <1>1, <1>2, AppendProperties
<1>5. \A n \in 1 .. Len(posts[a]) : Append(posts[a], p)[n] = posts[a][n]
  BY <1>1, <1>2, AppendProperties
<1>6. Append(posts[a], p)[Len(posts[a]) + 1] = p
  BY <1>1, <1>2, AppendProperties
<1> QED BY <1>1, <1>2, <1>3, <1>4, <1>5, <1>6, TypeOfAttempt DEF p

(* The types of the next state.                                            *)
TypesNext == TypeOK' /\ i' \in [Attempts -> Nat]

LEMMA TypeOKStep ==
  ASSUME IInv, [Next]_vars
  PROVE  TypesNext
<1> USE DEF IInv, TypeOK, TypesNext
<1>1. ASSUME NEW a \in Attempts, LookupFinds(a) PROVE TypesNext
  <2>1. targets' \in [Attempts -> Seq(Targets)]
    BY <1>1, TargetsOfRoute DEF LookupFinds
  <2>2. i[a] = 0 /\ Len(route.targets) \in Nat
    BY <1>1, TargetsOfRoute, LenProperties DEF LookupFinds, PostsInOrder, InOrder
  <2>3. targets'[a] = route.targets /\ pc'[a] = "deliver" /\ i'[a] = 0
    BY <1>1, <2>2 DEF LookupFinds
  <2>4. ASSUME NEW b \in Attempts
        PROVE  /\ i'[b] \in 0 .. Len(targets'[b])
               /\ pc'[b] \in {"next", "posting"} =>
                    /\ targets'[b] # << >>
                    /\ \A n \in DOMAIN targets'[b] : targets'[b][n].secret
               /\ pc'[b] = "posting" => i'[b] > 0
    <3>1. CASE b = a
      <4> HIDE DEF IInv, TypeOK
      <4> QED BY <3>1, <2>2, <2>3
    <3>2. CASE b # a
      <4>1. targets'[b] = targets[b] /\ pc'[b] = pc[b] /\ i'[b] = i[b]
        BY <1>1, <3>2 DEF LookupFinds
      <4> QED BY <4>1
    <3> QED BY <3>1, <3>2
  <2> QED BY <1>1, <2>1, <2>4 DEF LookupFinds
<1>2. ASSUME NEW a \in Attempts, LookupFindsNothing(a) PROVE TypesNext
  BY <1>2 DEF LookupFindsNothing, Return
<1>3. ASSUME NEW a \in Attempts, LookupFails(a) PROVE TypesNext
  BY <1>3 DEF LookupFails, Return
<1>4. ASSUME NEW a \in Attempts, BeginFanOut(a) PROVE TypesNext
  BY <1>4 DEF BeginFanOut, Return, PostsInOrder, InOrder
<1>5. ASSUME NEW a \in Attempts, NextTarget(a) PROVE TypesNext
  <2>1. i[a] + 1 \in 0 .. Len(targets[a]) /\ i[a] + 1 \in Nat \ {0}
    <3> HIDE DEF IInv, TypeOK
    <3>1. i[a] < Len(targets[a])
      BY <1>5 DEF NextTarget
    <3> QED BY <3>1, TypeOfAttempt
  <2>2. i' = [i EXCEPT ![a] = i[a] + 1] /\ pc' = [pc EXCEPT ![a] = "posting"] /\ pc[a] = "next"
    BY <1>5 DEF NextTarget
  <2>3. i' \in [Attempts -> Nat]
    BY <2>1, <2>2
  <2>4. ASSUME NEW b \in Attempts
        PROVE  /\ i'[b] \in 0 .. Len(targets[b])
               /\ pc'[b] \in {"next", "posting"} => pc[b] \in {"next", "posting"}
               /\ pc'[b] = "posting" => i'[b] > 0
    <3>1. i[b] \in 0 .. Len(targets[b]) /\ (pc[b] = "posting" => i[b] > 0)
      OBVIOUS
    <3>2. i'[b] = (IF b = a THEN i[a] + 1 ELSE i[b]) /\ pc'[b] = IF b = a THEN "posting" ELSE pc[b]
      BY <2>2
    <3> HIDE DEF IInv, TypeOK
    <3> QED BY <2>1, <2>2, <3>1, <3>2
  <2>5. targets' = targets
    BY <1>5 DEF NextTarget
  <2> QED BY <1>5, <2>3, <2>4, <2>5 DEF NextTarget
<1>6. ASSUME NEW a \in Attempts, EndFanOut(a) PROVE TypesNext
  BY <1>6 DEF EndFanOut, Return
<1>7. ASSUME NEW a \in Attempts, BFFTakes(a) PROVE TypesNext
  <2>1. <<DeliveryOf[a], targets[a][i[a]].subscription>> \in Deliveries \X Subscriptions
    <3> HIDE DEF IInv, TypeOK
    <3>1. pc[a] = "posting" /\ i[a] \in 1 .. Len(targets[a])
      BY <1>7, TypeOfAttempt DEF BFFTakes
    <3> QED BY <3>1, TypeOfAttempt
  <2>2. taken' \in [Deliveries \X Subscriptions -> Nat]
    <3> DEFINE k == <<DeliveryOf[a], targets[a][i[a]].subscription>>
    <3>1. taken' \in {taken, [taken EXCEPT ![k] = @ + 1]}
      BY <1>7 DEF BFFTakes
    <3>2. k \in Deliveries \X Subscriptions /\ taken \in [Deliveries \X Subscriptions -> Nat]
      BY <2>1
    <3> HIDE DEF k, IInv, TypeOK
    <3> QED BY <3>1, <3>2
  <2> QED BY <1>7, <2>2 DEF BFFTakes
<1>8. ASSUME NEW a \in Attempts, HangUp(a) PROVE TypesNext
  BY <1>8 DEF HangUp
<1>9. ASSUME NEW a \in Attempts, NEW answer \in Answers, PostEnds(a, answer) PROVE TypesNext
  <2>1. posts' \in [Attempts -> Seq(Posts)]
    BY <1>9, PostIsTyped DEF PostEnds, Answered
  <2> QED BY <1>9, <2>1 DEF PostEnds, Answered
<1>10. CASE EditRoute
  BY <1>10 DEF EditRoute
<1>11. CASE UNCHANGED vars
  BY <1>11 DEF vars
<1> QED BY <1>1, <1>2, <1>3, <1>4, <1>5, <1>6, <1>7, <1>8, <1>9, <1>10, <1>11 DEF Next

(* Each action keeps the posts of its own attempt in order and accounts    *)
(* for them, and leaves every other attempt where it is.                   *)
LEMMA AttemptsStep ==
  ASSUME IInv, TypesNext, [Next]_vars
  PROVE  PostsInOrder' /\ PostsAccountedFor'
<1>0. /\ PostsInOrder /\ PostsAccountedFor
      /\ \A b \in Attempts : InOrder(b) /\ AccountedFor(b)
      /\ taken \in [Deliveries \X Subscriptions -> Nat]
      /\ \A k \in Deliveries \X Subscriptions : taken'[k] \in Nat
  BY DEF IInv, TypeOK, TypesNext, PostsInOrder, PostsAccountedFor
<1>T. taken' = taken => TakenStays
  BY <1>0 DEF TakenStays
<1>I. ASSUME NEW a \in Attempts, pc[a] = "idle"
      PROVE  i[a] = 0 /\ Len(posts[a]) = 0 /\ targets[a] = << >> /\ result[a] = None
  BY <1>0, <1>I DEF InOrder, AccountedFor
<1> DEFINE Kept(a) ==
      /\ InOrder(a)' /\ AccountedFor(a)'
      /\ TakenStays
      /\ \A b \in Attempts \ {a} : Untouched(b)
<1>K. ASSUME NEW a \in Attempts, Kept(a) PROVE PostsInOrder' /\ PostsAccountedFor'
  BY <1>0, <1>K, OthersKeep DEF PostsInOrder, PostsAccountedFor
<1>1. ASSUME NEW a \in Attempts, LookupFinds(a) PROVE Kept(a)
  <2>1. TakenStays
    BY <1>1, <1>T DEF LookupFinds
  <2>2. \A b \in Attempts \ {a} : Untouched(b)
    BY <1>1, StateIsFunctions DEF LookupFinds, Untouched
  <2>3. /\ pc'[a] = "deliver" /\ targets'[a] = route.targets /\ i'[a] = 0
        /\ posts'[a] = posts[a] /\ Len(posts[a]) = 0 /\ result'[a] = None
    BY <1>1, <1>I, StateIsFunctions DEF LookupFinds
  <2>4. InOrder(a)'
    BY <1>1, <2>3 DEF LookupFinds, Usable, InOrder
  <2>5. AccountedFor(a)'
    BY <2>3, NotNil DEF AccountedFor
  <2> QED BY <2>1, <2>2, <2>4, <2>5
<1>2. ASSUME NEW a \in Attempts, LookupFindsNothing(a) PROVE Kept(a)
  <2>1. TakenStays
    <3>1. taken' = taken
      BY <1>2 DEF LookupFindsNothing
    <3> QED BY <3>1, <1>T
  <2>2. \A b \in Attempts \ {a} : Untouched(b)
    BY <1>2, StateIsFunctions DEF LookupFindsNothing, Return, Untouched
  <2>3. /\ pc'[a] = "returned" /\ targets'[a] = << >> /\ i'[a] = 0
        /\ posts'[a] = posts[a] /\ Len(posts[a]) = 0 /\ result'[a] = "notFound"
    BY <1>2, <1>I, StateIsFunctions DEF LookupFindsNothing, Return
  <2>4. InOrder(a)'
    BY <2>3, EmptySeq DEF InOrder
  <2>5. AccountedFor(a)'
    BY <2>3 DEF AccountedFor
  <2> QED BY <2>1, <2>2, <2>4, <2>5
<1>3. ASSUME NEW a \in Attempts, LookupFails(a) PROVE Kept(a)
  <2>1. TakenStays
    <3>1. taken' = taken
      BY <1>3 DEF LookupFails
    <3> QED BY <3>1, <1>T
  <2>2. \A b \in Attempts \ {a} : Untouched(b)
    BY <1>3, StateIsFunctions DEF LookupFails, Return, Untouched
  <2>3. /\ pc'[a] = "returned" /\ targets'[a] = << >> /\ i'[a] = 0
        /\ posts'[a] = posts[a] /\ Len(posts[a]) = 0 /\ result'[a] = "error"
    BY <1>3, <1>I, StateIsFunctions DEF LookupFails, Return
  <2>4. InOrder(a)'
    BY <2>3, EmptySeq DEF InOrder
  <2>5. AccountedFor(a)'
    BY <2>3 DEF AccountedFor
  <2> QED BY <2>1, <2>2, <2>4, <2>5
<1>4. ASSUME NEW a \in Attempts, BeginFanOut(a) PROVE Kept(a)
  <2>1. TakenStays
    BY <1>4, <1>0 DEF BeginFanOut, Return, TakenStays
  <2>2. \A b \in Attempts \ {a} : Untouched(b)
    BY <1>4, StateIsFunctions DEF BeginFanOut, Return, Untouched
  <2>3. InOrder(a)'
    BY <1>4, <1>0, <2>1, StateIsFunctions, TypeOfAttempt, PostsStay
       DEF BeginFanOut, Return, InOrder
  <2>4. AccountedFor(a)'
    BY <1>4, <1>0, <2>1, StateIsFunctions, TypeOfAttempt, PostsStay
       DEF BeginFanOut, Return, AccountedFor, InOrder
  <2> QED BY <2>1, <2>2, <2>3, <2>4
<1>5. ASSUME NEW a \in Attempts, NextTarget(a) PROVE Kept(a)
  <2>1. TakenStays
    BY <1>5, <1>0 DEF NextTarget, TakenStays
  <2>2. \A b \in Attempts \ {a} : Untouched(b)
    BY <1>5, StateIsFunctions DEF NextTarget, Untouched
  <2>3. InOrder(a)'
    <3>1. /\ i'[a] = i[a] + 1 /\ pc'[a] = "posting" /\ pc[a] = "next"
          /\ posts'[a] = posts[a] /\ targets'[a] = targets[a]
      BY <1>5, StateIsFunctions DEF NextTarget
    <3> QED BY <3>1, <1>0, TypeOfAttempt DEF InOrder
  <2>4. AccountedFor(a)'
    BY <1>5, <1>0, <2>1, StateIsFunctions, TypeOfAttempt, PostsStay
       DEF NextTarget, AccountedFor, InOrder
  <2> QED BY <2>1, <2>2, <2>3, <2>4
<1>6. ASSUME NEW a \in Attempts, EndFanOut(a) PROVE Kept(a)
  <2>1. TakenStays
    BY <1>6, <1>0 DEF EndFanOut, Return, TakenStays
  <2>2. \A b \in Attempts \ {a} : Untouched(b)
    BY <1>6, StateIsFunctions DEF EndFanOut, Return, Untouched
  <2>3. InOrder(a)'
    BY <1>6, <1>0, <2>1, StateIsFunctions, TypeOfAttempt, PostsStay
       DEF EndFanOut, Return, InOrder
  <2>4. AccountedFor(a)'
    BY <1>6, <1>0, <2>1, StateIsFunctions, TypeOfAttempt, PostsStay
       DEF EndFanOut, Return, AccountedFor, InOrder
  <2> QED BY <2>1, <2>2, <2>3, <2>4
<1>7. ASSUME NEW a \in Attempts, BFFTakes(a) PROVE Kept(a)
  <2> DEFINE k == <<DeliveryOf[a], targets[a][i[a]].subscription>>
  <2>1. k \in Deliveries \X Subscriptions /\ taken[k] \in Nat
    <3>1. pc[a] = "posting" /\ i[a] \in 1 .. Len(targets[a])
      BY <1>7, TypeOfAttempt DEF BFFTakes
    <3>2. k \in Deliveries \X Subscriptions
      BY <3>1, TypeOfAttempt
    <3> QED BY <3>2, <1>0
  <2>2. taken' = IF taken[k] = 0 THEN [taken EXCEPT ![k] = @ + 1] ELSE taken
    BY <1>7 DEF BFFTakes, NewToBFF
  <2> HIDE DEF k
  <2>3. TakenStays /\ taken'[k] > 0
    BY <1>0, <2>1, <2>2 DEF TakenStays
  <2>4. \A b \in Attempts \ {a} : Untouched(b)
    BY <1>7, StateIsFunctions DEF BFFTakes, Untouched
  <2>5. InOrder(a)'
    BY <1>7, <1>0, StateIsFunctions DEF BFFTakes, InOrder
  <2>6. Has(a, i[a])'
    BY <1>7, <2>3 DEF BFFTakes, Has, k
  <2>7. AccountedFor(a)'
    <3>1. targets'[a] = targets[a]
      BY <1>7 DEF BFFTakes
    <3>2. \A n \in 1 .. Len(posts[a]) : Has(a, n) => Has(a, n)'
      BY <3>1, <2>3, <1>0, PostsStay
    <3> QED BY <1>7, <1>0, <2>6, <3>2 DEF BFFTakes, AccountedFor
  <2> QED BY <2>3, <2>4, <2>5, <2>7
<1>8. ASSUME NEW a \in Attempts, HangUp(a) PROVE Kept(a)
  <2>1. TakenStays
    BY <1>8, <1>0 DEF HangUp, TakenStays
  <2>2. \A b \in Attempts \ {a} : Untouched(b)
    BY <1>8, StateIsFunctions DEF HangUp, Untouched
  <2>3. InOrder(a)'
    BY <1>8, <1>0, <2>1, StateIsFunctions, TypeOfAttempt, PostsStay DEF HangUp, InOrder
  <2>4. AccountedFor(a)'
    BY <1>8, <1>0, <2>1, StateIsFunctions, TypeOfAttempt, PostsStay
       DEF HangUp, AccountedFor, InOrder
  <2> QED BY <2>1, <2>2, <2>3, <2>4
<1>9. ASSUME NEW a \in Attempts, NEW answer \in Answers, PostEnds(a, answer) PROVE Kept(a)
  <2> DEFINE p == [subscription |-> targets[a][i[a]].subscription, answer |-> answer]
  <2>1. TakenStays
    BY <1>9, <1>T DEF PostEnds, Answered
  <2>2. \A b \in Attempts \ {a} : Untouched(b)
    BY <1>9, StateIsFunctions DEF PostEnds, Answered, Untouched
  <2>3. /\ pc[a] = "posting" /\ pc'[a] = "next" /\ targets'[a] = targets[a] /\ i'[a] = i[a]
        /\ posts'[a] = Append(posts[a], p) /\ result'[a] = result[a]
        /\ firstErr'[a] = (firstErr[a] \/ answer \in {"5xx", "error"})
    BY <1>9, StateIsFunctions DEF PostEnds, Answered
  <2>4. /\ Len(posts'[a]) = i[a] /\ Len(posts[a]) = i[a] - 1
        /\ \A n \in 1 .. Len(posts[a]) : posts'[a][n] = posts[a][n]
        /\ posts'[a][i[a]] = p
    BY <2>3, <1>0, PostIsTyped DEF InOrder
  <2>5. p.subscription = targets[a][i[a]].subscription /\ p.answer = answer
    OBVIOUS
  <2> HIDE DEF p
  <2>6. \A n \in 1 .. Len(posts'[a]) : n = i[a] \/ n \in 1 .. Len(posts[a])
    BY <2>4, TypeOfAttempt
  <2>7. InOrder(a)'
    BY <2>3, <2>4, <2>5, <2>6, <1>0 DEF InOrder
  <2>8. answer \in {"5xx", "error"} \/ answer = "4xx" \/ Has(a, i[a])'
    BY <1>9, <1>0, <2>1, <2>3, PostsStay
       DEF PostEnds, Answered, MayAnswer, AccountedFor, Answers
  <2>9. AccountedFor(a)'
    <3>1. \A n \in 1 .. Len(posts[a]) : Has(a, n) => Has(a, n)'
      BY <2>1, <2>3, <1>0, PostsStay
    <3>2. AccountedFor(a)
      BY <1>0
    <3>3. ASSUME ~firstErr'[a], NEW n \in 1 .. Len(posts'[a])
          PROVE  posts'[a][n].answer = "4xx" \/ Has(a, n)'
      <4>1. CASE n = i[a]
        BY <2>3, <2>4, <2>5, <2>8, <3>3, <4>1
      <4>2. CASE n \in 1 .. Len(posts[a])
        BY <2>3, <2>4, <3>1, <3>2, <3>3, <4>2 DEF AccountedFor
      <4> QED BY <2>6, <4>1, <4>2
    <3> QED BY <2>3, <3>2, <3>3, NotNil DEF AccountedFor
  <2> QED BY <2>1, <2>2, <2>7, <2>9
<1>10. CASE EditRoute \/ UNCHANGED vars
  BY <1>10, <1>0, OthersKeep
     DEF EditRoute, vars, TakenStays, Untouched, PostsInOrder, PostsAccountedFor
<1> HIDE DEF Kept
<1> QED BY <1>K, <1>1, <1>2, <1>3, <1>4, <1>5, <1>6, <1>7, <1>8, <1>9, <1>10 DEF Next

(* Every state is well-typed, and every attempt in order and accounted for.*)
THEOREM FanOutInvariant == Spec => []IInv
<1>1. IInv /\ [Next]_vars => IInv'
  <2> SUFFICES ASSUME IInv, [Next]_vars PROVE IInv'
    OBVIOUS
  <2>1. TypesNext
    BY TypeOKStep
  <2> QED BY <2>1, AttemptsStep DEF IInv, TypesNext
<1> QED BY <1>1, InitIInv, PTL DEF Spec

(* An attempt is always at a target of its lookup, which all have a secret.*)
THEOREM FanOutTypes == Spec => []TypeOK
<1>1. IInv => TypeOK
  BY DEF IInv
<1> QED BY <1>1, FanOutInvariant, PTL

(* However attempts of one delivery overlap, fail half-way or are          *)
(* repeated, the BFF takes no payload of it twice for a subscription       *)
(* (webhook.go:43).                                                        *)
THEOREM DeliveredOnce == Spec => []OncePerSubscription
<1>1. Init => OncePerSubscription
  BY DEF Init, OncePerSubscription
<1>2. TypeOK /\ OncePerSubscription /\ [Next]_vars => OncePerSubscription'
  <2> SUFFICES ASSUME TypeOK, OncePerSubscription, [Next]_vars
               PROVE  OncePerSubscription'
    OBVIOUS
  <2>1. taken \in [Deliveries \X Subscriptions -> Nat]
    BY DEF TypeOK
  <2>2. ASSUME NEW a \in Attempts, BFFTakes(a) PROVE OncePerSubscription'
    <3> DEFINE k == <<DeliveryOf[a], targets[a][i[a]].subscription>>
    <3>1. taken' = IF taken[k] = 0 THEN [taken EXCEPT ![k] = @ + 1] ELSE taken
      BY <2>2 DEF BFFTakes, NewToBFF
    <3> HIDE DEF k
    <3>2. \A l \in Deliveries \X Subscriptions : taken[l] <= 1 => taken'[l] <= 1
      BY <2>1, <3>1
    <3> QED BY <3>2 DEF OncePerSubscription
  <2>3. (\A a \in Attempts : ~BFFTakes(a)) => taken' = taken
    BY DEF Next, LookupFinds, LookupFindsNothing, LookupFails, BeginFanOut, NextTarget,
           EndFanOut, HangUp, PostEnds, Answered, EditRoute, vars
  <2> QED BY <2>2, <2>3 DEF OncePerSubscription
<1> QED BY <1>1, <1>2, FanOutTypes, PTL DEF Spec

(* An attempt that returns has posted once for each target of its lookup,  *)
(* in their order, and tells the vendor not to try again only when every   *)
(* subscription has the payload, or the BFF refused it with a 4xx          *)
(* (adapter_route.go:126-149).                                             *)
THEOREM ReturnsAccountForAll == Spec => []AccountsForAll
<1>1. IInv => EveryTargetTried
  <2> SUFFICES ASSUME IInv, NEW a \in Attempts,
                      pc[a] = "returned", DeliveryOf[a] # Blank
               PROVE  [n \in DOMAIN posts[a] |-> posts[a][n].subscription] =
                      [n \in DOMAIN targets[a] |-> targets[a][n].subscription]
    BY DEF EveryTargetTried
  <2>1. InOrder(a) /\ Len(posts[a]) = Len(targets[a])
    BY DEF IInv, PostsInOrder, InOrder
  <2>2. DOMAIN posts[a] = 1 .. Len(posts[a]) /\ DOMAIN targets[a] = 1 .. Len(targets[a])
    BY TypeOfAttempt, LenProperties
  <2> QED BY <2>1, <2>2 DEF InOrder
<1>2. IInv => NilMeansTaken
  <2> SUFFICES ASSUME IInv, NEW a \in Attempts, result[a] = "nil",
                      NEW n \in DOMAIN targets[a]
               PROVE  LET s == targets[a][n].subscription IN
                      \/ taken[<<DeliveryOf[a], s>>] > 0
                      \/ \E m \in DOMAIN posts[a] :
                           posts[a][m] = [subscription |-> s, answer |-> "4xx"]
    BY DEF NilMeansTaken
  <2>1. InOrder(a) /\ AccountedFor(a) /\ pc[a] = "returned" /\ ~firstErr[a]
    BY NotNil DEF IInv, PostsInOrder, PostsAccountedFor, AccountedFor
  <2>2. DOMAIN posts[a] = 1 .. Len(posts[a]) /\ DOMAIN targets[a] = 1 .. Len(targets[a])
    BY TypeOfAttempt, LenProperties
  <2>3. n \in 1 .. Len(posts[a]) /\ posts[a][n].subscription = targets[a][n].subscription
    BY <2>1, <2>2 DEF InOrder, AccountedFor
  <2>4. posts[a][n].answer = "4xx" \/ Has(a, n)
    BY <2>1, <2>3 DEF AccountedFor
  <2>5. posts[a][n] \in Posts
    BY <2>3, TypeOfAttempt, ElementOfSeq
  <2>6. posts[a][n] = [subscription |-> posts[a][n].subscription, answer |-> posts[a][n].answer]
    BY <2>5 DEF Posts
  <2> QED BY <2>2, <2>3, <2>4, <2>6 DEF Has
<1> QED BY <1>1, <1>2, FanOutInvariant, PTL DEF AccountsForAll
================================================================================

--------------------------- MODULE ConfigCacheProofs ---------------------------
(***************************************************************************)
(* Proofs about the config cache, for any number of callers, contexts and  *)
(* keys, any lifetime, budget and timeout, and any waits that Control's    *)
(* 429 answers ask for.  First what the cache and the flights hold, then   *)
(* the time that calls spend.                                              *)
(***************************************************************************)
EXTENDS ConfigCache, WellFoundedInduction, TLAPS

USE TimeAssumption, NoneAssumption
USE DEF callVars, retryVars, MaxAge, Configs

Entries == [config : Configs, left : 0..TTL]

CacheTypeOK ==
  /\ pc \in [Callers -> {"idle", "missed", "joined", "leading", "fetching", "sleeping",
                         "leaving"}]
  /\ result \in [Callers -> Configs \cup {Error, None}]
  /\ cache \in [Keys -> Entries \cup {None}]
  /\ flight \in [Keys -> Callers \cup {None}]
  /\ fetching \in [Callers -> 0..Timeout]

(* Whoever leads a flight is the one the flight knows, and finds the cache *)
(* as it was when it looked.                                               *)
LeadersLed ==
  \A c \in Callers :
    /\ ~Uncached(c) /\ pc[c] \in {"leading", "fetching", "sleeping", "leaving"} =>
         flight[Key(c)] = c
    /\ ~Uncached(c) /\ pc[c] \in {"fetching", "sleeping"} => ~Fresh(Key(c))

(* What is cached under a key was made for the key, and is no older than   *)
(* what has gone by of its lifetime and one fetch.                         *)
CacheIsOwn ==
  \A k \in Keys : cache[k] # None =>
    /\ Key(cache[k].config.caller) = k
    /\ cache[k].left > 0 => cache[k].config.age + cache[k].left <= TTL + Timeout

(* The same for what calls return.                                         *)
ResultIsOwn ==
  \A c \in Callers : result[c] \in Configs =>
    /\ Key(result[c].caller) = Key(c)
    /\ result[c].age <= TTL + Timeout

CacheInv == CacheTypeOK /\ LeadersLed /\ CacheIsOwn /\ ResultIsOwn

LEMMA InitInv == Init => CacheInv
BY DEF Init, CacheInv, CacheTypeOK, LeadersLed, CacheIsOwn, ResultIsOwn

LEMMA KeyIsKey == ASSUME NEW c \in Callers PROVE Key(c) \in Keys
BY DEF Keys

(* Two callers with one key have the same of everything in it.             *)
LEMMA KeyTellsApart ==
  ASSUME NEW c \in Callers, NEW d \in Callers, Key(c) = Key(d)
  PROVE  LET x == ContextOf[c]
             y == ContextOf[d]
         IN /\ x.token = y.token /\ x.schema = y.schema
            /\ x.connection_ids = y.connection_ids
            /\ x.instance_id = y.instance_id
            /\ x.instance_id = None => x.server_id = y.server_id
BY DEF Key, InstanceKey
(* Every action keeps the invariant, part by part.                         *)
LEMMA CacheStep ==
  ASSUME CacheTypeOK, LeadersLed, CacheIsOwn, ResultIsOwn, [Next]_vars
  PROVE  CacheInv'
<1>1. ASSUME NEW c \in Callers, LookUp(c) PROVE CacheInv'
  <2>1. CacheTypeOK'
    <3>1. CASE result' = [result EXCEPT ![c] = None]
      BY <1>1, <3>1 DEF CacheTypeOK, LookUp, StartFetching, Goto
    <3>2. CASE Fresh(Key(c)) /\ result' = [result EXCEPT ![c] = cache[Key(c)].config]
      <4>1. cache[Key(c)].config \in Configs
        BY <3>2, KeyIsKey DEF CacheTypeOK, Entries, Fresh
      <4> QED BY <1>1, <3>2, <4>1 DEF CacheTypeOK, LookUp, StartFetching, Goto
    <3> QED BY <1>1, <3>1, <3>2 DEF LookUp
  <2>2. LeadersLed'
    BY <1>1, KeyIsKey
       DEF LeadersLed, CacheTypeOK, Fresh, LookUp, StartFetching, Goto
  <2>3. CacheIsOwn'
    BY <1>1, KeyIsKey
       DEF CacheIsOwn, CacheTypeOK, Entries, LookUp, StartFetching, Goto
  <2>4. ResultIsOwn'
    BY <1>1, KeyIsKey
       DEF ResultIsOwn, CacheTypeOK, CacheIsOwn, Entries, Fresh, LookUp, StartFetching, Goto
  <2> QED BY <2>1, <2>2, <2>3, <2>4 DEF CacheInv
<1>2. ASSUME NEW c \in Callers, EnterFlight(c) PROVE CacheInv'
  <2>1. CacheTypeOK'
    BY <1>2, KeyIsKey
       DEF CacheTypeOK, Entries, EnterFlight, Goto
  <2>2. LeadersLed'
    BY <1>2, KeyIsKey
       DEF LeadersLed, CacheTypeOK, Fresh, EnterFlight, Goto
  <2>3. CacheIsOwn'
    BY <1>2, KeyIsKey
       DEF CacheIsOwn, CacheTypeOK, Entries, EnterFlight, Goto
  <2>4. ResultIsOwn'
    BY <1>2, KeyIsKey
       DEF ResultIsOwn, CacheTypeOK, CacheIsOwn, Entries, Fresh, EnterFlight, Goto
  <2> QED BY <2>1, <2>2, <2>3, <2>4 DEF CacheInv
<1>3. ASSUME NEW c \in Callers, CheckAgain(c) PROVE CacheInv'
  <2>1. CacheTypeOK'
    <3>1. CASE ~Fresh(Key(c))
      BY <1>3, <3>1 DEF CacheTypeOK, CheckAgain, StartFetching, Goto
    <3>2. CASE Fresh(Key(c))
      <4>1. cache[Key(c)].config \in Configs
        BY <3>2, KeyIsKey DEF CacheTypeOK, Entries, Fresh
      <4> QED BY <1>3, <3>2, <4>1 DEF CacheTypeOK, CheckAgain, StartFetching, Goto
    <3> QED BY <3>1, <3>2
  <2>2. LeadersLed'
    BY <1>3, KeyIsKey
       DEF LeadersLed, CacheTypeOK, Fresh, CheckAgain, StartFetching, Goto
  <2>3. CacheIsOwn'
    BY <1>3, KeyIsKey
       DEF CacheIsOwn, CacheTypeOK, Entries, CheckAgain, StartFetching, Goto
  <2>4. ResultIsOwn'
    BY <1>3, KeyIsKey
       DEF ResultIsOwn, CacheTypeOK, CacheIsOwn, Entries, Fresh, CheckAgain, StartFetching, Goto
  <2> QED BY <2>1, <2>2, <2>3, <2>4 DEF CacheInv
<1>4. ASSUME NEW c \in Callers, FetchSucceeds(c) PROVE CacheInv'
  <2>1. CacheTypeOK'
    BY <1>4, KeyIsKey
       DEF CacheTypeOK, Entries, FetchSucceeds, Leave, Goto
  <2>2. LeadersLed'
    BY <1>4, KeyIsKey
       DEF LeadersLed, CacheTypeOK, Fresh, FetchSucceeds, Leave, Goto
  <2>3. CacheIsOwn'
    BY <1>4, KeyIsKey
       DEF CacheIsOwn, CacheTypeOK, Entries, FetchSucceeds, Leave, Goto
  <2>4. ResultIsOwn'
    BY <1>4, KeyIsKey
       DEF ResultIsOwn, CacheTypeOK, CacheIsOwn, Entries, Fresh, FetchSucceeds, Leave, Goto
  <2> QED BY <2>1, <2>2, <2>3, <2>4 DEF CacheInv
<1>5. ASSUME NEW c \in Callers, FetchFails(c) PROVE CacheInv'
  <2>1. CacheTypeOK'
    BY <1>5, KeyIsKey
       DEF CacheTypeOK, Entries, FetchFails, Leave, Goto
  <2>2. LeadersLed'
    BY <1>5, KeyIsKey
       DEF LeadersLed, CacheTypeOK, Fresh, FetchFails, Leave, Goto
  <2>3. CacheIsOwn'
    BY <1>5, KeyIsKey
       DEF CacheIsOwn, CacheTypeOK, Entries, FetchFails, Leave, Goto
  <2>4. ResultIsOwn'
    BY <1>5, KeyIsKey
       DEF ResultIsOwn, CacheTypeOK, CacheIsOwn, Entries, Fresh, FetchFails, Leave, Goto
  <2> QED BY <2>1, <2>2, <2>3, <2>4 DEF CacheInv
<1>6. ASSUME NEW c \in Callers, NEW s, BudgetExhausted(c, s) PROVE CacheInv'
  <2>1. CacheTypeOK'
    BY <1>6, KeyIsKey
       DEF CacheTypeOK, Entries, BudgetExhausted, Leave, Goto
  <2>2. LeadersLed'
    BY <1>6, KeyIsKey
       DEF LeadersLed, CacheTypeOK, Fresh, BudgetExhausted, Leave, Goto
  <2>3. CacheIsOwn'
    BY <1>6, KeyIsKey
       DEF CacheIsOwn, CacheTypeOK, Entries, BudgetExhausted, Leave, Goto
  <2>4. ResultIsOwn'
    BY <1>6, KeyIsKey
       DEF ResultIsOwn, CacheTypeOK, CacheIsOwn, Entries, Fresh, BudgetExhausted, Leave, Goto
  <2> QED BY <2>1, <2>2, <2>3, <2>4 DEF CacheInv
<1>7. ASSUME NEW c \in Callers, NEW s, Sleep(c, s) PROVE CacheInv'
  <2>1. CacheTypeOK'
    BY <1>7, KeyIsKey
       DEF CacheTypeOK, Entries, Sleep, Goto
  <2>2. LeadersLed'
    BY <1>7, KeyIsKey
       DEF LeadersLed, CacheTypeOK, Fresh, Sleep, Goto
  <2>3. CacheIsOwn'
    BY <1>7, KeyIsKey
       DEF CacheIsOwn, CacheTypeOK, Entries, Sleep, Goto
  <2>4. ResultIsOwn'
    BY <1>7, KeyIsKey
       DEF ResultIsOwn, CacheTypeOK, CacheIsOwn, Entries, Fresh, Sleep, Goto
  <2> QED BY <2>1, <2>2, <2>3, <2>4 DEF CacheInv
<1>8. ASSUME NEW c \in Callers, Retry(c) PROVE CacheInv'
  <2>1. CacheTypeOK'
    BY <1>8, KeyIsKey
       DEF CacheTypeOK, Entries, Retry, Goto
  <2>2. LeadersLed'
    BY <1>8, KeyIsKey
       DEF LeadersLed, CacheTypeOK, Fresh, Retry, Goto
  <2>3. CacheIsOwn'
    BY <1>8, KeyIsKey
       DEF CacheIsOwn, CacheTypeOK, Entries, Retry, Goto
  <2>4. ResultIsOwn'
    BY <1>8, KeyIsKey
       DEF ResultIsOwn, CacheTypeOK, CacheIsOwn, Entries, Fresh, Retry, Goto
  <2> QED BY <2>1, <2>2, <2>3, <2>4 DEF CacheInv
<1>9. ASSUME NEW c \in Callers, EndFlight(c) PROVE CacheInv'
  <2>1. CacheTypeOK'
    BY <1>9, KeyIsKey
       DEF CacheTypeOK, Entries, EndFlight
  <2>2. LeadersLed'
    <3>1. ASSUME NEW d \in Callers, ~Uncached(d),
                 pc'[d] \in {"leading", "fetching", "sleeping", "leaving"}
          PROVE  flight'[Key(d)] = d /\ pc'[d] = pc[d]
      <4>1. d # c /\ pc'[d] = pc[d]
        BY <1>9, <3>1 DEF EndFlight
      <4>2. flight[Key(d)] = d
        BY <3>1, <4>1 DEF LeadersLed
      <4>3. Key(d) # Key(c)
        <5>1. CASE Uncached(c)
          BY <3>1, <5>1, KeyTellsApart DEF Uncached
        <5>2. CASE ~Uncached(c)
          BY <1>9, <4>1, <4>2, <5>2 DEF EndFlight, LeadersLed
        <5> QED BY <5>1, <5>2
      <4> QED BY <1>9, <4>1, <4>2, <4>3, KeyIsKey DEF EndFlight, CacheTypeOK
    <3> QED BY <1>9, <3>1 DEF LeadersLed, Fresh, EndFlight
  <2>3. CacheIsOwn'
    BY <1>9, KeyIsKey
       DEF CacheIsOwn, CacheTypeOK, Entries, EndFlight
  <2>4. ResultIsOwn'
    BY <1>9, KeyIsKey
       DEF ResultIsOwn, CacheTypeOK, CacheIsOwn, Entries, Fresh, EndFlight
  <2> QED BY <2>1, <2>2, <2>3, <2>4 DEF CacheInv
<1>10. ASSUME Tick PROVE CacheInv'
  <2>1. CacheTypeOK'
    BY <1>10, KeyIsKey
       DEF CacheTypeOK, Entries, Tick, Older, Less, Capped
  <2>2. LeadersLed'
    BY <1>10, KeyIsKey
       DEF LeadersLed, CacheTypeOK, Fresh, Tick, Older, Less, Capped
  <2>3. CacheIsOwn'
    BY <1>10, KeyIsKey
       DEF CacheIsOwn, CacheTypeOK, Entries, Tick, Older, Less, Capped
  <2>4. ResultIsOwn'
    BY <1>10, KeyIsKey
       DEF ResultIsOwn, CacheTypeOK, CacheIsOwn, Entries, Fresh, Tick, Older, Less, Capped
  <2> QED BY <2>1, <2>2, <2>3, <2>4 DEF CacheInv
<1>11. ASSUME UNCHANGED vars PROVE CacheInv'
  BY <1>11 DEF vars, CacheInv, CacheTypeOK, LeadersLed, CacheIsOwn, ResultIsOwn, Fresh
<1> QED BY <1>1, <1>2, <1>3, <1>4, <1>5, <1>6, <1>7, <1>8, <1>9, <1>10, <1>11 DEF Next, Call

LEMMA CacheInvariance == Spec => []CacheInv
<1>1. CacheInv /\ [Next]_vars => CacheInv'
  BY CacheStep DEF CacheInv
<1> QED BY <1>1, InitInv, PTL DEF Spec

(* One caller at a time asks Control for a key, and only while nothing     *)
(* fresh is cached under it: for any number of callers that missed.        *)
THEOREM NothingFetchedTwice == Spec => []NoRedundantFetch
<1>1. CacheInv => NoRedundantFetch
  BY DEF CacheInv, LeadersLed, NoRedundantFetch
<1> QED BY <1>1, CacheInvariance, PTL

(* A call returns a config made for what its context says, through the     *)
(* cache and the flights, whatever the contexts are.                       *)
THEOREM ConfigsAreOwn == Spec => []OwnConfig
<1>1. CacheInv => OwnConfig
  <2> SUFFICES ASSUME CacheInv, NEW c \in Callers, result[c] \in Configs
               PROVE  LET x == ContextOf[c]
                          y == ContextOf[result[c].caller]
                      IN /\ x.token = y.token /\ x.schema = y.schema
                         /\ x.connection_ids = y.connection_ids
                         /\ x.instance_id = y.instance_id
                         /\ x.instance_id = None => x.server_id = y.server_id
    BY DEF OwnConfig
  <2>1. result[c].caller \in Callers /\ Key(c) = Key(result[c].caller)
    BY DEF CacheInv, ResultIsOwn
  <2> QED BY <2>1, KeyTellsApart
<1> QED BY <1>1, CacheInvariance, PTL

(* Nothing older than the lifetime and a fetch is returned, for every      *)
(* lifetime, timeout and sequence of fetches, retries and flights.         *)
THEOREM StalenessIsBounded == Spec => []BoundedStaleness
<1>1. CacheInv => BoundedStaleness
  BY DEF CacheInv, ResultIsOwn, BoundedStaleness
<1> QED BY <1>1, CacheInvariance, PTL

(***************************************************************************)
(* The time that calls spend.                                              *)
(***************************************************************************)

(* An attempt costs at least one unit of the budget, its sleep, and what   *)
(* the budget has lost has been waited for; once it is lost, only the      *)
(* present fetch is still to be waited for.                                *)
Spending ==
  \A c \in Callers :
    /\ pc[c] \notin {"fetching", "sleeping"} =>
         attempt[c] = 0 /\ budget[c] = 0 /\ fetching[c] = 0
    /\ pc[c] # "sleeping" => sleep[c] = 0
    /\ pc[c] = "fetching" => attempt[c] + budget[c] <= RetryBudget
    /\ pc[c] = "sleeping" =>
         /\ fetching[c] = 0 /\ sleep[c] <= budget[c]
         /\ attempt[c] + 1 + budget[c] <= RetryBudget + sleep[c]
    /\ pc[c] \in {"idle", "missed", "leading"} => waited[c] = 0
    /\ pc[c] \in {"fetching", "sleeping"} =>
         /\ waited[c] <= RetryBudget + fetching[c]
         /\ budget[c] > 0 => waited[c] + budget[c] <= RetryBudget
    /\ pc[c] # "joined" => waited[c] <= RetryBudget + Timeout

(* A flight has its leader, until it ends; who joined it has not waited    *)
(* longer than the leader.                                                 *)
Flights ==
  /\ \A k \in Keys : flight[k] # None =>
       /\ Key(flight[k]) = k /\ ~Uncached(flight[k])
       /\ pc[flight[k]] \in {"leading", "fetching", "sleeping", "leaving"}
  /\ \A c \in Callers : pc[c] = "joined" =>
       flight[Key(c)] # None /\ waited[c] <= waited[flight[Key(c)]]
  /\ \A c \in Callers : Uncached(c) => pc[c] \in {"idle", "fetching", "sleeping"}


-----------------------------------------------------------------------------
(* A nonempty set of numbers has a least element, so that a set of numbers *)
(* with 0 and every successor has all of them.                             *)
LEMMA LeastNatural ==
  ASSUME NEW T \in SUBSET Nat, T # {}
  PROVE  \E x \in T : \A y \in T : x <= y
<1>1. PICK x \in T : \A y \in T : ~(<<y, x>> \in OpToRel(<, Nat))
  BY NatLessThanWellFounded, WFMin
<1>2. \A y \in T : y < x => <<y, x>> \in OpToRel(<, Nat)
  BY DEF OpToRel
<1>3. \A y \in T : ~(y < x)
  BY <1>1, <1>2
<1>4. \A y \in T : x <= y
  BY <1>3
<1> QED BY <1>4

LEMMA AllNaturals ==
  ASSUME NEW S, 0 \in S, \A n \in Nat : n \in S => n + 1 \in S
  PROVE  Nat \subseteq S
<1> DEFINE T == Nat \ S
<1> SUFFICES ASSUME T # {} PROVE FALSE
  OBVIOUS
<1>1. PICK x \in T : \A y \in T : x <= y
  BY LeastNatural
<1>2. x # 0 /\ x - 1 \in Nat
  OBVIOUS
<1>3. x - 1 \in S
  BY <1>1, <1>2
<1> QED BY <1>2, <1>3

(* The tables of 1 << k for k up to n.                                     *)
Tables(n) == {f \in [0..n -> Nat \ {0}] : f[0] = 1 /\ \A k \in 1..n : f[k] = 2 * f[k - 1]}

LEMMA TablesExist == \A n \in Nat : Tables(n) # {}
<1> DEFINE S == {n \in Nat : Tables(n) # {}}
<1>1. 0 \in S
  <2>1. [k \in 0..0 |-> 1] \in Tables(0)
    BY DEF Tables
  <2> QED BY <2>1
<1>2. ASSUME NEW n \in Nat, n \in S PROVE n + 1 \in S
  <2>1. PICK f \in Tables(n) : TRUE
    BY <1>2
  <2> DEFINE g == [k \in 0..n + 1 |-> IF k = n + 1 THEN 2 * f[n] ELSE f[k]]
  <2>2. f \in [0..n -> Nat \ {0}] /\ f[0] = 1 /\ \A k \in 1..n : f[k] = 2 * f[k - 1]
    BY <2>1 DEF Tables
  <2>3. g \in [0..n + 1 -> Nat \ {0}]
    BY <2>2
  <2>4. g[0] = 1
    BY <2>2
  <2>5. ASSUME NEW k \in 1..n + 1 PROVE g[k] = 2 * g[k - 1]
    BY <2>2
  <2>6. g \in Tables(n + 1)
    BY <2>3, <2>4, <2>5 DEF Tables
  <2> QED BY <2>6
<1> HIDE DEF S
<1>3. Nat \subseteq S
  BY <1>1, <1>2, AllNaturals
<1> QED BY <1>3 DEF S

LEMMA TablesAgree ==
  \A k \in Nat : \A n, m \in Nat : \A f \in Tables(n), g \in Tables(m) :
    k <= n /\ k <= m => f[k] = g[k]
<1> DEFINE S == {k \in Nat : \A n, m \in Nat : \A f \in Tables(n), g \in Tables(m) :
                                k <= n /\ k <= m => f[k] = g[k]}
<1>1. 0 \in S
  BY DEF Tables
<1>2. ASSUME NEW k \in Nat, k \in S PROVE k + 1 \in S
  <2> SUFFICES ASSUME NEW n \in Nat, NEW m \in Nat,
                      NEW f \in Tables(n), NEW g \in Tables(m), k + 1 <= n, k + 1 <= m
               PROVE  f[k + 1] = g[k + 1]
    OBVIOUS
  <2>1. f[k] = g[k]
    BY <1>2
  <2>2. k + 1 \in 1..n /\ k + 1 \in 1..m /\ (k + 1) - 1 = k
    OBVIOUS
  <2>3. f[k + 1] = 2 * f[k] /\ g[k + 1] = 2 * g[k]
    BY <2>2 DEF Tables
  <2> QED BY <2>1, <2>3
<1> HIDE DEF S
<1>3. Nat \subseteq S
  BY <1>1, <1>2, AllNaturals
<1> QED BY <1>3 DEF S

(* The recursive function exists, so that it is what it is defined by.     *)
LEMMA ShiftedIsDefined ==
  Shifted = [n \in Nat |-> IF n = 0 THEN 1 ELSE 2 * Shifted[n - 1]]
<1> DEFINE T(n) == CHOOSE f \in Tables(n) : TRUE
           F == [n \in Nat |-> T(n)[n]]
<1>1. \A n \in Nat : T(n) \in Tables(n)
  BY TablesExist
<1> HIDE DEF T
<1>2. F[0] = 1
  BY <1>1 DEF Tables
<1>3. ASSUME NEW n \in Nat, n # 0 PROVE F[n] = 2 * F[n - 1]
  <2>1. n - 1 \in Nat /\ n \in 1..n
    BY <1>3
  <2>2. T(n)[n] = 2 * T(n)[n - 1]
    BY <1>1, <2>1 DEF Tables
  <2>3. T(n)[n - 1] = T(n - 1)[n - 1]
    BY <1>1, <2>1, TablesAgree
  <2> QED BY <2>1, <2>2, <2>3
<1>4. F = [n \in Nat |-> IF n = 0 THEN 1 ELSE 2 * F[n - 1]]
  <2>1. \A n \in Nat : F[n] = IF n = 0 THEN 1 ELSE 2 * F[n - 1]
    BY <1>2, <1>3
  <2> QED BY <2>1
<1> HIDE DEF F
<1>5. \E f : f = [n \in Nat |-> IF n = 0 THEN 1 ELSE 2 * f[n - 1]]
  BY <1>4
<1> QED BY <1>5, Zenon DEF Shifted

LEMMA ShiftedIsPositive == \A n \in Nat : Shifted[n] \in Nat \ {0}
<1> DEFINE S == {n \in Nat : Shifted[n] \in Nat \ {0}}
<1>0. \A n \in Nat : Shifted[n] = IF n = 0 THEN 1 ELSE 2 * Shifted[n - 1]
  BY ShiftedIsDefined, Zenon
<1>1. 0 \in S
  BY <1>0
<1>2. ASSUME NEW n \in Nat, n \in S PROVE n + 1 \in S
  BY <1>0, <1>2
<1> HIDE DEF S
<1>3. Nat \subseteq S
  BY <1>1, <1>2, AllNaturals
<1> QED BY <1>3 DEF S

(* A wait is at least one unit, so that no budget is spent on retries that *)
(* cost nothing, and at most the largest wait.                             *)
LEMMA WaitsCount ==
  ASSUME NEW retryAfter \in RetryAfters, NEW n \in Nat
  PROVE  RateLimitWait(retryAfter, n) \in 1..MaxWait
<1>1. DefaultWait * Shifted[n] \in Nat \ {0}
  <2>1. \A a, b \in Nat \ {0} : a * b \in Nat \ {0}
    OBVIOUS
  <2>2. DefaultWait \in Nat \ {0} /\ Shifted[n] \in Nat \ {0}
    BY ShiftedIsPositive
  <2> QED BY <2>1, <2>2
<1>2. retryAfter \in Nat /\ MaxWait \in Nat \ {0}
  OBVIOUS
<1>3. ASSUME NEW w \in Nat \ {0} PROVE Capped(w, MaxWait) \in 1..MaxWait
  BY <1>2 DEF Capped
<1>4. (IF retryAfter > 0 THEN retryAfter ELSE DefaultWait * Shifted[n]) \in Nat \ {0}
  BY <1>1, <1>2
<1> QED BY <1>3, <1>4 DEF RateLimitWait

TimeTypeOK ==
  /\ attempt \in [Callers -> 0..RetryBudget]
  /\ budget \in [Callers -> 0..RetryBudget]
  /\ sleep \in [Callers -> 0..MaxWait]
  /\ waited \in [Callers -> 0..MaxCall]

TimeInv == TimeTypeOK /\ Spending /\ Flights

(* A key says whether its calls go through the cache at all.               *)
LEMMA UncachedByKey ==
  ASSUME NEW c \in Callers, NEW d \in Callers, Key(c) = Key(d)
  PROVE  Uncached(c) <=> Uncached(d)
BY KeyTellsApart DEF Uncached

LEMMA InitTime == Init => TimeInv
BY DEF Init, TimeInv, TimeTypeOK, Spending, Flights, MaxCall

(* A retry loop that ends leaves its flight to those who joined it.        *)
LEMMA LeaveFlights ==
  ASSUME CacheTypeOK, TimeTypeOK, Flights, LeadersLed,
         NEW c \in Callers, NEW res, pc[c] = "fetching", Leave(c, res)
  PROVE  Flights'
<1>1. pc' = [pc EXCEPT ![c] = IF Uncached(c) THEN "idle" ELSE "leaving"] /\ flight' = flight
  BY DEF Leave, Goto
<1>2. \A d \in Callers : d # c => pc'[d] = pc[d]
  BY <1>1 DEF CacheTypeOK
<1>3. pc'[c] = IF Uncached(c) THEN "idle" ELSE "leaving"
  BY <1>1 DEF CacheTypeOK
<1>4. \A d \in Callers : d # c \/ ~Uncached(c) => waited'[d] = waited[d]
  BY DEF Leave, TimeTypeOK
<1>5. ASSUME NEW k \in Keys, flight[k] # None
      PROVE  flight[k] \in Callers /\ Key(flight[k]) = k /\ ~Uncached(flight[k])
  <2>1. flight[k] \in Callers /\ Key(flight[k]) = k
    BY <1>5 DEF Flights, CacheTypeOK
  <2>2. ~Uncached(flight[k])
    BY <1>5 DEF Flights
  <2> QED BY <2>1, <2>2
<1>6. ASSUME NEW k \in Keys, flight[k] # None
      PROVE  pc'[flight[k]] \in {"leading", "fetching", "sleeping", "leaving"}
  BY <1>2, <1>3, <1>5, <1>6 DEF Flights
<1>7. ASSUME NEW d \in Callers, pc'[d] = "joined"
      PROVE  flight[Key(d)] # None /\ waited'[d] <= waited'[flight[Key(d)]]
  <2>1. d # c /\ pc[d] = "joined"
    BY <1>2, <1>3, <1>7
  <2>2. flight[Key(d)] # None /\ waited[d] <= waited[flight[Key(d)]]
    BY <2>1 DEF Flights
  <2>3. flight[Key(d)] \in Callers /\ ~Uncached(flight[Key(d)])
    BY <2>2, <1>5, KeyIsKey
  <2> QED BY <2>1, <2>2, <2>3, <1>4
<1>8. \A d \in Callers : Uncached(d) => pc'[d] \in {"idle", "fetching", "sleeping"}
  BY <1>2, <1>3 DEF Flights
<1> QED BY <1>1, <1>5, <1>6, <1>7, <1>8 DEF Flights, Uncached

(* Every action keeps what is said of time, with the facts above about the *)
(* cache and its leaders.                                                  *)
LEMMA TimeStep ==
  ASSUME CacheInv, TimeTypeOK, Spending, Flights, [Next]_vars
  PROVE  TimeInv'
<1> USE DEF MaxCall
<1>0. CacheTypeOK /\ LeadersLed
  BY DEF CacheInv
<1>1. ASSUME NEW c \in Callers, LookUp(c) PROVE TimeInv'
  <2>1. TimeTypeOK'
    BY <1>0, <1>1 DEF TimeTypeOK, Spending, CacheTypeOK, LookUp, Goto, StartFetching
  <2>2. Spending'
    BY <1>0, <1>1 DEF Spending, Flights, TimeTypeOK, CacheTypeOK, LookUp, Goto, StartFetching
  <2>3. Flights'
    BY <1>0, <1>1, KeyIsKey, UncachedByKey
       DEF Flights, Spending, LeadersLed, TimeTypeOK, CacheTypeOK, LookUp, Goto, StartFetching
  <2> QED BY <2>1, <2>2, <2>3 DEF TimeInv
<1>2. ASSUME NEW c \in Callers, EnterFlight(c) PROVE TimeInv'
  <2>1. TimeTypeOK'
    BY <1>0, <1>2 DEF TimeTypeOK, Spending, CacheTypeOK, EnterFlight, Goto
  <2>2. Spending'
    BY <1>0, <1>2 DEF Spending, Flights, TimeTypeOK, CacheTypeOK, EnterFlight, Goto
  <2>3. Flights'
    BY <1>0, <1>2, KeyIsKey, UncachedByKey
       DEF Flights, Spending, LeadersLed, TimeTypeOK, CacheTypeOK, EnterFlight, Goto
  <2> QED BY <2>1, <2>2, <2>3 DEF TimeInv
<1>3. ASSUME NEW c \in Callers, CheckAgain(c) PROVE TimeInv'
  <2>1. TimeTypeOK'
    BY <1>0, <1>3 DEF TimeTypeOK, Spending, CacheTypeOK, CheckAgain, Goto, StartFetching
  <2>2. Spending'
    BY <1>0, <1>3
       DEF Spending, Flights, TimeTypeOK, CacheTypeOK, CheckAgain, Goto, StartFetching
  <2>3. Flights'
    BY <1>0, <1>3, KeyIsKey, UncachedByKey
       DEF Flights, Spending, LeadersLed, TimeTypeOK, CacheTypeOK, CheckAgain, Goto,
           StartFetching
  <2> QED BY <2>1, <2>2, <2>3 DEF TimeInv
<1>4. ASSUME NEW c \in Callers, FetchSucceeds(c) PROVE TimeInv'
  <2>1. TimeTypeOK'
    BY <1>0, <1>4 DEF TimeTypeOK, Spending, CacheTypeOK, FetchSucceeds, Goto, Leave
  <2>2. Spending'
    BY <1>0, <1>4 DEF Spending, Flights, TimeTypeOK, CacheTypeOK, FetchSucceeds, Goto, Leave
  <2>3. Flights'
    BY <1>0, <1>4, LeaveFlights DEF FetchSucceeds
  <2> QED BY <2>1, <2>2, <2>3 DEF TimeInv
<1>5. ASSUME NEW c \in Callers, FetchFails(c) PROVE TimeInv'
  <2>1. TimeTypeOK'
    BY <1>0, <1>5 DEF TimeTypeOK, Spending, CacheTypeOK, FetchFails, Goto, Leave
  <2>2. Spending'
    BY <1>0, <1>5 DEF Spending, Flights, TimeTypeOK, CacheTypeOK, FetchFails, Goto, Leave
  <2>3. Flights'
    BY <1>0, <1>5, LeaveFlights DEF FetchFails
  <2> QED BY <2>1, <2>2, <2>3 DEF TimeInv
<1>6. ASSUME NEW c \in Callers, NEW s \in RetryAfters, BudgetExhausted(c, s) PROVE TimeInv'
  <2>1. TimeTypeOK'
    BY <1>0, <1>6 DEF TimeTypeOK, Spending, CacheTypeOK, BudgetExhausted, Goto, Leave
  <2>2. Spending'
    BY <1>0, <1>6 DEF Spending, Flights, TimeTypeOK, CacheTypeOK, BudgetExhausted, Goto, Leave
  <2>3. Flights'
    BY <1>0, <1>6, LeaveFlights DEF BudgetExhausted
  <2> QED BY <2>1, <2>2, <2>3 DEF TimeInv
<1>7. ASSUME NEW c \in Callers, NEW s \in RetryAfters, Sleep(c, s) PROVE TimeInv'
  <2> DEFINE wait == RateLimitWait(s, attempt[c])
  <2>0. wait \in 1..MaxWait
    BY WaitsCount DEF TimeTypeOK
  <2>4. /\ pc[c] = "fetching" /\ wait <= budget[c]
        /\ pc' = [pc EXCEPT ![c] = "sleeping"]
        /\ sleep' = [sleep EXCEPT ![c] = wait]
        /\ fetching' = [fetching EXCEPT ![c] = 0]
        /\ UNCHANGED <<waited, flight, attempt, budget>>
    BY <1>7 DEF Sleep, Goto
  <2> HIDE DEF wait
  <2>1. TimeTypeOK'
    BY <2>0, <2>4 DEF TimeTypeOK
  <2>2. Spending'
    BY <1>0, <2>0, <2>4 DEF Spending, TimeTypeOK, CacheTypeOK
  <2>3. Flights'
    BY <1>0, <2>4, KeyIsKey DEF Flights, TimeTypeOK, CacheTypeOK, Uncached
  <2> QED BY <2>1, <2>2, <2>3 DEF TimeInv
<1>8. ASSUME NEW c \in Callers, Retry(c) PROVE TimeInv'
  <2>1. TimeTypeOK'
    BY <1>0, <1>8 DEF TimeTypeOK, Spending, CacheTypeOK, Retry, Goto
  <2>2. Spending'
    BY <1>0, <1>8 DEF Spending, Flights, TimeTypeOK, CacheTypeOK, Retry, Goto
  <2>3. Flights'
    BY <1>0, <1>8, KeyIsKey, UncachedByKey
       DEF Flights, Spending, LeadersLed, TimeTypeOK, CacheTypeOK, Retry, Goto
  <2> QED BY <2>1, <2>2, <2>3 DEF TimeInv
<1>9. ASSUME NEW c \in Callers, EndFlight(c) PROVE TimeInv'
  <2>1. TimeTypeOK'
    BY <1>0, <1>9 DEF TimeTypeOK, Spending, CacheTypeOK, EndFlight, Goto
  <2>2. Spending'
    BY <1>0, <1>9 DEF Spending, Flights, TimeTypeOK, CacheTypeOK, EndFlight, Goto
  <2>3. Flights'
    BY <1>0, <1>9, KeyIsKey, UncachedByKey
       DEF Flights, Spending, LeadersLed, TimeTypeOK, CacheTypeOK, EndFlight, Goto
  <2> QED BY <2>1, <2>2, <2>3 DEF TimeInv
<1>10. ASSUME Tick PROVE TimeInv'
  <2>1. TimeTypeOK'
    BY <1>0, <1>10 DEF TimeTypeOK, Spending, CacheTypeOK, Tick, Goto, Less, Capped
  <2>2. Spending'
    BY <1>0, <1>10 DEF Spending, Flights, TimeTypeOK, CacheTypeOK, Tick, Goto, Less, Capped
  <2>3. Flights'
    BY <1>0, <1>10, KeyIsKey, UncachedByKey
       DEF Flights, Spending, LeadersLed, TimeTypeOK, CacheTypeOK, Tick, Goto, Less, Capped
  <2> QED BY <2>1, <2>2, <2>3 DEF TimeInv
<1>11. ASSUME UNCHANGED vars PROVE TimeInv'
  BY <1>11 DEF vars, TimeInv, TimeTypeOK, Spending, Flights
<1> QED BY <1>1, <1>2, <1>3, <1>4, <1>5, <1>6, <1>7, <1>8, <1>9, <1>10, <1>11 DEF Next, Call

LEMMA TimeInvariance == Spec => [](CacheInv /\ TimeInv)
<1>1. CacheInv /\ TimeInv /\ [Next]_vars => CacheInv' /\ TimeInv'
  BY CacheStep, TimeStep DEF CacheInv, TimeInv
<1>2. Init => CacheInv /\ TimeInv
  BY InitInv, InitTime
<1> QED BY <1>1, <1>2, PTL DEF Spec

(* The state is of its types, the counters of the retries included: no     *)
(* attempt is counted that the budget has not paid for, and no sleep is    *)
(* longer than the largest wait.                                           *)
THEOREM ConfigTypes == Spec => []TypeOK
<1>1. CacheInv /\ TimeInv => TypeOK
  BY DEF CacheInv, TimeInv, CacheTypeOK, TimeTypeOK, Entries, TypeOK
<1> QED BY <1>1, TimeInvariance, PTL

(* fetchControlConfigCached returns within the retry budget and one fetch, *)
(* whatever Control's 429 answers ask for, to the one who leads a flight   *)
(* and to those who join it, at any time and in any number.                *)
THEOREM CallsWithinBudget == Spec => []WithinBudget
<1>1. CacheInv /\ TimeInv => WithinBudget
  <2> SUFFICES ASSUME CacheInv, TimeInv, NEW c \in Callers
               PROVE  waited[c] <= RetryBudget + Timeout
    BY DEF WithinBudget
  <2>1. CASE pc[c] # "joined"
    BY <2>1 DEF TimeInv, Spending
  <2>2. CASE pc[c] = "joined"
    <3> DEFINE d == flight[Key(c)]
    <3>1. d # None /\ waited[c] <= waited[d]
      BY <2>2 DEF TimeInv, Flights
    <3>2. d \in Callers /\ pc[d] # "joined"
      BY <3>1, KeyIsKey DEF TimeInv, Flights, CacheInv, CacheTypeOK
    <3>3. waited[d] <= RetryBudget + Timeout
      BY <3>2 DEF TimeInv, Spending
    <3>4. waited[c] \in Nat /\ waited[d] \in Nat
      BY <3>2 DEF TimeInv, TimeTypeOK, MaxCall
    <3> HIDE DEF d
    <3> QED BY <3>1, <3>3, <3>4
  <2> QED BY <2>1, <2>2
<1> QED BY <1>1, TimeInvariance, PTL
================================================================================

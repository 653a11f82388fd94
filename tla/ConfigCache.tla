----------------------------- MODULE ConfigCache ------------------------------
(***************************************************************************)
(* The cache in front of Control's POST /mcp/config (config_cache.go):     *)
(* fetchControlConfigCached looks into the cache, joins or starts a flight *)
(* (golang.org/x/sync/singleflight) and fetches with retries after 429.    *)
(*                                                                         *)
(* Time is counted in units, and kept as the time that is left (of an      *)
(* entry, a budget, a sleep) or that has gone by (since Control read a     *)
(* config, since a fetch or a call began); a Tick is one unit.  Code that  *)
(* does not wait for Control, a timer or a flight takes no time.           *)
(***************************************************************************)
EXTENDS Naturals

CONSTANTS
  Callers,       \* goroutines that call fetchControlConfigCached, repeatedly
  ContextOf,     \* what a caller passes: token, schema and runtimeContext
  TTL,           \* configCacheTTL
  RetryBudget,   \* configRetryBudget
  Timeout,       \* MCP_CONTROL_TIMEOUT_SEC, of each fetch
  DefaultWait,   \* defaultRateLimitWaitSec
  MaxWait,       \* the largest wait, 60 seconds
  RetryAfters,   \* what Control's 429 answers say; 0 is nothing
  Error,         \* the result of a call that failed
  None

ASSUME TimeAssumption ==
  /\ {TTL, RetryBudget, Timeout, DefaultWait, MaxWait} \subseteq Nat \ {0}
  /\ RetryAfters \subseteq Nat

(* The fields of a context; tool_name is in none of the keys.              *)
ASSUME ContextAssumption ==
  \A c \in Callers : DOMAIN ContextOf[c] =
    {"token", "instance_id", "server_id", "connection_ids", "schema", "tool_name"}

VARIABLES
  pc,       \* where a caller is
  result,   \* what its last call returned: a config, Error or None
  cache,    \* configCache
  flight,   \* configFlight: the caller that leads the flight of a key
  attempt,  \* of the leader's fetchControlConfigWithRetry: attempt,
  budget,   \*   time left until its deadline,
  fetching, \*   time gone by in the present fetch,
  sleep,    \*   time left to sleep
  waited    \* time that the call has spent in the flight

callVars  == <<pc, result, waited>>
retryVars == <<attempt, budget, fetching, sleep>>
vars == <<callVars, cache, flight, retryVars>>

-----------------------------------------------------------------------------
(* configCacheKey.                                                         *)

(* runtimeContextInstanceKey: instance_id, or else server_id.              *)
InstanceKey(x) ==
  IF x.instance_id # None THEN <<"instance", x.instance_id>>
  ELSE IF x.server_id # None THEN <<"server", x.server_id>> ELSE <<>>

(* Fault: the connection ids are left out of the key.                      *)
KeyWithoutConnections(c) ==
  LET x == ContextOf[c] IN <<x.token, InstanceKey(x), {}, x.schema>>

(* The connection ids are sorted first: their order does not matter.       *)
Key(c) ==
  LET x == ContextOf[c] IN <<x.token, InstanceKey(x), x.connection_ids, x.schema>>

Keys == {Key(c) : c \in Callers}

Uncached(c) == ContextOf[c].token = None

(* Age stops counting where staleness does not get worse.                  *)
MaxAge  == TTL + Timeout + 1
MaxCall == RetryBudget + Timeout + 1

Capped(n, max) == IF n > max THEN max ELSE n

(* A config remembers for whom and how long ago Control made it.           *)
Configs == [caller : Callers, age : 0..MaxAge]

ASSUME NoneAssumption ==
  /\ Error \notin Configs /\ None \notin Configs \cup Callers \cup {Error}
  /\ None \notin [config : Configs, left : 0..TTL]

TypeOK ==
  /\ pc \in [Callers -> {"idle", "missed", "joined", "leading", "fetching", "sleeping",
                         "leaving"}]
  /\ result \in [Callers -> Configs \cup {Error, None}]
  /\ cache \in [Keys -> [config : Configs, left : 0..TTL] \cup {None}]
  /\ flight \in [Keys -> Callers \cup {None}]
  /\ attempt \in [Callers -> 0..RetryBudget]
  /\ budget \in [Callers -> 0..RetryBudget]
  /\ fetching \in [Callers -> 0..Timeout]
  /\ sleep \in [Callers -> 0..MaxWait]
  /\ waited \in [Callers -> 0..MaxCall]

Init ==
  /\ pc = [c \in Callers |-> "idle"]
  /\ result = [c \in Callers |-> None]
  /\ cache = [k \in Keys |-> None]
  /\ flight = [k \in Keys |-> None]
  /\ attempt = [c \in Callers |-> 0]
  /\ budget = [c \in Callers |-> 0]
  /\ fetching = [c \in Callers |-> 0]
  /\ sleep = [c \in Callers |-> 0]
  /\ waited = [c \in Callers |-> 0]

-----------------------------------------------------------------------------
Goto(c, place) == pc' = [pc EXCEPT ![c] = place]

Fresh(k) == cache[k] # None /\ cache[k].left > 0

(* fetchControlConfigWithRetry begins: the deadline is set, the first      *)
(* fetch sent.                                                             *)
StartFetching(c) ==
  /\ Goto(c, "fetching")
  /\ budget' = [budget EXCEPT ![c] = RetryBudget]
  /\ UNCHANGED <<attempt, fetching, sleep>>

(* A call without a token goes to Control; another one looks into the      *)
(* cache, under the read lock.                                             *)
LookUp(c) ==
  /\ pc[c] = "idle"
  /\ \/ /\ Uncached(c)
        /\ StartFetching(c)
        /\ result' = [result EXCEPT ![c] = None]
     \/ /\ ~Uncached(c) /\ Fresh(Key(c))
        /\ result' = [result EXCEPT ![c] = cache[Key(c)].config]
        /\ UNCHANGED <<pc, retryVars>>
     \/ /\ ~Uncached(c) /\ ~Fresh(Key(c))
        /\ Goto(c, "missed")
        /\ result' = [result EXCEPT ![c] = None]
        /\ UNCHANGED retryVars
  /\ UNCHANGED <<waited, cache, flight>>

(* configFlight.Do: join the flight of the key, or lead a new one.         *)
EnterFlight(c) ==
  /\ pc[c] = "missed"
  /\ IF flight[Key(c)] = None
       THEN Goto(c, "leading") /\ flight' = [flight EXCEPT ![Key(c)] = c]
       ELSE Goto(c, "joined") /\ UNCHANGED flight
  /\ UNCHANGED <<result, waited, cache, retryVars>>

(* Fault: the leader trusts the miss that sent it here.                    *)
CheckAgainSkipped(c) ==
  /\ pc[c] = "leading"
  /\ StartFetching(c)
  /\ UNCHANGED <<result, waited, cache, flight>>

(* The leader looks into the cache again: the flight that it missed may    *)
(* have filled it.                                                         *)
CheckAgain(c) ==
  /\ pc[c] = "leading"
  /\ IF Fresh(Key(c))
       THEN /\ result' = [result EXCEPT ![c] = cache[Key(c)].config]
            /\ Goto(c, "leaving")
            /\ UNCHANGED retryVars
       ELSE StartFetching(c) /\ UNCHANGED result
  /\ UNCHANGED <<waited, cache, flight>>

(* The retry loop ends: without a flight the call returns.                 *)
Leave(c, res) ==
  /\ result' = [result EXCEPT ![c] = res]
  /\ Goto(c, IF Uncached(c) THEN "idle" ELSE "leaving")
  /\ attempt' = [attempt EXCEPT ![c] = 0]
  /\ budget' = [budget EXCEPT ![c] = 0]
  /\ fetching' = [fetching EXCEPT ![c] = 0]
  /\ waited' = IF Uncached(c) THEN [waited EXCEPT ![c] = 0] ELSE waited
  /\ UNCHANGED <<flight, sleep>>

(* Fault: a config is cached until it is replaced by the next one.         *)
FetchSucceedsForever(c) ==
  /\ pc[c] = "fetching"
  /\ \E age \in 0..fetching[c] :
       LET config == [caller |-> c, age |-> age] IN
       /\ Leave(c, config)
       /\ cache' = IF Uncached(c) THEN cache
                   ELSE [cache EXCEPT ![Key(c)] =
                           [config |-> IF @ = None THEN config ELSE @.config, left |-> TTL]]

(* 200: Control made the config at some time during the fetch.  A response *)
(* without one counts as an empty config and is cached, too.               *)
FetchSucceeds(c) ==
  /\ pc[c] = "fetching"
  /\ \E age \in 0..fetching[c] :
       LET config == [caller |-> c, age |-> age] IN
       /\ Leave(c, config)
       /\ cache' = IF Uncached(c) THEN cache
                   ELSE [cache EXCEPT ![Key(c)] = [config |-> config, left |-> TTL]]

(* Fault: every error is retried, and only 429 with a wait.                *)
FetchFailsRetries(c) ==
  /\ pc[c] = "fetching"
  /\ attempt' = [attempt EXCEPT ![c] = @ + 1]
  /\ UNCHANGED <<callVars, cache, flight, budget, fetching, sleep>>

(* A transport error, a timeout, or a status other than 200 and 429.       *)
FetchFails(c) ==
  /\ pc[c] = "fetching"
  /\ Leave(c, Error)
  /\ UNCHANGED cache

(* 1 << n; the width of an int is not reached within a budget.             *)
Shifted[n \in Nat] == IF n = 0 THEN 1 ELSE 2 * Shifted[n - 1]

(* rateLimitWaitDuration: what the 429 says, or else a default that        *)
(* doubles with every attempt; at most MaxWait.                            *)
RateLimitWait(retryAfter, n) ==
  Capped(IF retryAfter > 0 THEN retryAfter ELSE DefaultWait * Shifted[n], MaxWait)

(* 429, and waiting would take the call past its deadline.                 *)
BudgetExhausted(c, retryAfter) ==
  /\ pc[c] = "fetching"
  /\ RateLimitWait(retryAfter, attempt[c]) > budget[c]
  /\ Leave(c, Error)
  /\ UNCHANGED cache

(* Fault: a sleep may begin at any time before the deadline.               *)
SleepPastDeadline(c, retryAfter) ==
  LET wait == RateLimitWait(retryAfter, attempt[c]) IN
  /\ pc[c] = "fetching"
  /\ budget[c] > 0
  /\ Goto(c, "sleeping")
  /\ sleep' = [sleep EXCEPT ![c] = wait]
  /\ fetching' = [fetching EXCEPT ![c] = 0]
  /\ UNCHANGED <<result, waited, cache, flight, attempt, budget>>

(* 429, and there is time.                                                 *)
Sleep(c, retryAfter) ==
  LET wait == RateLimitWait(retryAfter, attempt[c]) IN
  /\ pc[c] = "fetching"
  /\ wait <= budget[c]
  /\ Goto(c, "sleeping")
  /\ sleep' = [sleep EXCEPT ![c] = wait]
  /\ fetching' = [fetching EXCEPT ![c] = 0]
  /\ UNCHANGED <<result, waited, cache, flight, attempt, budget>>

(* Fault: the deadline is computed inside the loop.                        *)
RetryRenewsDeadline(c) ==
  /\ pc[c] = "sleeping" /\ sleep[c] = 0
  /\ Goto(c, "fetching")
  /\ attempt' = [attempt EXCEPT ![c] = Capped(@ + 1, RetryBudget)]
  /\ budget' = [budget EXCEPT ![c] = RetryBudget]
  /\ UNCHANGED <<result, waited, cache, flight, fetching, sleep>>

(* The sleeper wakes: the next attempt, with what is left of the budget.   *)
Retry(c) ==
  /\ pc[c] = "sleeping" /\ sleep[c] = 0
  /\ Goto(c, "fetching")
  /\ attempt' = [attempt EXCEPT ![c] = @ + 1]
  /\ UNCHANGED <<result, waited, cache, flight, budget, fetching, sleep>>

(* The flight ends: its result, config or error, goes to all that joined.  *)
EndFlight(c) ==
  LET crew == {d \in Callers : Key(d) = Key(c) /\ pc[d] = "joined"} \cup {c} IN
  /\ pc[c] = "leaving"
  /\ flight' = [flight EXCEPT ![Key(c)] = None]
  /\ result' = [d \in Callers |-> IF d \in crew THEN result[c] ELSE result[d]]
  /\ pc' = [d \in Callers |-> IF d \in crew THEN "idle" ELSE pc[d]]
  /\ waited' = [d \in Callers |-> IF d \in crew THEN 0 ELSE waited[d]]
  /\ UNCHANGED <<cache, retryVars>>

-----------------------------------------------------------------------------
Older(x) == [x EXCEPT !.age = Capped(@ + 1, MaxAge)]

Less(n) == IF n > 0 THEN n - 1 ELSE 0

(* Time goes by when nobody can go on: a fetch ends by its timeout, a      *)
(* sleeper is woken when its time is over.  A caller that has missed may   *)
(* be kept from entering the flight for any time.                          *)
Tick ==
  /\ \A c \in Callers :
       /\ pc[c] \notin {"leading", "leaving"}
       /\ pc[c] = "fetching" => fetching[c] < Timeout
       /\ pc[c] = "sleeping" => sleep[c] > 0
  /\ fetching' = [c \in Callers |-> IF pc[c] = "fetching" THEN fetching[c] + 1 ELSE fetching[c]]
  /\ budget' = [c \in Callers |-> IF pc[c] \in {"fetching", "sleeping"} THEN Less(budget[c])
                                  ELSE budget[c]]
  /\ sleep' = [c \in Callers |-> IF pc[c] = "sleeping" THEN sleep[c] - 1 ELSE sleep[c]]
  /\ waited' = [c \in Callers |-> IF pc[c] \in {"joined", "fetching", "sleeping"}
                                    THEN Capped(waited[c] + 1, MaxCall) ELSE waited[c]]
  /\ cache' = [k \in Keys |-> IF cache[k] = None THEN None
                              ELSE [config |-> Older(cache[k].config),
                                    left |-> Less(cache[k].left)]]
  /\ UNCHANGED <<pc, result, flight, attempt>>

Call(c) == \/ EnterFlight(c)
           \/ CheckAgain(c)
           \/ FetchSucceeds(c)
           \/ FetchFails(c)
           \/ \E s \in RetryAfters : BudgetExhausted(c, s) \/ Sleep(c, s)
           \/ Retry(c)
           \/ EndFlight(c)

Next == \/ \E c \in Callers : LookUp(c) \/ Call(c)
        \/ Tick

(* Time does not stop, however often callers come back, and a caller that  *)
(* has missed gets to run; everybody else who can go on, and Control's     *)
(* timeout, are what a Tick waits for.  Control may answer 429 every time. *)
TimeDiverges == []<><<Tick>>_vars

Spec == /\ Init
        /\ [][Next]_vars
        /\ TimeDiverges
        /\ \A c \in Callers : WF_vars(EnterFlight(c))

-----------------------------------------------------------------------------
(* Properties.                                                             *)

(* Control is not asked for a config that is fresh in the cache, although  *)
(* any number of callers found it missing before it was put there and      *)
(* enter the flight afterwards; and never twice at a time for one key.     *)
NoRedundantFetch ==
  \A c \in Callers : ~Uncached(c) /\ pc[c] \in {"fetching", "sleeping"} =>
    ~Fresh(Key(c)) /\ flight[Key(c)] = c

(* A call returns nothing older than the lifetime of an entry plus the     *)
(* time of one fetch, through the cache, the flight, or after retries.     *)
BoundedStaleness ==
  \A c \in Callers : result[c] \in Configs => result[c].age <= TTL + Timeout

(* The key has to tell apart what Control tells apart.  A call returns a   *)
(* config made for the same token, schema and connections, and for the     *)
(* same instance (or server, without an instance id); tool names share.    *)
OwnConfig ==
  \A c \in Callers : result[c] \in Configs =>
    LET x == ContextOf[c]
        y == ContextOf[result[c].caller]
    IN /\ x.token = y.token /\ x.schema = y.schema
       /\ x.connection_ids = y.connection_ids
       /\ x.instance_id = y.instance_id
       /\ x.instance_id = None => x.server_id = y.server_id

(* A call spends at most the retry budget and one fetch in the flight, as  *)
(* a leader or joining one, whatever Control's 429 answers ask for.        *)
WithinBudget ==
  \A c \in Callers : waited[c] <= RetryBudget + Timeout

(* Every call that missed returns: no caller is left behind by a flight.   *)
CallsReturn == \A c \in Callers : pc[c] = "missed" ~> pc[c] = "idle"
=============================================================================

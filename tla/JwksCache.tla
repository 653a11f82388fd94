------------------------------ MODULE JwksCache ------------------------------
(***************************************************************************)
(* The OAuth gate in front of an MCP server (OAuthMiddleware) and the key  *)
(* cache of its JWT verifier (jwtVerifier).  Handlers run concurrently and *)
(* share the cache.  A refresh reads the identity provider's key set with  *)
(* the lock released, so an older answer may be installed after a younger  *)
(* one, and the set may have been rotated before it is installed.          *)
(*                                                                         *)
(* Only usable RSA keys of the provider's set count as published.  A JWT   *)
(* is its key id and its defect, if any: "unsound" stands for a signature, *)
(* algorithm, issuer, audience or expiry that the parser refuses.          *)
(***************************************************************************)
EXTENDS Integers

CONSTANTS Kids,                  \* key ids
          Requests,              \* handler goroutines, each reused
          TTL,                   \* how long a key set is good for
          Timeout,               \* the HTTP client's limit for one fetch
          Arrivals               \* the requests that may arrive

JWTs == [kind : {"jwt"}, kid : Kids, defect : {"none", "unsound", "unscoped"}]
Tokens == [kind : {"none", "pat", "opaque"}] \cup JWTs

\* Where a request goes: to the metadata document, to a path that is not the
\* mount's, or to the mount: as a CORS preflight, as a message that a client
\* may send before it has a token (any that is no POST, too), or as a call.
Places == {"metadata", "elsewhere", "preflight", "handshake", "call"}

ASSUME CacheAssumption == /\ Arrivals \subseteq [to : Places, token : Tokens]
                          /\ TTL \in Nat \ {0}
                          /\ Timeout \in Nat \ {0}

VARIABLES RequireAuthOnConnect,  \* OAuthConfig: gate the handshake, too
          published,   \* the identity provider's current key set
          keys,        \* jwtVerifier.keys
          cacheAge,    \* time since jwtVerifier.cachedAt
          keysRead,    \* time since the provider read what is in keys
                       \* (history)
          pc,          \* where each handler is, or the outcome it reached
          request,     \* the request each handler serves
          again,       \* the fetch under way is Verify's second try
          answer,      \* the key set the provider answered a fetch with
          answerRead,  \* time since it read that set (history)
          age,         \* time since the fetch under way began
          steady,      \* the token's key has been published since the
                       \* request arrived (history)
          lag          \* time since the provider read the set the token's
                       \* key was found in (history)

cache == <<keys, cacheAge, keysRead>>
fetch == <<again, answer, answerRead, age>>
vars == <<RequireAuthOnConnect, published, cache, pc, request, fetch, steady, lag>>

Waiting == {"fetching", "answered"}
Outcomes == {"idle", "passed", "metadata", "no token", "invalid", "fetch failed",
             "no usable keys", "kid not found", "insufficient scope"}

Horizon == TTL + Timeout   \* keysRead is not counted beyond this

NoRequest == [to |-> "elsewhere", token |-> [kind |-> "none"]]

TypeOK ==
  /\ RequireAuthOnConnect \in BOOLEAN
  /\ published \subseteq Kids
  /\ keys \subseteq Kids
  /\ cacheAge \in 0..TTL
  /\ keysRead \in 0..Horizon
  /\ pc \in [Requests -> Waiting \cup Outcomes]
  /\ request \in [Requests -> Arrivals \cup {NoRequest}]
  /\ again \in [Requests -> BOOLEAN]
  /\ answer \in [Requests -> SUBSET Kids]
  /\ answerRead \in [Requests -> 0..Timeout]
  /\ age \in [Requests -> 0..Timeout]
  /\ steady \in [Requests -> BOOLEAN]
  /\ lag \in [Requests -> 0..Horizon]

Init ==
  /\ RequireAuthOnConnect \in BOOLEAN
  /\ published \in SUBSET Kids
  /\ keys = {}
  /\ cacheAge = TTL
  /\ keysRead = Horizon
  /\ pc = [r \in Requests |-> "idle"]
  /\ request = [r \in Requests |-> NoRequest]
  /\ again = [r \in Requests |-> FALSE]
  /\ answer = [r \in Requests |-> {}]
  /\ answerRead = [r \in Requests |-> 0]
  /\ age = [r \in Requests |-> 0]
  /\ steady = [r \in Requests |-> FALSE]
  /\ lag = [r \in Requests |-> 0]

-----------------------------------------------------------------------------
(* Helpers.                                                                *)

\* A request the gate lets through without looking at credentials.
Open(req) ==
  \/ req.to \in {"elsewhere", "preflight"}
  \/ req.to = "handshake" /\ ~RequireAuthOnConnect

Gated(req) == req.to # "metadata" /\ ~Open(req)

\* What the middleware decides on a token it can judge without a key.
Screened(token) ==
  CASE token.kind = "none"   -> "no token"
    [] token.kind = "pat"    -> "passed"
    [] token.kind = "opaque" -> "invalid"

\* What the parser and the scope check decide once the key is known.
Judged(token) ==
  CASE token.defect = "unsound"  -> "invalid"
    [] token.defect = "unscoped" -> "insufficient scope"
    [] OTHER                     -> "passed"

\* getKeys answers from the cache.
Cached == keys # {} /\ cacheAge < TTL

\* The handler answers with outcome o.  The fields of a fetch are reset:
\* nothing reads them again.
Reply(r, o, l) ==
  /\ pc' = [pc EXCEPT ![r] = o]
  /\ lag' = [lag EXCEPT ![r] = l]
  /\ again' = [again EXCEPT ![r] = FALSE]
  /\ answer' = [answer EXCEPT ![r] = {}]
  /\ answerRead' = [answerRead EXCEPT ![r] = 0]
  /\ age' = [age EXCEPT ![r] = 0]

\* refreshKeys sends its request.
Refresh(r, second) ==
  /\ pc' = [pc EXCEPT ![r] = "fetching"]
  /\ again' = [again EXCEPT ![r] = second]
  /\ answer' = [answer EXCEPT ![r] = {}]
  /\ answerRead' = [answerRead EXCEPT ![r] = 0]
  /\ age' = [age EXCEPT ![r] = 0]
  /\ UNCHANGED lag

\* The token's key was found in a set read that long ago: the rest of Verify
\* needs no other state.
Accept(r, token, read) ==
  Reply(r, Judged(token), IF Judged(token) = "passed" THEN read ELSE 0)

-----------------------------------------------------------------------------
(* Handlers.                                                               *)

\* Fault: a cached key set is taken to be complete.
ArriveTrustsCache(r, req) ==
  /\ pc[r] \in Outcomes
  /\ request' = [request EXCEPT ![r] = req]
  /\ \/ /\ req.to = "metadata" \/ Open(req)
        /\ steady' = [steady EXCEPT ![r] = FALSE]
        /\ Reply(r, IF req.to = "metadata" THEN "metadata" ELSE "passed", 0)
     \/ /\ Gated(req) /\ req.token.kind # "jwt"
        /\ steady' = [steady EXCEPT ![r] = FALSE]
        /\ Reply(r, Screened(req.token), 0)
     \/ /\ Gated(req) /\ req.token.kind = "jwt"
        /\ steady' = [steady EXCEPT ![r] = req.token.kid \in published]
        /\ \/ Cached /\ req.token.kid \in keys /\ Accept(r, req.token, keysRead)
           \/ Cached /\ req.token.kid \notin keys
              /\ Reply(r, "kid not found", 0)
           \/ ~Cached /\ Refresh(r, FALSE)
  /\ UNCHANGED <<RequireAuthOnConnect, published, cache>>

\* The middleware up to Verify, and Verify's lookup under the lock.
Arrive(r, req) ==
  /\ pc[r] \in Outcomes
  /\ request' = [request EXCEPT ![r] = req]
  /\ \/ /\ req.to = "metadata" \/ Open(req)
        /\ steady' = [steady EXCEPT ![r] = FALSE]
        /\ Reply(r, IF req.to = "metadata" THEN "metadata" ELSE "passed", 0)
     \/ /\ Gated(req) /\ req.token.kind # "jwt"
        /\ steady' = [steady EXCEPT ![r] = FALSE]
        /\ Reply(r, Screened(req.token), 0)
     \/ /\ Gated(req) /\ req.token.kind = "jwt"
        /\ steady' = [steady EXCEPT ![r] = req.token.kid \in published]
        /\ \/ Cached /\ req.token.kid \in keys /\ Accept(r, req.token, keysRead)
           \/ Cached /\ req.token.kid \notin keys /\ Refresh(r, TRUE)
           \/ ~Cached /\ Refresh(r, FALSE)
  /\ UNCHANGED <<RequireAuthOnConnect, published, cache>>

\* The identity provider reads its key set to answer r's fetch.
ProviderAnswers(r) ==
  /\ pc[r] = "fetching"
  /\ pc' = [pc EXCEPT ![r] = "answered"]
  /\ answer' = [answer EXCEPT ![r] = published]
  /\ UNCHANGED <<RequireAuthOnConnect, published, cache, request, again,
                 answerRead, age, steady, lag>>

\* Fault: when the fetch fails, the expired key set is used instead.
FetchFailsStale(r) ==
  /\ pc[r] \in Waiting
  /\ LET token == request[r].token IN
     \/ token.kid \in keys /\ Accept(r, token, keysRead)
     \/ token.kid \notin keys /\ Reply(r, "fetch failed", 0)
  /\ UNCHANGED <<RequireAuthOnConnect, published, cache, request, steady>>

\* The fetch errors, answers 4xx or 5xx, times out, or the client has gone.
FetchFails(r) ==
  /\ pc[r] \in Waiting
  /\ Reply(r, "fetch failed", 0)
  /\ steady' = [steady EXCEPT ![r] = FALSE]
  /\ UNCHANGED <<RequireAuthOnConnect, published, cache, request>>

\* Fault: an answer without usable keys is an outcome nobody expects.
NoUsableKeysUnexpected(r) ==
  /\ pc[r] = "answered" /\ answer[r] = {}
  /\ Reply(r, "nil keys", 0)
  /\ steady' = [steady EXCEPT ![r] = FALSE]
  /\ UNCHANGED <<RequireAuthOnConnect, published, cache, request>>

\* The answer holds no usable key: the cache is left alone.
NoUsableKeys(r) ==
  /\ pc[r] = "answered" /\ answer[r] = {}
  /\ Reply(r, "no usable keys", 0)
  /\ steady' = [steady EXCEPT ![r] = FALSE]
  /\ UNCHANGED <<RequireAuthOnConnect, published, cache, request>>

\* Fault: an unknown key is looked for again and again.
InstallRetries(r) ==
  /\ pc[r] = "answered" /\ answer[r] # {}
  /\ keys' = answer[r]
  /\ cacheAge' = 0
  /\ keysRead' = answerRead[r]
  /\ LET token == request[r].token IN
     \/ token.kid \in answer[r] /\ Accept(r, token, answerRead[r])
     \/ token.kid \notin answer[r] /\ Refresh(r, TRUE)
  /\ UNCHANGED <<RequireAuthOnConnect, published, request, steady>>

\* The answer replaces the cache, and the key is looked up in the answer
\* itself: found, or tried once more, or refused.
Install(r) ==
  /\ pc[r] = "answered" /\ answer[r] # {}
  /\ keys' = answer[r]
  /\ cacheAge' = 0
  /\ keysRead' = answerRead[r]
  /\ LET token == request[r].token IN
     \/ token.kid \in answer[r] /\ Accept(r, token, answerRead[r])
     \/ token.kid \notin answer[r] /\ ~again[r] /\ Refresh(r, TRUE)
     \/ token.kid \notin answer[r] /\ again[r] /\ Reply(r, "kid not found", 0)
  /\ UNCHANGED <<RequireAuthOnConnect, published, request, steady>>

-----------------------------------------------------------------------------
(* The environment.                                                        *)

\* The identity provider publishes another key set.
Rotate(ks) ==
  /\ ks # published
  /\ published' = ks
  /\ steady' = [r \in Requests |->
                  /\ steady[r]
                  /\ pc[r] \in Waiting => request[r].token.kid \in ks]
  /\ UNCHANGED <<RequireAuthOnConnect, cache, pc, request, fetch, lag>>

\* The smaller of m + 1 and limit.
Older(m, limit) == IF m < limit THEN m + 1 ELSE limit

\* Time passes; no fetch outlives the HTTP client's limit.
Tick ==
  /\ \A r \in Requests : pc[r] \in Waiting => age[r] < Timeout
  /\ cacheAge' = Older(cacheAge, TTL)
  /\ age' = [r \in Requests |-> IF pc[r] \in Waiting THEN age[r] + 1 ELSE 0]
  /\ keysRead' = Older(keysRead, Horizon)
  /\ answerRead' = [r \in Requests |->
                      IF pc[r] = "answered" THEN answerRead[r] + 1 ELSE 0]
  /\ UNCHANGED <<RequireAuthOnConnect, published, keys, pc, request, again,
                 answer, steady, lag>>

Handler(r) == \/ \E req \in Arrivals : Arrive(r, req)
              \/ ProviderAnswers(r)
              \/ FetchFails(r)
              \/ NoUsableKeys(r)
              \/ Install(r)

Next == \/ \E r \in Requests : Handler(r)
        \/ \E ks \in SUBSET Kids : Rotate(ks)
        \/ Tick

\* Time does not stop, which is what makes the HTTP client's limit bite: a
\* fetch at its limit holds Tick back until it ends one way or the other.
TimeDiverges == []<><<Tick>>_vars

Spec == Init /\ [][Next]_vars /\ TimeDiverges

-----------------------------------------------------------------------------
(* Properties.                                                             *)

\* What OAuthMiddleware lets through to the MCP server is a request that
\* needs no credentials, a personal access token, or a sound JWT with the
\* required scopes whose key is in a set the provider published less than
\* TTL + Timeout ago.  The last bound is the subtle one: the age of the cache
\* is counted from the moment an answer is installed, not from the moment it
\* was read, and an answer read earlier may be installed last, so a retired
\* key can come back into the cache after a younger answer had removed it.
ServedOnCredentials ==
  \A r \in Requests : pc[r] = "passed" =>
    \/ request[r].to \in {"elsewhere", "preflight"}
    \/ request[r].to = "handshake" /\ ~RequireAuthOnConnect
    \/ request[r].token.kind = "pat"
    \/ /\ request[r].token.kind = "jwt"
       /\ request[r].token.defect = "none"
       /\ lag[r] < Horizon

\* Verify says "jwt key id not found" only when the key was unpublished at
\* some moment since the request arrived: a stale cache, whether it expired,
\* was filled before a rotation, or was overwritten meanwhile by another
\* handler's older answer, never refuses a key the provider has published
\* all along.
PublishedKeyFound ==
  \A r \in Requests : pc[r] = "kid not found" => ~steady[r]

\* Every request is answered: Verify fetches at most twice, and each fetch
\* ends by the client's limit.
VerifyReturns == \A r \in Requests : pc[r] \in Waiting ~> pc[r] \in Outcomes
=============================================================================

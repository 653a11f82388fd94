---------------------------- MODULE JwksCacheProofs ----------------------------
(***************************************************************************)
(* Proofs about the OAuth gate and its key cache, for any number of        *)
(* requests, key ids and tokens, and any lifetime of the cache.            *)
(*                                                                         *)
(* The two facts behind ServedOnCredentials: what is in the cache was read *)
(* at most Timeout before it was installed, and an answer that is waited   *)
(* for was read after its fetch began.  The fact behind PublishedKeyFound: *)
(* a key that stays published is in every answer.                          *)
(***************************************************************************)
EXTENDS JwksCache, TLAPS

USE CacheAssumption
USE DEF cache, fetch, Horizon

(* Only a JWT that the gate does not wave through is looked up.            *)
OnlyJWTsWait ==
  \A r \in Requests : pc[r] \in Waiting =>
    Gated(request[r]) /\ request[r].token.kind = "jwt"

(* The age of the cache lags behind the age of what it holds by a fetch.   *)
ReadDuringFetch ==
  /\ keysRead <= cacheAge + Timeout
  /\ \A r \in Requests : answerRead[r] <= age[r]

(* The provider cannot leave a steady key out of its answer.               *)
SteadyKeyAnswered ==
  \A r \in Requests : steady[r] =>
    /\ pc[r] \in Waiting => request[r].token.kid \in published
    /\ pc[r] = "answered" => request[r].token.kid \in answer[r]

JwksInv == /\ TypeOK /\ OnlyJWTsWait /\ ReadDuringFetch
           /\ SteadyKeyAnswered /\ ServedOnCredentials /\ PublishedKeyFound

LEMMA InitInv == Init => JwksInv
BY DEF Init, JwksInv, TypeOK, OnlyJWTsWait, ReadDuringFetch, SteadyKeyAnswered,
   ServedOnCredentials, PublishedKeyFound, Waiting, Outcomes, Horizon

(* What an arrival looks like to the gate.                                 *)
LEMMA ArrivalForms ==
  ASSUME NEW req \in Arrivals
  PROVE  /\ req.to \in Places
         /\ req.token.kind \in {"none", "pat", "opaque", "jwt"}
         /\ req.token.kind = "jwt" =>
              req.token.kid \in Kids /\ req.token.defect \in {"none", "unsound", "unscoped"}
BY DEF Tokens, JWTs, Places

(* The state of a fetch, and of an outcome.                                *)
FetchTypeOK ==
  /\ pc \in [Requests -> Waiting \cup Outcomes]
  /\ again \in [Requests -> BOOLEAN]
  /\ answer \in [Requests -> SUBSET Kids]
  /\ answerRead \in [Requests -> 0..Timeout]
  /\ age \in [Requests -> 0..Timeout]
  /\ lag \in [Requests -> 0..Horizon]

OthersStay(r) ==
  \A q \in Requests \ {r} :
    /\ pc'[q] = pc[q] /\ lag'[q] = lag[q] /\ answer'[q] = answer[q]
    /\ answerRead'[q] = answerRead[q] /\ age'[q] = age[q]

LEMMA ReplyEffect ==
  ASSUME TypeOK, NEW r \in Requests, NEW o \in Outcomes, NEW l \in 0..Horizon, Reply(r, o, l)
  PROVE  /\ FetchTypeOK' /\ OthersStay(r)
         /\ pc'[r] = o /\ lag'[r] = l /\ answerRead'[r] = 0 /\ age'[r] = 0
<1> USE DEF TypeOK, Reply, FetchTypeOK
<1>1. pc' \in [Requests -> Waiting \cup Outcomes] /\ pc'[r] = o
  OBVIOUS
<1>2. again' \in [Requests -> BOOLEAN]
  OBVIOUS
<1>3. answer' \in [Requests -> SUBSET Kids]
  OBVIOUS
<1>4. /\ answerRead' \in [Requests -> 0..Timeout] /\ answerRead'[r] = 0
      /\ age' \in [Requests -> 0..Timeout] /\ age'[r] = 0
  OBVIOUS
<1>5. lag' \in [Requests -> 0..Horizon] /\ lag'[r] = l
  OBVIOUS
<1>6. OthersStay(r)
  BY DEF OthersStay
<1> QED BY <1>1, <1>2, <1>3, <1>4, <1>5, <1>6

LEMMA RefreshEffect ==
  ASSUME TypeOK, NEW r \in Requests, NEW second \in BOOLEAN, Refresh(r, second)
  PROVE  /\ FetchTypeOK' /\ OthersStay(r)
         /\ pc'[r] = "fetching" /\ answerRead'[r] = 0 /\ age'[r] = 0
<1> USE DEF TypeOK, Refresh, FetchTypeOK
<1>1. pc' \in [Requests -> Waiting \cup Outcomes] /\ pc'[r] = "fetching"
  BY DEF Waiting
<1>2. again' \in [Requests -> BOOLEAN]
  OBVIOUS
<1>3. answer' \in [Requests -> SUBSET Kids]
  OBVIOUS
<1>4. /\ answerRead' \in [Requests -> 0..Timeout] /\ answerRead'[r] = 0
      /\ age' \in [Requests -> 0..Timeout] /\ age'[r] = 0
  OBVIOUS
<1>5. OthersStay(r)
  BY DEF OthersStay
<1> QED BY <1>1, <1>2, <1>3, <1>4, <1>5

(* What a handler leaves to the rest of the gate: the cache is sound, and  *)
(* nothing of another request has changed.                                 *)
Leaves(r) ==
  /\ RequireAuthOnConnect' = RequireAuthOnConnect /\ published' = published
  /\ keys' \subseteq Kids /\ cacheAge' \in 0..TTL /\ keysRead' \in 0..Horizon
  /\ keysRead' <= cacheAge' + Timeout
  /\ request' \in [Requests -> Arrivals \cup {NoRequest}]
  /\ steady' \in [Requests -> BOOLEAN]
  /\ \A q \in Requests \ {r} : request'[q] = request[q] /\ steady'[q] = steady[q]

(* What lets a request pass, if its key was read so long ago.              *)
Credentials(req, read) ==
  \/ req.to \in {"elsewhere", "preflight"}
  \/ req.to = "handshake" /\ ~RequireAuthOnConnect
  \/ req.token.kind = "pat"
  \/ req.token.kind = "jwt" /\ req.token.defect = "none" /\ read < Horizon

(* When a handler may answer so.                                           *)
Justified(r, o, l) ==
  /\ o = "passed" => Credentials(request'[r], l)
  /\ o = "kid not found" => steady'[r] = FALSE

(* A handler that answers.                                                 *)
LEMMA AnswerStep ==
  ASSUME JwksInv, NEW r \in Requests, NEW o \in Outcomes, NEW l \in 0..Horizon,
         Reply(r, o, l), Leaves(r),
         Justified(r, o, l)
  PROVE  JwksInv'
<1>1. TypeOK /\ OnlyJWTsWait /\ ReadDuringFetch /\ SteadyKeyAnswered
      /\ ServedOnCredentials /\ PublishedKeyFound
  BY DEF JwksInv
<1>2. /\ FetchTypeOK' /\ OthersStay(r)
      /\ pc'[r] = o /\ lag'[r] = l /\ answerRead'[r] = 0 /\ age'[r] = 0
  BY <1>1, ReplyEffect
<1>3. o \notin Waiting
  BY DEF Outcomes, Waiting
<1>4. TypeOK'
  BY <1>1, <1>2 DEF TypeOK, FetchTypeOK, Leaves
<1>5. OnlyJWTsWait'
  BY <1>1, <1>2, <1>3 DEF OnlyJWTsWait, OthersStay, Leaves, Gated, Open
<1>6. ReadDuringFetch'
  <2>1. keysRead' <= cacheAge' + Timeout
    BY DEF Leaves
  <2>2. ASSUME NEW q \in Requests PROVE answerRead'[q] <= age'[q]
    <3>1. CASE q = r
      BY <1>2, <3>1
    <3>2. CASE q # r
      BY <1>1, <1>2, <3>2 DEF ReadDuringFetch, OthersStay
    <3> QED BY <3>1, <3>2
  <2> QED BY <2>1, <2>2 DEF ReadDuringFetch
<1>7. SteadyKeyAnswered'
  BY <1>1, <1>2, <1>3 DEF SteadyKeyAnswered, OthersStay, Leaves, Waiting
<1>8. ServedOnCredentials'
  <2>1. ASSUME NEW q \in Requests, pc'[q] = "passed" PROVE Credentials(request[q], lag[q])'
    <3>1. CASE q = r
      BY <1>2, <2>1, <3>1 DEF Leaves, Credentials, Justified
    <3>2. CASE q # r
      BY <1>1, <1>2, <2>1, <3>2 DEF ServedOnCredentials, OthersStay, Leaves, Credentials
    <3> QED BY <3>1, <3>2
  <2> QED BY <2>1 DEF ServedOnCredentials, Credentials
<1>9. PublishedKeyFound'
  BY <1>1, <1>2 DEF PublishedKeyFound, OthersStay, Leaves, Justified
<1> QED BY <1>4, <1>5, <1>6, <1>7, <1>8, <1>9 DEF JwksInv

(* A handler that fetches, for the first or the second time.               *)
LEMMA FetchStep ==
  ASSUME JwksInv, NEW r \in Requests, NEW second \in BOOLEAN,
         Refresh(r, second), Leaves(r),
         Gated(request[r])', request'[r].token.kind = "jwt",
         steady'[r] => request'[r].token.kid \in published
  PROVE  JwksInv'
<1>1. TypeOK /\ OnlyJWTsWait /\ ReadDuringFetch /\ SteadyKeyAnswered
      /\ ServedOnCredentials /\ PublishedKeyFound
  BY DEF JwksInv
<1>2. /\ FetchTypeOK' /\ OthersStay(r)
      /\ pc'[r] = "fetching" /\ answerRead'[r] = 0 /\ age'[r] = 0
  BY <1>1, RefreshEffect
<1>4. TypeOK'
  BY <1>1, <1>2 DEF TypeOK, FetchTypeOK, Leaves
<1>5. OnlyJWTsWait'
  BY <1>1, <1>2 DEF OnlyJWTsWait, OthersStay, Leaves, Gated, Open
<1>6. ReadDuringFetch'
  <2>1. keysRead' <= cacheAge' + Timeout
    BY DEF Leaves
  <2>2. ASSUME NEW q \in Requests PROVE answerRead'[q] <= age'[q]
    <3>1. CASE q = r
      BY <1>2, <3>1
    <3>2. CASE q # r
      BY <1>1, <1>2, <3>2 DEF ReadDuringFetch, OthersStay
    <3> QED BY <3>1, <3>2
  <2> QED BY <2>1, <2>2 DEF ReadDuringFetch
<1>7. SteadyKeyAnswered'
  BY <1>1, <1>2 DEF SteadyKeyAnswered, OthersStay, Leaves, Waiting
<1>8. ServedOnCredentials'
  BY <1>1, <1>2 DEF ServedOnCredentials, OthersStay, Leaves
<1>9. PublishedKeyFound'
  BY <1>1, <1>2 DEF PublishedKeyFound, OthersStay, Leaves
<1> QED BY <1>4, <1>5, <1>6, <1>7, <1>8, <1>9 DEF JwksInv

LEMMA WaitingForms ==
  ASSUME JwksInv, NEW r \in Requests, pc[r] \in Waiting
  PROVE  /\ Gated(request[r]) /\ request[r].token.kind = "jwt"
         /\ request[r].token.defect \in {"none", "unsound", "unscoped"}
<1>1. Gated(request[r]) /\ request[r].token.kind = "jwt" /\ request[r] \in Arrivals
  BY DEF JwksInv, OnlyJWTsWait, TypeOK, NoRequest
<1> QED BY <1>1, ArrivalForms

(* A cached set is younger than the horizon.                               *)
LEMMA CachedIsYoung == ASSUME JwksInv, Cached PROVE keysRead < Horizon
BY DEF JwksInv, TypeOK, ReadDuringFetch, Cached, Horizon

LEMMA ArriveStep ==
  ASSUME JwksInv, NEW r \in Requests, NEW req \in Arrivals, Arrive(r, req)
  PROVE  JwksInv'
<1>1. request'[r] = req /\ Leaves(r)
  <2>1. /\ request' = [request EXCEPT ![r] = req]
        /\ UNCHANGED <<RequireAuthOnConnect, published, keys, cacheAge, keysRead>>
        /\ \/ steady' = [steady EXCEPT ![r] = FALSE]
           \/ steady' = [steady EXCEPT ![r] = req.token.kid \in published]
    BY DEF Arrive
  <2>2. TypeOK /\ ReadDuringFetch
    BY DEF JwksInv
  <2>3. /\ request' \in [Requests -> Arrivals \cup {NoRequest}] /\ request'[r] = req
        /\ \A q \in Requests \ {r} : request'[q] = request[q]
    BY <2>1, <2>2 DEF TypeOK
  <2>4. /\ steady' \in [Requests -> BOOLEAN]
        /\ \A q \in Requests \ {r} : steady'[q] = steady[q]
    <3>1. steady \in [Requests -> BOOLEAN]
      BY <2>2 DEF TypeOK
    <3>2. CASE steady' = [steady EXCEPT ![r] = FALSE]
      BY <3>1, <3>2
    <3>3. CASE steady' = [steady EXCEPT ![r] = req.token.kid \in published]
      <4> DEFINE b == req.token.kid \in published
      <4>1. b \in BOOLEAN /\ steady' = [steady EXCEPT ![r] = b]
        BY <3>3
      <4> HIDE DEF b
      <4> QED BY <3>1, <4>1
    <3> QED BY <2>1, <3>2, <3>3
  <2> QED BY <2>1, <2>2, <2>3, <2>4 DEF Leaves, TypeOK, ReadDuringFetch
<1>2. RequireAuthOnConnect' = RequireAuthOnConnect
  BY <1>1 DEF Leaves
<1>3. 0 \in 0..Horizon
  BY DEF Horizon
<1>4. CASE req.to = "metadata"
  <2>1. Reply(r, "metadata", 0)
    BY <1>4 DEF Arrive, Gated
  <2>2. Justified(r, "metadata", 0) /\ "metadata" \in Outcomes
    BY DEF Justified, Outcomes
  <2> QED BY <1>1, <1>3, <2>1, <2>2, AnswerStep
<1>5. CASE req.to # "metadata" /\ Open(req)
  <2>1. Reply(r, "passed", 0)
    BY <1>5 DEF Arrive, Gated
  <2>2. Justified(r, "passed", 0) /\ "passed" \in Outcomes
    BY <1>1, <1>5 DEF Open, Credentials, Justified, Outcomes
  <2> QED BY <1>1, <1>3, <2>1, <2>2, AnswerStep
<1>6. CASE Gated(req) /\ req.token.kind # "jwt"
  <2>1. Reply(r, Screened(req.token), 0)
    BY <1>6 DEF Arrive, Gated
  <2>2. Justified(r, Screened(req.token), 0) /\ Screened(req.token) \in Outcomes
    <3>1. req.token.kind \in {"none", "pat", "opaque"}
      BY <1>6, ArrivalForms
    <3> QED BY <1>1, <3>1 DEF Screened, Credentials, Justified, Outcomes
  <2> QED BY <1>1, <1>3, <2>1, <2>2, AnswerStep
<1>7. CASE Gated(req) /\ req.token.kind = "jwt"
  <2>1. /\ steady'[r] => req.token.kid \in published
        /\ Gated(request[r])' /\ request'[r].token.kind = "jwt"
    <3>1. steady' = [steady EXCEPT ![r] = req.token.kid \in published]
      BY <1>7 DEF Arrive, Gated
    <3>2. steady'[r] = (req.token.kid \in published)
      BY <3>1 DEF JwksInv, TypeOK
    <3> QED BY <1>1, <1>2, <1>7, <3>2 DEF Gated, Open
  <2>2. CASE Cached /\ Accept(r, req.token, keysRead)
    <3>1. /\ Judged(req.token) \in {"invalid", "insufficient scope", "passed"}
          /\ Judged(req.token) = "passed" => req.token.defect = "none"
      <4>1. req.token.defect \in {"none", "unsound", "unscoped"}
        BY <1>7, ArrivalForms
      <4> QED BY <4>1 DEF Judged
    <3> DEFINE read == IF Judged(req.token) = "passed" THEN keysRead ELSE 0
    <3>2. Reply(r, Judged(req.token), read) /\ keysRead < Horizon
      BY <2>2, CachedIsYoung DEF Accept
    <3>3. read \in 0..Horizon
      BY <1>3 DEF JwksInv, TypeOK
    <3>4. Justified(r, Judged(req.token), read) /\ Judged(req.token) \in Outcomes
      BY <1>1, <1>7, <3>1, <3>2 DEF Credentials, Justified, Outcomes
    <3> HIDE DEF read
    <3> QED BY <1>1, <3>2, <3>3, <3>4, AnswerStep
  <2>3. CASE \E second \in BOOLEAN : Refresh(r, second)
    BY <1>1, <2>1, <2>3, FetchStep
  <2> QED BY <1>7, <2>2, <2>3 DEF Arrive, Gated
<1> QED BY <1>4, <1>5, <1>6, <1>7 DEF Gated

(* A handler installs its answer and decides by it.                        *)
LEMMA InstallStep == ASSUME JwksInv, NEW r \in Requests, Install(r) PROVE JwksInv'
<1> DEFINE token == request[r].token
<1>1. /\ TypeOK /\ ReadDuringFetch /\ SteadyKeyAnswered
      /\ pc[r] = "answered" /\ Gated(request[r]) /\ token.kind = "jwt"
      /\ token.defect \in {"none", "unsound", "unscoped"}
  BY WaitingForms DEF Install, JwksInv, Waiting
<1>2. answerRead[r] \in 0..Timeout /\ answerRead[r] \in 0..Horizon /\ answerRead[r] < Horizon
  BY <1>1 DEF TypeOK
<1>3. /\ Leaves(r) /\ request'[r] = request[r] /\ steady'[r] = steady[r]
  <2>1. /\ keys' = answer[r] /\ keysRead' = answerRead[r] /\ cacheAge' = 0
        /\ UNCHANGED <<RequireAuthOnConnect, published, request, steady>>
    BY DEF Install
  <2>2. keys' \subseteq Kids
    BY <1>1, <2>1 DEF TypeOK
  <2>3. cacheAge' \in 0..TTL /\ keysRead' \in 0..Horizon /\ keysRead' <= cacheAge' + Timeout
    BY <1>2, <2>1
  <2> QED BY <1>1, <2>1, <2>2, <2>3 DEF Leaves, TypeOK
<1>4. CASE Accept(r, token, answerRead[r])
  <2>1. /\ Judged(token) \in {"invalid", "insufficient scope", "passed"}
        /\ Judged(token) = "passed" => token.defect = "none"
    BY <1>1 DEF Judged
  <2> DEFINE read == IF Judged(token) = "passed" THEN answerRead[r] ELSE 0
  <2>2. Reply(r, Judged(token), read) /\ read \in 0..Horizon
    BY <1>2, <1>4 DEF Accept
  <2>3. Justified(r, Judged(token), read) /\ Judged(token) \in Outcomes
    BY <1>1, <1>2, <1>3, <2>1 DEF Credentials, Justified, Outcomes
  <2> HIDE DEF read
  <2> QED BY <1>3, <2>2, <2>3, AnswerStep
<1>5. CASE token.kid \notin answer[r] /\ Refresh(r, TRUE)
  <2>1. Gated(request[r])' /\ request'[r].token.kind = "jwt"
    BY <1>1, <1>3 DEF Gated, Open, Leaves
  <2>2. steady'[r] => request'[r].token.kid \in published
    BY <1>1, <1>3 DEF SteadyKeyAnswered, Waiting
  <2> QED BY <1>3, <1>5, <2>1, <2>2, FetchStep
<1>6. CASE token.kid \notin answer[r] /\ Reply(r, "kid not found", 0)
  <2>1. steady'[r] = FALSE
    BY <1>1, <1>3, <1>6 DEF SteadyKeyAnswered, TypeOK
  <2>2. Justified(r, "kid not found", 0) /\ "kid not found" \in Outcomes /\ 0 \in 0..Horizon
    BY <2>1 DEF Justified, Outcomes
  <2> QED BY <1>3, <1>6, <2>2, AnswerStep
<1> QED BY <1>4, <1>5, <1>6 DEF Install

(* Each action keeps the invariant.                                        *)
LEMMA JwksStep == JwksInv /\ [Next]_vars => JwksInv'
<1> SUFFICES ASSUME JwksInv, [Next]_vars PROVE JwksInv'
  OBVIOUS
<1>0. /\ TypeOK /\ OnlyJWTsWait /\ ReadDuringFetch /\ SteadyKeyAnswered
      /\ ServedOnCredentials /\ PublishedKeyFound
  BY DEF JwksInv
<1>1. ASSUME NEW r \in Requests, ProviderAnswers(r) PROVE JwksInv'
  <2>1. TypeOK'
    BY <1>0, <1>1 DEF TypeOK, ProviderAnswers, Waiting
  <2>2. OnlyJWTsWait'
    BY <1>0, <1>1 DEF OnlyJWTsWait, TypeOK, ProviderAnswers, Waiting, Gated, Open
  <2>3. ReadDuringFetch'
    BY <1>0, <1>1 DEF ReadDuringFetch, ProviderAnswers
  <2>4. SteadyKeyAnswered'
    BY <1>0, <1>1 DEF SteadyKeyAnswered, TypeOK, ProviderAnswers, Waiting
  <2>5. ServedOnCredentials' /\ PublishedKeyFound'
    BY <1>0, <1>1 DEF ServedOnCredentials, PublishedKeyFound, TypeOK, ProviderAnswers
  <2> QED BY <2>1, <2>2, <2>3, <2>4, <2>5 DEF JwksInv
<1>2. ASSUME NEW r \in Requests, FetchFails(r) \/ NoUsableKeys(r) PROVE JwksInv'
  <2>1. Leaves(r)
    BY <1>0, <1>2 DEF Leaves, FetchFails, NoUsableKeys, TypeOK, ReadDuringFetch
  <2>2. Reply(r, "fetch failed", 0) \/ Reply(r, "no usable keys", 0)
    BY <1>2 DEF FetchFails, NoUsableKeys
  <2>3. /\ Justified(r, "fetch failed", 0) /\ Justified(r, "no usable keys", 0)
        /\ {"fetch failed", "no usable keys"} \subseteq Outcomes /\ 0 \in 0..Horizon
    BY DEF Justified, Outcomes
  <2> QED BY <2>1, <2>2, <2>3, AnswerStep
<1>3. ASSUME NEW ks \in SUBSET Kids, Rotate(ks) PROVE JwksInv'
  <2>1. TypeOK'
    BY <1>0, <1>3 DEF TypeOK, Rotate
  <2>2. OnlyJWTsWait' /\ ReadDuringFetch' /\ ServedOnCredentials'
    BY <1>0, <1>3 DEF OnlyJWTsWait, ReadDuringFetch, ServedOnCredentials, Rotate, Gated, Open
  <2>3. \A r \in Requests : steady'[r] =>
          steady[r] /\ (pc[r] \in Waiting => request[r].token.kid \in ks)
    BY <1>0, <1>3 DEF Rotate, TypeOK
  <2>4. SteadyKeyAnswered'
    BY <1>0, <1>3, <2>3 DEF SteadyKeyAnswered, Rotate
  <2>5. PublishedKeyFound'
    BY <1>0, <1>3, <2>3 DEF PublishedKeyFound, Rotate
  <2> QED BY <2>1, <2>2, <2>4, <2>5 DEF JwksInv
<1>4. ASSUME Tick PROVE JwksInv'
  <2> USE <1>0, <1>4 DEF Tick
  <2>1. age' \in [Requests -> 0..Timeout]
    BY DEF TypeOK
  <2>2. ASSUME NEW r \in Requests PROVE answerRead'[r] <= age'[r]
    <3>1. answerRead[r] \in Nat /\ age[r] \in Nat /\ answerRead[r] <= age[r]
      BY DEF TypeOK, ReadDuringFetch
    <3> QED BY <3>1 DEF Waiting
  <2>3. answerRead' \in [Requests -> 0..Timeout]
    <3>1. ASSUME NEW r \in Requests PROVE answerRead'[r] \in 0..Timeout
      <4>1. answerRead'[r] \in Nat /\ age'[r] \in 0..Timeout
        BY <2>1 DEF TypeOK
      <4> QED BY <2>2, <4>1
    <3> QED BY <3>1
  <2>4. /\ cacheAge' \in 0..TTL /\ keysRead' \in 0..Horizon
        /\ keysRead' <= cacheAge' + Timeout
    BY DEF TypeOK, ReadDuringFetch, Older
  <2>5. TypeOK'
    BY <2>1, <2>3, <2>4 DEF TypeOK
  <2>6. OnlyJWTsWait' /\ SteadyKeyAnswered' /\ ServedOnCredentials' /\ PublishedKeyFound'
    BY DEF OnlyJWTsWait, SteadyKeyAnswered, ServedOnCredentials, PublishedKeyFound, Gated, Open
  <2>7. ReadDuringFetch'
    BY <2>2, <2>4 DEF ReadDuringFetch
  <2> QED BY <2>5, <2>6, <2>7 DEF JwksInv
<1>5. ASSUME UNCHANGED vars PROVE JwksInv'
  BY <1>0, <1>5 DEF vars, JwksInv, TypeOK, OnlyJWTsWait, ReadDuringFetch, SteadyKeyAnswered,
     ServedOnCredentials, PublishedKeyFound, Gated, Open
<1> QED BY <1>1, <1>2, <1>3, <1>4, <1>5, ArriveStep, InstallStep DEF Next, Handler

LEMMA JwksInvariance == Spec => []JwksInv
BY InitInv, JwksStep, PTL DEF Spec

(* The gate's state is of its type in every reachable state.               *)
THEOREM JwksTypeCorrect == Spec => []TypeOK
<1>1. JwksInv => TypeOK
  BY DEF JwksInv
<1> QED BY <1>1, JwksInvariance, PTL

(* The gate lets nothing through without credentials whose key was read    *)
(* within the horizon, for any number of handlers that share the cache,    *)
(* any rotation of the keys, and answers installed in any order.           *)
THEOREM NothingPassesWithoutCredentials == Spec => []ServedOnCredentials
<1>1. JwksInv => ServedOnCredentials
  BY DEF JwksInv
<1> QED BY <1>1, JwksInvariance, PTL

(* No handler refuses a key that has been published since the request      *)
(* arrived, whatever the other handlers put into the cache.                *)
THEOREM PublishedKeysAreFound == Spec => []PublishedKeyFound
<1>1. JwksInv => PublishedKeyFound
  BY DEF JwksInv
<1> QED BY <1>1, JwksInvariance, PTL
================================================================================

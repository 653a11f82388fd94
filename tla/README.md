# A TLA+ development of agentruntime-mcp-go

The repository is the Go SDK and relay of an MCP platform.  An adapter serves
MCP over HTTP and takes its configuration from a service called Control; the
relay lets MCP connectors and harness workers that cannot be reached from
outside dial in over a WebSocket and be called over HTTP.  This directory
models the parts that keep state between requests or between goroutines, and those
that decide, from several answers that may each fail, what a client gets; it
checks them with TLC and proves with TLAPS every invariant and every action
property that the runs check, for any number of sessions, requests and callers.

All paths below are relative to `src/`.

## Inventory

| Component | State it keeps | Operations | What makes it correct |
|---|---|---|---|
| Request multiplexer (`relay/multiplexer.go`) | `pending`: id to one-place channel | `Register`, `Complete`, `Wait`, `Cancel` | a channel is closed once; a request gets the first answer accepted for it or none; no id stays behind |
| Connector sessions (`relay/server.go` `handleMCPConnect`, `relay/hub.go`) | `Hub.mcp`, `Conn.LastSeen` | connect, greet, read, unregister; `Touch` | the map leads to live sessions; nobody vanishes without a report to Control |
| Heartbeat (`relay/heartbeat.go`) | none of its own | `sweepStale`, `pingAll` every 30 s | silent sessions are evicted; pings do no harm |
| MCP forward (`handleMCPForward`, `dispatchMCPInbound`) | a handler's session and id | look up, register, send, wait | the answer comes over the session of the request; a forward always ends |
| Harness workers (`handleHarness*`, `relay/hub.go`) | `Hub.harness`, `harnessByUser`, `ActiveJobs` | connect, register capabilities, pick, run, complete, unregister | the load is the number of open runs; the two maps agree |
| Config cache (`config_cache.go`, `control.go`) | `configCache`, `configFlight` | look up, fetch with retries, put | no needless fetch, bounded staleness, own config only, bounded time |
| OAuth gate (`oauth_middleware.go`, `oauth_jwt.go`) | `jwtVerifier.keys`, `cachedAt` | `Verify`, `getKeys`, `refreshKeys` | a published key is found, a retired one expires, every request is answered |
| Config middleware (`middleware.go`, `env_config.go`) | none | decide between Control and environment, merge | environment wins; required keys are there or the request is refused |
| Start-up (`router.go`, `runtime.go`, `adapter.go`, `tooldef.go`, `addtool.go`, `registration.go`) | `registry` of constructors, `toolRegistry`, the mux | construct, prepare, `Register`, `AddTool`, mount, listen | all adapters or none; each on its own server; what is held is recorded and not served |
| Gateways (`bridge.go`, `bridge_auth.go`, `composio.go`, `proxy.go`) | none that outlives a request | ask Control, make headers, post, translate the answer | nothing goes upstream that Control did not admit; the client gets upstream's answer under its own id |
| Inbound routes (`adapter_route.go`, `webhook.go`) | none | look up a route, fan out | every target is tried once, with a key of its own |
| Everything else | none that outlives a request | see `components` in `PROJECT.json` | |

How they interact.  A client's POST enters `handleMCPForward`, which takes a
`Conn` from the hub under its lock and from then on works on that `Conn`
without it: registers an id in the session's multiplexer, writes a frame to the
socket, waits on a channel.  The goroutine of the session, blocked in
`ReadMessage`, dispatches the answer into the multiplexer.  The heartbeat
goroutine evicts sessions from the hub and writes pings to the same sockets.
Connect, disconnect and eviction are told to Control by goroutines of their own.
Harness runs use the hub the same way, without waiting for an answer: the
worker's completion is a frame of its own that lowers `ActiveJobs`.  The config
cache and the key cache are shared by the handlers of an adapter and talk to
Control and to the identity provider with their locks released.  The bridge and
the Composio executor ask Control for each request, past that cache.  At
start-up adapters are constructed in the order of a map and register one after
another, on servers of their own but through one registry of tools.

The hard parts are therefore the gaps between a lock and the use of what was
read under it, sessions that replace one another under one id, writers that
share a socket, and answers that are late, lost or overtaken.
`PROJECT.json` lists them under `hazards`, each at its line.

## Modules

| Module | Models | Extends / uses |
|---|---|---|
| `ReplyOnce` | what the multiplexer promises: a slot per request, answered or revoked once | |
| `RequestMux` | `multiplexer.go` and its caller, each critical section and each channel operation a step | instantiates `ReplyOnce` |
| `McpSessions` | `handleMCPConnect`, `Hub.mcp`, heartbeat, Control callbacks | |
| `McpRelay` | forwards and answers over these sessions | extends `McpSessions`; the multiplexer in the form of `ReplyOnce`, which it instantiates for all sessions together |
| `HarnessRelay` | harness sessions, capabilities, pick, run, completion, sweep | |
| `ConfigCache` | `fetchControlConfigCached` and the retries, with time | |
| `JwksCache` | `OAuthMiddleware`, `Verify` and the key cache, with time | |
| `ConfigGate` | `Middleware`, `env_config.go`, the outcome of `fetchControlPayload` | an answer of Control is what `ConfigCache` returns |
| `Gateways` | the bridge, the Composio executor and the overlay proxy, from a request to its answer | extends `ConfigGate`: the endpoints of one router, and of a proxy |
| `AdapterStartup` | `RunWithRouter` and `RunWithRegistry`, `AddTool` and the registry of tools | what it puts behind the routes is `ConfigGate` and `JwksCache` |
| `InboundFanOut` | route lookup, fan-out, `DeliverModeB`, and a vendor that retries | |
| `MC*` | small instances for TLC | extend the module they name |
| `*Proofs` | theorems | extend the module they name, and `TLAPS` |

Correspondence.  Program counters (`pc`, `fpc`, `rpc`, `stage`) name the
statement a goroutine is at; the maps of the hub are functions with `None` for
an absent entry; a mutex is not a variable: what the code does under one lock
is one step.  A `Send` is a step that begins the write and one that ends it, so
that two writers can meet.  `gorilla/websocket` allows one writer: the second
one panics, or slips past the unsynchronised check and breaks the stream; both
are modelled.  A panic in an HTTP handler ends that handler (net/http recovers
it), one in the heartbeat goroutine ends the process (`crashed`).

A faulty version of a definition is kept next to it, marked `Fault:`; no
specification uses it.  It shows what a property rules out: with the fault in
the definition's place, TLC finds the property violated.

Abstractions, by module:

* `RequestMux`: a handler, its UUID and its channel are one value.  Two readers
  stand for the one read loop of a session, so `Complete` calls may overlap,
  which the code's mutex is written for and its one caller does not need.
* `McpSessions`: `LastSeen` is an age in ticks of the heartbeat, and
  `StaleTicks` is how many ticks a session may be silent.
  Pings to workers and to connectors are alike; the workers' are left out.
* `McpRelay`: the delivery of callbacks is left to `McpSessions`.
* `HarnessRelay`: any set of sessions may have been silent long enough at a
  sweep.  `raced` is a history variable.
* `ConfigCache`: keys are tuples of what the code hashes; time is counted in
  units.  The default wait, `1 << n`, is computed without a width (`Shifted`).
* `ConfigGate`: names of the environment are pairs of a prefix (`AR_` or none,
  "plain") and a key in lower case; a method is one that needs the config or not; values are not
  trimmed.  What a key's type says is never read by the code.
* `Gateways`: a request stays at one endpoint, since requests share nothing.
  What `EqualFold`, upper case and trimming do to names is given by `Fold`,
  `DefaultSlug` and `Blank`; the arguments of a call are left out.  `posted`,
  `payload` and `outcome` stay readable until the next request.
* `AdapterStartup`: an adapter is its name and the number of its construction;
  what its `Register` does is any sequence of at most `MaxOps` registrations.
  The two patterns of a mount point (`/x/mcp`, `/x/mcp/`) are one path.
* `InboundFanOut`: keys are pairs of delivery and subscription; the BFF is
  external and takes a payload once for a key.  A 4xx counts as an answer, as
  in the code: after a 429 the vendor is told that all is well.  `posts` is a
  history variable.
* `JwksCache`: a request is a place (the metadata document, outside of the
  mount, a preflight, the handshake, a call) and a token; `steady`, `lag`, `keysRead` and `answerRead` are history
  variables; nothing reads them but the properties.

## Runs

| Run | Asks | Instance and why it is enough |
|---|---|---|
| `mux` | is the channel protocol right under every interleaving, and does it implement `ReplyOnce`? | two forwards, two readers, two bodies: two answers for one id, an answer for a finished id, and a timeout between the two halves of `Complete` all occur |
| `sessions` | what do the hub and Control see of an instance that reconnects? | two sessions of one instance (replacement needs two), a forward that may occupy the socket, sweeps, blocking pings |
| `reconnect` | can a live session be missing from the hub? It can (finding). | as `sessions` |
| `control` | does Control end up with the truth? It need not (finding). | as `sessions`, callbacks always delivered |
| `relay` | what becomes of forwards when sessions are replaced, evicted or end? | two sessions of one instance and a forward, which pings and greetings may block or break |
| `crash` | does a ping leave the relay running? Not always (finding). | as `relay` |
| `harness` | is the load that the picker reads right, do the maps agree, and when is a limit exceeded? | two workers of one user, so that the user's entry is contested, two runs; the first worker may have a second session or the second worker its one (`MCSessionBound`: all three at once are beyond 300 s); capabilities that raise, lower and leave out a limit |
| `config` | is the cache fresh, one's own, and are calls bounded? | three callers, two of which share a key, and one without a token, which shares nothing and runs by itself (`MCAlone`); lifetime 2, budget 3, fetch 1; Retry-After values below and above the budget |
| `jwks` | what do rotations and overtaking refreshes do to verification, and what needs none? | two handlers that are reused, two keys, lifetime 2, fetch limit 1: a refresh may be read before another and installed after it; both settings of `RequireAuthOnConnect` |
| `gateways` | who is refused and how, what is posted upstream, and what comes back? | two keys, one of which may be missing; up to two variables, which suffices for a clash of two names; three tools, two of which differ in case only; mappings of every form, two of one header among them; all kinds of answers and statuses.  `MCOneEndpoint`: what only an adapter looks at varies for adapters only |
| `fanout` | does a subscription get a delivery once, and when is the vendor told so? | two attempts of one delivery and one without an id, two subscriptions, five routes, of which three are unusable |
| `startup` | what is on which server, in the hold lists and behind which route once a process listens? | two adapters and a name without a constructor, in every order, one of them twice; two tools, a key, two registrations for each adapter (`MaxOps`), so that a tool can be registered with and without hold; a free path, a gateway's and the two mounts |

Deadlock checking is off where all actors of the instance finish (sessions and
forwards are used once, a process has started or failed to).  It is on for
`config`, `jwks`, `gateways` and `fanout`, where a request or an edit of the
route may always come.

Times are scaled down: in the code an entry lives 30 to 120 s against fetches
of a few seconds and a budget of 30 s, keys five minutes against five seconds,
and a session may miss three pings.  The properties depend on the order of
these times only.

`IInv` and `ReplyKept` of `RequestMux`, `PendingDrained` and
`ForwardsImplementReplyOnce` of `McpRelay` are in no run: they are proved.
What a client could notice of the first two is in `NoPanic` and
`ImplementsReplyOnce`; the last two hold on the instance of `relay`, too.

### Findings

* `reconnect`: `UnregisterMCP` deletes by id.  The deferred function of a
  replaced session removes its successor, which stays connected and cannot be
  reached until it connects again.  `UnregisterHarness` has the same form.
* `control`: `connected` and `disconnect` are posted by unordered goroutines.
* `crash`: `pingAll` writes concurrently with forwards and greetings.

What else was met, and no run is spent on:

* A bridge answers a notification with an error, since upstream's 202 is not
  200 (`bridge.go:166`); `AnswersAreUpstreams` allows it.  The same property
  names the errors that become empty results (`bridge.go:87`, `proxy.go:111`,
  `composio.go:295`).
* Composio's `tools/list` is not filtered by the allowlist: a client may be
  shown a tool that it cannot call (`composio.go:88`, `:180`).
* `bridge_auth.go:49` says that empty config values are skipped; they are an
  error (`:69`).  The model does as the code.
* `tooldef.go:58`: `RegisteredTools` returns all tools only of the adapter that
  a router has prepared last, and of all adapters under `RunWithRegistry`.
* `RELEASE_v0.3.2.md:10` keeps held tools on the server, `addtool.go:15` does
  not; `RELEASE_v0.3.4.md:7` has `RunWithRegistry` use
  `PrepareAdapterRegistration`, which it does not (`runtime.go:40`).

## Fairness

* `RequestMux`: a handler whose `Send` has returned goes on, and its timer
  fires.  Nothing is assumed of a `Send`, which has no deadline, nor of peers.
* `McpSessions`: time passes, the heartbeat goroutine runs, handlers between
  two statements go on, callbacks end by their HTTP client's limit of 15 s.
  `SilentEvicted` has "pings keep returning" as its premise, since a ping to a
  full socket buffer blocks the goroutine, and evictions with it, for good.
* `McpRelay`: a waiting handler takes its answer or times out.
* `ConfigCache`, `JwksCache`: time diverges.  A `Tick` waits for everything
  that takes no time and for fetches at their limit, so this says that HTTP
  clients honour their timeouts and the scheduler runs what is ready.
  Besides, in `ConfigCache` a caller that has missed gets to enter the flight.
* `HarnessRelay`, `Gateways`, `InboundFanOut` and `AdapterStartup` have safety
  properties only: the code sets most of their calls no deadline.

## Theorems

For every number of sessions, requests, readers, callers, workers, runs,
adapters and attempts.  Every safety invariant and action property of a run is
among them.  An invariant is proved from one that implies it and is inductive, action
by action.

* `RequestMuxProofs`.  `NoPanic` is not inductive by itself: that a channel is
  not closed twice depends on who holds it.  `IInv` says that a registered id
  is untouched (open, empty, held by nobody), an unregistered one has at most
  one holder (a reader between claim and close, or the handler in `Cancel`),
  and a waiting handler whose id is gone will be fed.  From it: `TypeCorrect`,
  `NeverPanics`, `AnswersKept`, `TimeoutsAreReal`, `NothingLeftPending`, and
  `Refinement`, that the multiplexer implements `ReplyOnce`.  A slot is settled
  in the critical section that removes the id; the answer is then found in the
  reader, in the buffer or in the handler.
* `McpRelayProofs`.  Of the sessions `SessionTypeCorrect`, `NoGhosts`,
  `VanishedAreReported`, and `EndsStayFinal`, an action property: it needs that
  a callback is posted only once the session is at the stage that posts it
  (`ReportsInOrder`).  The same invariant under composition (`RelayNoGhosts`),
  and `AnswersKeepTheirSession` and `PendingIsDrained`, from the coherence of a
  forward's place, session and id.  `ForwardsAnswerOnce` is the refinement of
  the composition: its forwards, over all sessions, implement `ReplyOnce`.  It
  needs that a forward which has registered and has not given up has its id in
  the map or its answer (`OpenOrAnswered`); a session's steps are stutters.
* `HarnessRelayProofs`.  `HarnessTypeCorrect`, `NoGhostWorkers`,
  `UserIndexStaysSound`; the last needs that an entry's worker is present
  whenever its user's key points at it, and that a sweep or an end clears the
  key together with the worker.  `LoadStaysSound`: the load of a worker against
  the number of its open runs, a cardinality.  It needs `RunsInOrder`, that a
  run's worker is chosen before it is counted and that a completion comes only
  after a frame; every step then adds or removes at most one open run, and the
  load follows it, or is clamped, or starts again.  `LimitsAreKept`: of a worker
  without a race at most one run is chosen and not counted yet, and there is
  room for it (`PicksVetted`); whatever lowers the load or starts it again keeps
  that room.
* `ConfigCacheProofs`.  `NothingFetchedTwice`, `ConfigsAreOwn` and
  `StalenessIsBounded`, from `CacheInv`: whoever fetches or sleeps leads the
  flight of its key, nobody does while the entry is fresh, what is in the cache
  and in a result was made for the key, and no entry outlives its lifetime.
  `ConfigTypes` and `CallsWithinBudget`, from `TimeInv`: what a caller has
  waited and may still sleep stays within the budget, but for one fetch
  (`Spending`), and one that joins a flight has not waited longer than its
  leader (`Flights`).  That a caller
  cannot retry more often than its budget has units needs that a wait is never
  zero, hence that the doubling function `Shifted` is defined on all of `Nat`
  and positive (`ShiftedIsDefined`, `ShiftedIsPositive`).
* `JwksCacheProofs`.  `JwksTypeCorrect`, `NothingPassesWithoutCredentials` and
  `PublishedKeysAreFound`, from `JwksInv`: an answer was read during the fetch
  that it answers, so a key is installed at most `Timeout` after it was read
  and used at most `TTL` after that; and the answer to a fetch whose token's
  key was published all the while holds that key.
* `GatewaysProofs`.  `RouterTypes`, `RefusalsAreDue`, `EnvironmentOverControl`,
  `PostsAreAdmitted` and `AnswersPassedOn`, from `RouterInv`: what is known at
  each stage of a request, of the gate (`GateInv`: which answer of Control was
  merged, what a refusal rests on) and of the gateways (`GatewayInv`: for whom
  Control was asked, whose id a post carries).  They
  rest on lemmas about the operators: that a config laid over another is a
  config again (`PartialFunction`), that of several headers with one name the
  last counts, that a list of tools keeps its names when it is merged.
* `InboundFanOutProofs`.  `FanOutTypes`, `DeliveredOnce` and
  `ReturnsAccountForAll`, from `IInv`: the posts of an attempt are a prefix of
  the targets it has looked up (`InOrder`), and as long as it has noted no error
  each of them was taken or refused by the BFF (`AccountedFor`).
* `AdapterStartupProofs`.  `StartTypes`, `HeldToolsOffTheWire`, `ServersAreOwn`
  and `ListensWithAll`, from `IInv`: the queue is the rest of what was asked
  (`QueueIsRest`), how often each adapter has been built (`BuiltSoFar`), the
  registry lists without hold what is on the server in use (`RegistryIsWire`),
  only an adapter's first construction writes to its server (`FirstWrites`),
  and what is mounted stays (`Mounted`).  `ListensWithAll` takes a fact of
  finite sets: an order of the adapters without repetition, as long as there
  are adapters, leaves none out.

Assumptions are the named `ASSUME`s on the constants in each module; TLC
evaluates them on every run.  They say that times and limits are positive,
that tables (`ContextOf`, `WorkerOf`, `MountOf`, `Fold`, ...) have the domains
their Go types give them, that lists are lists, that runs and adapters are
finitely many, as the requests a process has got and the keys of a Go map are,
and that `None`, which stands for an absent value, is none of the values.

Induction.  The library's induction theorems take an operator as a parameter,
which no installed prover instantiates.  `LeastNatural` (`GatewaysProofs`,
`ConfigCacheProofs`) stands in for them where the statement can be made of a
set: a set of naturals that is not empty has a least element, by the
well-foundedness of `<`, and a least counterexample is led to a contradiction.

Only model-checked: liveness (`ForwardEnds`, `SilentEvicted`,
`OrphanedForwardsTimeOut`, `CallsReturn`, `VerifyReturns`), since TLAPS does
not reason about fairness and `ENABLED`.

## Not modelled

* The delivery of the orchestrator's callbacks (`relay/callback.go`): nothing in
  the relay reads how they end, and nothing reads that they do.
* The worker's `LastSeen` and the pings to it: the same code as for connectors,
  which `McpSessions` models; here any worker may be silent at any sweep.
* OAuth's metadata document and challenge header, identity headers, errors,
  logging, tracing: wording, without a decision that another part takes up.
* `inbound_vendor_admin.go`: helpers for handlers that adapters write; one call to
  Control per operation, nothing kept between two.
* `toolorg`, `toolschema`, `connectortest`: pure functions and test helpers that
  connectors and their catalogs use; no state, nothing concurrent.
* `env.go`, `relay/env.go`: environment variables read once at start-up.
* The arithmetic of the default wait with 64 bits (`config_cache.go:245`).
  `ConfigTypes` bounds the attempts by the units of the budget.
* `go-sdk`'s MCP server behind the middleware and `gorilla/websocket` are
  external; the one rule of the latter that matters, a single writer, is there.

## Plan

1. Done: all modules above, their runs and theorems.
2. Worth adding: an abstract session directory (an instance is reachable
   through at most one live session) that `McpSessions` and `HarnessRelay`
   share, with refinement where it holds; the callbacks of the orchestrator
   beside the release of a slot.
3. Proofs: of that directory's refinement; of the invariants of `McpSessions`
   and `HarnessRelay` that their common parts share, as lemmas of one module.

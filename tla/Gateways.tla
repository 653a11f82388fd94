------------------------------- MODULE Gateways --------------------------------
(***************************************************************************)
(* The MCP endpoints that have no tools of their own: the bridge and the   *)
(* Composio executor, which the router serves beside the adapters of       *)
(* ConfigGate, and the overlay proxy, which is a process by itself.  The   *)
(* first two ask Control for every request, past the cache; all three make *)
(* one call upstream and turn its outcome into a JSON-RPC answer.          *)
(*                                                                         *)
(* Requests share no state, so a behaviour stays at one endpoint.  Letter  *)
(* case and surrounding white space are abstracted into Fold, DefaultSlug  *)
(* and Blank; an id is "client" for the one of the client's message and    *)
(* "own" for those that the proxy puts into messages it makes itself.      *)
(***************************************************************************)
EXTENDS ConfigGate

CONSTANTS
  Names,          \* of tools
  Fold,           \* what strings.EqualFold looks at of a name
  Slugs,          \* Composio's names
  DefaultSlug,    \* a tool's name in capitals, - replaced by _
  Headers,        \* of upstream requests
  Authorization,  \* the header of a bearer token
  ApiKey, UserId, \* the config keys composio_api_key and composio_user_id
  Payloads,       \* what Control may resolve for a gateway
  Overlays,       \* names in the overlay file, {} if it cannot be read
  UpstreamLists   \* the tools that upstream may list

Mappings == [type : {"bearer", "header", "other"},
             name : Headers \cup {None}, from : Keys \cup {None}]

Bridges == [url : BOOLEAN, auth : Mappings \cup {None}, headers : Seq(Mappings)]

Composios == [toolkit : BOOLEAN, allowlist : SUBSET Slugs,
              published : Seq([name : Names, slug : Slugs \cup {None}])]

ASSUME NamesAssumption ==
  /\ DefaultSlug \in [Names -> Slugs] /\ Names \subseteq DOMAIN Fold
  /\ None \notin Names \cup Slugs \cup Headers \cup Keys
  /\ Authorization \in Headers /\ ApiKey \in Keys /\ UserId \in Keys

ASSUME PayloadsAssumption ==
  \A p \in Payloads :
    /\ DOMAIN p = {"config", "bridge", "composio"}
    /\ p.config \in Partial(Keys, ControlValues \cup {Blank})
    /\ p.bridge = None \/ p.bridge \in Bridges
    /\ p.composio = None \/ p.composio \in Composios

ASSUME ListsAssumption ==
  Overlays \subseteq SUBSET Names /\ UpstreamLists \subseteq Seq(Names)

VARIABLES
  endpoint,  \* which handler the requests are for
  message,   \* the request being handled
  gpc,
  asked,     \* the tool_name that Control was asked about
  payload,   \* what Control resolved for this message, or None
  posted,    \* the call that this message has caused upstream, or None
  outcome,   \* what upstream made of it, and the tools that it listed
  reply      \* what the client gets

gatewayVars == <<endpoint, message, gpc, asked, payload, posted, outcome, reply>>
routerVars == <<vars, gatewayVars>>

(* schema: GET <mount>/config/schema; other: any other HTTP method; broken:*)
(* a body that is no JSON.  header: X-Tool-Name or X-MCP-Tool-Name.        *)
Messages ==
       [method : {"schema", "other", "broken"}, tool : {None}, header : {None}]
  \cup [method : {"initialize", "ping", "list", "unknown"}, tool : {None},
        header : Names \cup {None}]
  \cup [method : {"call"}, tool : Names \cup {None}, header : Names \cup {None}]

(* down: no answer; status: none of the expected ones, a 202 for a         *)
(* notification included; broken: no JSON, as an event stream is; done and *)
(* failed: as the caller wishes or not; unsaid: a JSON-RPC error, or in    *)
(* Composio's case no success and no error text.                           *)
Outcomes == {"down", "status", "broken", "done", "failed", "unsaid"}

Shown == [name : Names, overlaid : BOOLEAN]

Posts == [id : {"client", "own"}, tool : Names \cup Slugs \cup {None},
          headers : Partial(Headers, ControlValues)]

Replies == [kind : {"result", "toolError", "error", "http"}, id : {"client", "own", None},
            tools : Seq(Shown)]

ASSUME PostsAssumption == None \notin Posts

Nothing == [config |-> << >>, bridge |-> None, composio |-> None]

GatewayTypeOK ==
  /\ endpoint \in {"adapter", "bridge", "composio", "overlay"}
  /\ message \in Messages \cup {None}
  /\ gpc \in {"idle", "received", "resolved", "posted", "done"}
  /\ asked \in Names \cup {None}
  /\ payload \in Payloads \cup {Nothing, None}
  /\ posted \in Posts \cup {None}
  /\ outcome \in [kind : Outcomes, tools : Seq(Names)] \cup {None}
  /\ reply \in Replies \cup {None}

RouterTypeOK == TypeOK /\ GatewayTypeOK

GatewayInit ==
  /\ endpoint \in {"adapter", "bridge", "composio", "overlay"}
  /\ message = None /\ gpc = "idle" /\ asked = None
  /\ payload = None /\ posted = None /\ outcome = None /\ reply = None

--------------------------------------------------------------------------------
(* bridge_auth.go                                                          *)

Value(p, k) == IF k \in DOMAIN p.config THEN p.config[k] ELSE Blank

Supplied(p, m) == m.from # None /\ Value(p, m.from) # Blank

AuthApplies(p, m) ==
  m = None \/ (Supplied(p, m) /\ (m.type = "bearer" \/ (m.type = "header" /\ m.name # None)))

(* Fault: a header whose config value is missing is left out.              *)
HeadersApplyLoosely(p) ==
  \A i \in DOMAIN p.bridge.headers : p.bridge.headers[i].name # None

HeadersApply(p) ==
  \A i \in DOMAIN p.bridge.headers :
    p.bridge.headers[i].name # None /\ Supplied(p, p.bridge.headers[i])

AuthHeaders(p) ==
  LET m == p.bridge.auth
  IN  IF m = None THEN << >>
      ELSE [h \in {IF m.type = "bearer" THEN Authorization ELSE m.name} |-> Value(p, m.from)]

MappedHeaders(p) ==
  LET ms == p.bridge.headers
      last(h) == Max({i \in DOMAIN ms : ms[i].name = h})
  IN  [h \in {ms[i].name : i \in DOMAIN ms} |-> Value(p, ms[last(h)].from)]

BridgeHeaders(p) == Over(MappedHeaders(p), AuthHeaders(p))

--------------------------------------------------------------------------------
(* composio.go                                                             *)

SlugForTool(c, n) ==
  LET slugged == {i \in DOMAIN c.published :
                    Fold[c.published[i].name] = Fold[n] /\ c.published[i].slug # None}
  IN  IF slugged = {} THEN DefaultSlug[n] ELSE c.published[Min(slugged)].slug

Allowlisted(c, s) == c.allowlist = {} \/ s \in c.allowlist

(* Fault: the allowlist is looked up under the tool's own name.            *)
ComposioAdmitsByName(p, n) ==
  /\ n # None /\ Allowlisted(p.composio, DefaultSlug[n])
  /\ Value(p, ApiKey) # Blank /\ Value(p, UserId) # Blank

ComposioAdmits(p, n) ==
  /\ n # None /\ Allowlisted(p.composio, SlugForTool(p.composio, n))
  /\ Value(p, ApiKey) # Blank /\ Value(p, UserId) # Blank

PublishedTools(c) ==
  [i \in DOMAIN c.published |-> [name |-> c.published[i].name, overlaid |-> FALSE]]

--------------------------------------------------------------------------------
(* proxy.go: the overlay describes tools of upstream anew and adds none.   *)

(* Fault: a tool that the overlay does not name is not listed.             *)
MergeToolsNamed(tools, overlay) ==
  LET named == SelectSeq(tools, LAMBDA n : n \in overlay)
  IN  [i \in DOMAIN named |-> [name |-> named[i], overlaid |-> TRUE]]

MergeTools(tools, overlay) ==
  [i \in DOMAIN tools |-> [name |-> tools[i], overlaid |-> tools[i] \in overlay]]

--------------------------------------------------------------------------------
(* What all three have in common.                                          *)

Answer(kind, id, tools) ==
  /\ gpc' = "done"
  /\ reply' = [kind |-> kind, id |-> id, tools |-> tools]

Post(id, tool, headers) ==
  /\ gpc' = "posted"
  /\ posted' = [id |-> id, tool |-> tool, headers |-> headers]
  /\ UNCHANGED reply

Receive(m) ==
  /\ gpc \in {"idle", "done"}
  /\ message' = m /\ gpc' = "received" /\ asked' = None
  /\ payload' = None /\ posted' = None /\ outcome' = None /\ reply' = None
  /\ UNCHANGED endpoint

(* Answers that need nobody: a wrong HTTP method, a body that is no JSON,  *)
(* the proxy's empty schema, Composio's handshake.                         *)
AnswerAlone ==
  /\ gpc = "received"
  /\ \/ message.method = "other" /\ Answer("http", None, << >>)
     \/ message.method = "broken" /\ Answer("error", None, << >>)
     \/ message.method = "schema" /\ endpoint = "overlay" /\ Answer("http", None, << >>)
     \/ /\ message.method \in {"initialize", "ping"} /\ endpoint = "composio"
        /\ Answer("result", "client", << >>)
  /\ UNCHANGED <<endpoint, message, asked, payload, posted, outcome>>

AsksControl ==
  \/ endpoint = "bridge" /\ message.method \notin {"other", "broken"}
  \/ endpoint = "composio" /\ message.method \in {"schema", "list", "call", "unknown"}

(* Fault: Control is asked about the tool of the header only.              *)
ToolAskedByHeader == message.header

(* runtime_context.tool_name: the tool of a call, or that of the header.   *)
ToolAsked ==
  IF message.method = "call" /\ message.tool # None THEN message.tool ELSE message.header

(* fetchControlPayload.  Without a Control URL nobody is asked.            *)
ControlGives(p) ==
  /\ gpc = "received" /\ AsksControl
  /\ p \in IF settings.controlBase THEN Payloads ELSE {Nothing}
  /\ payload' = p /\ asked' = ToolAsked
  /\ gpc' = "resolved"
  /\ UNCHANGED <<endpoint, message, posted, outcome, reply>>

ControlRefuses ==
  /\ gpc = "received" /\ AsksControl /\ settings.controlBase
  /\ asked' = ToolAsked
  /\ \/ message.method = "schema" /\ Answer("http", None, << >>)
     \/ message.method # "schema" /\ Answer("error", "client", << >>)
  /\ UNCHANGED <<endpoint, message, payload, posted, outcome>>

(* serveBridgeSchema, serveComposioSchema.                                 *)
AnswerSchema ==
  /\ gpc = "resolved" /\ message.method = "schema"
  /\ Answer("http", None, << >>)
  /\ UNCHANGED <<endpoint, message, asked, payload, posted, outcome>>

--------------------------------------------------------------------------------
(* What each does with a payload.                                          *)

(* The message goes upstream as it is.                                     *)
BridgePosts ==
  /\ gpc = "resolved" /\ endpoint = "bridge" /\ message.method # "schema"
  /\ IF payload.bridge # None /\ payload.bridge.url
          /\ AuthApplies(payload, payload.bridge.auth) /\ HeadersApply(payload)
       THEN Post("client", message.tool, BridgeHeaders(payload)) ELSE
            Answer("error", "client", << >>) /\ UNCHANGED posted
  /\ UNCHANGED <<endpoint, message, asked, payload, outcome>>

ComposioConfigured == payload.composio # None /\ payload.composio.toolkit

ComposioAnswers ==
  /\ gpc = "resolved" /\ endpoint = "composio"
  /\ \/ /\ message.method = "list" /\ ComposioConfigured
        /\ Answer("result", "client", PublishedTools(payload.composio))
     \/ /\ message.method = "call" /\ ComposioConfigured
        /\ ~ComposioAdmits(payload, message.tool)
        /\ Answer("error", "client", << >>)
     \/ /\ message.method = "unknown" \/ (message.method # "schema" /\ ~ComposioConfigured)
        /\ Answer("error", "client", << >>)
  /\ UNCHANGED <<endpoint, message, asked, payload, posted, outcome>>

ComposioExecutes ==
  /\ gpc = "resolved" /\ endpoint = "composio"
  /\ message.method = "call" /\ ComposioConfigured /\ ComposioAdmits(payload, message.tool)
  /\ Post("client", SlugForTool(payload.composio, message.tool), << >>)
  /\ UNCHANGED <<endpoint, message, asked, payload, outcome>>

(* The proxy makes messages of its own for the two methods it intercepts.  *)
ProxyPosts ==
  /\ gpc = "received" /\ endpoint = "overlay"
  /\ message.method \notin {"schema", "other", "broken"}
  /\ Post(IF message.method \in {"list", "call"} THEN "own" ELSE "client",
          message.tool, << >>)
  /\ UNCHANGED <<endpoint, message, asked, payload, outcome>>

--------------------------------------------------------------------------------
(* What upstream's outcome becomes.                                        *)

Intercepted == message.method \in {"list", "call"}

(* Fault: an answer is passed on with the id that it came with.            *)
ReplyIdUpstream == posted.id

(* Intercepted methods are answered under the client's id; the others get  *)
(* upstream's answer, to the id of the message as it was posted.           *)
ReplyId == IF Intercepted THEN "client" ELSE posted.id

(* Fault: what upstream says of the outcome is not looked at.              *)
ReplyKindHopeful(a) == IF a \in {"down", "status", "broken"} THEN "error" ELSE "result"

(* Of an intercepted answer only "result" is looked at, and a missing one  *)
(* is taken for an empty one; Composio's failure counts when it has a text.*)
ReplyKind(a) ==
  CASE a \in {"down", "status", "broken"} -> "error"
    [] a = "done" -> "result"
    [] a = "failed" -> "toolError"
    [] a = "unsaid" -> IF Intercepted THEN "result" ELSE "error"

(* tools: what upstream lists, if it was asked to and does.  Only a call   *)
(* can have a result that says that it failed.                            *)
UpstreamEnds(a, tools, overlay) ==
  /\ gpc = "posted"
  /\ tools # << >> => a = "done" /\ message.method = "list"
  /\ a = "failed" => message.method = "call"
  /\ outcome' = [kind |-> a, tools |-> tools]
  /\ Answer(ReplyKind(a), IF ReplyKind(a) = "error" THEN "client" ELSE ReplyId,
            MergeTools(tools, IF endpoint = "overlay" THEN overlay ELSE {}))
  /\ UNCHANGED <<endpoint, message, asked, payload, posted>>

Gateway ==
  \/ \E m \in Messages : Receive(m)
  \/ AnswerAlone
  \/ \E p \in Payloads \cup {Nothing} : ControlGives(p)
  \/ ControlRefuses \/ AnswerSchema
  \/ BridgePosts \/ ComposioAnswers \/ ComposioExecutes \/ ProxyPosts
  \/ \E a \in Outcomes, tools \in UpstreamLists \cup {<< >>}, overlay \in Overlays :
       UpstreamEnds(a, tools, overlay)

RouterNext ==
  \/ endpoint = "adapter" /\ Next /\ UNCHANGED gatewayVars
  \/ endpoint # "adapter" /\ Gateway /\ UNCHANGED vars

RouterInit == Init /\ GatewayInit

RouterSpec == RouterInit /\ [][RouterNext]_routerVars

--------------------------------------------------------------------------------
(* Properties.                                                             *)

(* A header of the bridge, and the config value it stands for: a mapping   *)
(* of header_mappings, the last of its name, or else the auth_mapping.     *)
Maps(p, h, v) ==
  LET ms == p.bridge.headers
      named == {i \in DOMAIN ms : ms[i].name = h}
  IN  IF named = {}
      THEN /\ p.bridge.auth # None /\ v = Value(p, p.bridge.auth.from)
           /\ h = IF p.bridge.auth.type = "bearer" THEN Authorization ELSE p.bridge.auth.name
      ELSE \E i \in named : (\A j \in named : j <= i) /\ v = Value(p, ms[i].from)

(* Nothing goes upstream before Control has resolved this very message and *)
(* tool, with a URL, every header that the metadata maps and no other, none*)
(* of them blank, or (Composio) a slug of the allowlist, if there is one,  *)
(* and both credentials.  bridge.go and composio.go read one payload in    *)
(* several steps, each with its own way out.                               *)
PostedAsAdmitted ==
  posted # None /\ endpoint # "overlay" =>
    /\ settings.controlBase /\ payload \in Payloads
    /\ message.method = "call" /\ message.tool # None => asked = message.tool
    /\ endpoint = "bridge" =>
         /\ payload.bridge.url
         /\ \A h \in DOMAIN posted.headers :
              posted.headers[h] # Blank /\ Maps(payload, h, posted.headers[h])
         /\ \A i \in DOMAIN payload.bridge.headers :
              payload.bridge.headers[i].name \in DOMAIN posted.headers
         /\ payload.bridge.auth # None => posted.headers # << >>
    /\ endpoint = "composio" =>
         /\ payload.composio.allowlist # {} => posted.tool \in payload.composio.allowlist
         /\ \A k \in {ApiKey, UserId} : k \in DOMAIN payload.config /\ payload.config[k] # Blank

(* A client that gets the result of a call or a list gets upstream's, with *)
(* every tool that was listed, in order.  The one exception is an error    *)
(* that upstream reports inside of an answer with status 200: it becomes   *)
(* an empty result (bridge.go:87, :98, proxy.go:111, :255), and Composio's *)
(* failure without a text a success (composio.go:295).                     *)
ResultsAreUpstreams ==
  reply # None /\ Intercepted /\ reply.kind # "error" =>
    /\ message.method = "call" \/ endpoint # "composio" => posted # None
    /\ posted # None =>
         /\ outcome.kind \in {"done", "failed", "unsaid"}
         /\ reply.kind = "toolError" <=> outcome.kind = "failed"
         /\ [i \in DOMAIN reply.tools |-> reply.tools[i].name] = outcome.tools

(* Whatever went wrong where, an answer to a message carries the id of the *)
(* message, never one of those that the proxy makes up for its own posts.  *)
OwnIdsStayInside ==
  reply # None =>
    reply.id = IF message.method \in {"schema", "other", "broken"} THEN None ELSE "client"

(* What a client gets is upstream's answer, and an answer to the client.   *)
AnswersAreUpstreams == ResultsAreUpstreams /\ OwnIdsStayInside
================================================================================

----------------------------- MODULE AdapterStartup -----------------------------
(***************************************************************************)
(* How a process with adapters starts: RunWithRouter, which gives every    *)
(* registered adapter a server and a route of its own, and RunWithRegistry,*)
(* which puts the adapters that are asked for on one server.  An adapter's *)
(* Register function adds tools and config keys; the tools also go to the  *)
(* one registry of the process, from which the hold lists are read.        *)
(*                                                                         *)
(* A constructed adapter is a pair of its name and the number of times the *)
(* name has been constructed.  Nobody recovers a panic of the start.       *)
(***************************************************************************)
EXTENDS Naturals, Sequences, FiniteSets

CONSTANTS
  Adapters,      \* the names in the registry of constructors
  NameLists,     \* sequences of names that RunWithRegistry may be asked for
  Tools, Keys,   \* what adapters register
  Paths,         \* patterns of the HTTP mux
  MountOf,       \* /<name>/mcp
  GatewayPaths,  \* of the bridge, the Composio executor and the relay
  MaxOps,        \* bound on the registrations of one adapter
  Shared,        \* the one server of RunWithRegistry
  None

ASSUME NamesAssumption ==
  /\ MountOf \in [Adapters -> Paths] /\ GatewayPaths \subseteq Paths
  /\ Shared \notin Adapters /\ None \notin Adapters \cup {Shared}
  /\ IsFiniteSet(Adapters) /\ MaxOps \in Nat

VARIABLES
  mode,      \* "router" or "registry"
  asked,     \* the names it starts with, in their order
  pc,
  queue,     \* names still to be constructed or, for a router, to be served
  loaded,    \* adapters constructed and still to be registered
  current,   \* the adapter that is being registered or mounted, or None
  ops,       \* registrations that it has made
  built,     \* how often each constructor has run
  tools,     \* toolRegistry.tools
  wire,      \* wire[s][t]: the adapter that server s calls for tool t
  schema,    \* schema[s][k]: the adapter that has written key k last
  routes     \* what the mux serves at a path, None if nothing

vars == <<mode, asked, pc, queue, loaded, current, ops, built, tools, wire, schema, routes>>

Servers == Adapters \cup {Shared}

Instances == Adapters \X (Nat \ {0})

Names == Adapters \cup UNION {{l[i] : i \in DOMAIN l} : l \in NameLists}

Records == [name : Tools, hold : BOOLEAN, by : Instances]

Serving == {"gateway", "mcp", "vendor"}

ASSUME ListsAssumption == NameLists \subseteq Seq(Names)

ASSUME NoneAssumption == None \notin Instances \cup Serving

ServerOf(x) == IF mode = "router" THEN x[1] ELSE Shared

Orders(S) == {q \in [1 .. Cardinality(S) -> S] : \A i, j \in DOMAIN q : i # j => q[i] # q[j]}

TypeOK ==
  /\ mode \in {"router", "registry"}
  /\ pc \in {"construct", "setup", "register", "mount", "hooks", "listening", "failed",
             "panicked"}
  /\ asked \in Seq(Names) /\ queue \in Seq(Names)
  /\ loaded \in Seq(Instances)
  /\ current \in Instances \cup {None}
  /\ ops \in 0 .. MaxOps
  /\ built \in [Adapters -> Nat]
  /\ tools \in Seq(Records)
  /\ wire \in [Servers -> [Tools -> Instances \cup {None}]]
  /\ schema \in [Servers -> [Keys -> Instances \cup {None}]]
  /\ routes \in [Paths -> Serving \cup {None}]

(* Asked for nothing, RunWithRegistry takes all adapters, and like the     *)
(* router, which always does, in the order of a map: any.                  *)
Init ==
  /\ \/ mode = "router" /\ asked \in Orders(Adapters)
     \/ mode = "registry" /\ asked \in Orders(Adapters) \cup NameLists
  /\ queue = asked
  /\ pc = "construct" /\ loaded = << >> /\ current = None /\ ops = 0
  /\ built = [a \in Adapters |-> 0]
  /\ tools = << >>
  /\ wire = [s \in Servers |-> [t \in Tools |-> None]]
  /\ schema = [s \in Servers |-> [k \in Keys |-> None]]
  /\ routes = [p \in Paths |-> IF mode = "router" /\ p \in GatewayPaths
                                 THEN "gateway" ELSE None]

---------------------------------------------------------------------------------
Fresh(a) == <<a, built[a] + 1>>

Build(a) == built' = [built EXCEPT ![a] = @ + 1]

(* Fault: an adapter that cannot be constructed is passed over.            *)
FailPassesOver ==
  /\ pc \in {"construct", "hooks"} /\ queue # << >>
  /\ pc' = "construct" /\ queue' = Tail(queue) /\ current' = None
  /\ UNCHANGED <<mode, asked, loaded, ops, built, tools, wire, schema, routes>>

(* LoadConfig cannot read or parse the file, a constructor returns an      *)
(* error, a name has no constructor, there is nothing to run.              *)
Fail ==
  /\ pc \in {"construct", "hooks"}
  /\ pc' = "failed"
  /\ UNCHANGED <<mode, asked, queue, loaded, current, ops, built, tools, wire, schema, routes>>

(* Fault: a name without a constructor yields a nil adapter.               *)
ConstructAllNil ==
  /\ pc = "construct" /\ mode = "registry" /\ queue # << >>
  /\ IF Head(queue) \in Adapters
       THEN Build(Head(queue)) /\ loaded' = Append(loaded, Fresh(Head(queue)))
       ELSE UNCHANGED built /\ loaded' = Append(loaded, None)
  /\ queue' = Tail(queue)
  /\ UNCHANGED <<mode, asked, pc, current, ops, tools, wire, schema, routes>>

(* getAdapters, for RunWithRegistry: every adapter before anything else.   *)
ConstructAll ==
  /\ pc = "construct" /\ mode = "registry" /\ queue # << >>
  /\ Head(queue) \in Adapters
  /\ Build(Head(queue))
  /\ loaded' = Append(loaded, Fresh(Head(queue)))
  /\ queue' = Tail(queue)
  /\ UNCHANGED <<mode, asked, pc, current, ops, tools, wire, schema, routes>>

(* LoadConfig and RunWithConfig, whose setup function resets the registry  *)
(* once for all the adapters.                                              *)
SetUp ==
  /\ pc = "construct" /\ mode = "registry" /\ queue = << >>
  /\ pc' = "setup" /\ tools' = << >>
  /\ UNCHANGED <<mode, asked, queue, loaded, current, ops, built, wire, schema, routes>>

(* Fault: the registry is reset for every adapter of the server.           *)
RegisterNextResets ==
  /\ pc = "setup"
  /\ IF loaded = << >> THEN pc' = "listening" /\ UNCHANGED <<loaded, current>>
     ELSE pc' = "register" /\ current' = Head(loaded) /\ loaded' = Tail(loaded)
  /\ ops' = 0 /\ tools' = << >>
  /\ UNCHANGED <<mode, asked, queue, built, wire, schema, routes>>

RegisterNext ==
  /\ pc = "setup"
  /\ IF loaded = << >> THEN pc' = "listening" /\ UNCHANGED <<loaded, current>>
     ELSE pc' = "register" /\ current' = Head(loaded) /\ loaded' = Tail(loaded)
  /\ ops' = 0
  /\ UNCHANGED <<mode, asked, queue, built, tools, wire, schema, routes>>

(* HandlerForAdapter: a fresh config, a fresh server, an adapter of its    *)
(* own, and PrepareAdapterRegistration, which resets the registry.         *)
PrepareAdapterRegistration ==
  /\ pc = "construct" /\ mode = "router" /\ queue # << >>
  /\ Build(Head(queue))
  /\ pc' = "register" /\ current' = Fresh(Head(queue))
  /\ ops' = 0 /\ tools' = << >>
  /\ UNCHANGED <<mode, asked, queue, loaded, wire, schema, routes>>

---------------------------------------------------------------------------------
(* What Register does.                                                     *)

Registering == pc = "register" /\ ops < MaxOps /\ ops' = ops + 1

Record(t, hold) == tools' = Append(tools, [name |-> t, hold |-> hold, by |-> current])

(* Fault: a held tool goes to the server like the others.                  *)
AddToolHeld(t, hold) ==
  /\ Registering
  /\ Record(t, hold)
  /\ wire' = [wire EXCEPT ![ServerOf(current)][t] = current]
  /\ UNCHANGED <<mode, asked, pc, queue, loaded, current, built, schema, routes>>

(* AddTool: the record first; a held tool ends there, any other replaces   *)
(* the tool of its name on the server.                                     *)
AddTool(t, hold) ==
  /\ Registering
  /\ Record(t, hold)
  /\ wire' = IF hold THEN wire ELSE [wire EXCEPT ![ServerOf(current)][t] = current]
  /\ UNCHANGED <<mode, asked, pc, queue, loaded, current, built, schema, routes>>

(* A tool without a name panics unrecorded, one whose input schema cannot  *)
(* be inferred panics recorded.                                            *)
AddToolPanics ==
  /\ pc = "register"
  /\ pc' = "panicked"
  /\ \/ UNCHANGED tools
     \/ \E t \in Tools : Record(t, FALSE)
  /\ UNCHANGED <<mode, asked, queue, loaded, current, ops, built, wire, schema, routes>>

(* Fault: the servers share the map that the config file gave.             *)
WriteSchemaShared(k) ==
  /\ Registering
  /\ schema' = [s \in Servers |-> [schema[s] EXCEPT ![k] = current]]
  /\ UNCHANGED <<mode, asked, pc, queue, loaded, current, built, tools, wire, routes>>

WriteSchema(k) ==
  /\ Registering
  /\ schema' = [schema EXCEPT ![ServerOf(current)][k] = current]
  /\ UNCHANGED <<mode, asked, pc, queue, loaded, current, built, tools, wire, routes>>

RegisterReturns ==
  /\ pc = "register"
  /\ pc' = IF mode = "router" THEN "mount" ELSE "setup"
  /\ UNCHANGED <<mode, asked, queue, loaded, current, ops, built, tools, wire, schema, routes>>

---------------------------------------------------------------------------------
(* RunWithRouter: mux.Handle panics on a pattern that is taken.            *)

Handle(p, x, then) ==
  IF routes[p] = None THEN routes' = [routes EXCEPT ![p] = x] /\ pc' = then
  ELSE pc' = "panicked" /\ UNCHANGED routes

Mount ==
  /\ pc = "mount"
  /\ Handle(MountOf[current[1]], "mcp", "hooks")
  /\ UNCHANGED <<mode, asked, queue, loaded, current, ops, built, tools, wire, schema>>

(* The adapter is constructed a second time, for its vendor routes.        *)
ConstructHooks ==
  /\ pc = "hooks" /\ current[2] = built[current[1]]
  /\ Build(current[1])
  /\ UNCHANGED <<mode, asked, pc, queue, loaded, current, ops, tools, wire, schema, routes>>

(* RegisterWebhook, RegisterInboundVendor.                                 *)
RegisterHook(p) ==
  /\ pc = "hooks" /\ current[2] < built[current[1]]
  /\ Handle(p, "vendor", pc)
  /\ UNCHANGED <<mode, asked, queue, loaded, current, ops, built, tools, wire, schema>>

NextAdapter ==
  /\ pc = "hooks" /\ current[2] < built[current[1]]
  /\ pc' = "construct" /\ queue' = Tail(queue)
  /\ UNCHANGED <<mode, asked, loaded, current, ops, built, tools, wire, schema, routes>>

Listen ==
  /\ pc = "construct" /\ mode = "router" /\ queue = << >> /\ current # None
  /\ pc' = "listening"
  /\ UNCHANGED <<mode, asked, queue, loaded, current, ops, built, tools, wire, schema, routes>>

Next ==
  \/ Fail \/ ConstructAll \/ SetUp \/ RegisterNext \/ PrepareAdapterRegistration
  \/ \E t \in Tools, hold \in BOOLEAN : AddTool(t, hold)
  \/ AddToolPanics \/ RegisterReturns
  \/ \E k \in Keys : WriteSchema(k)
  \/ Mount \/ ConstructHooks
  \/ \E p \in Paths : RegisterHook(p)
  \/ NextAdapter \/ Listen

Spec == Init /\ [][Next]_vars

---------------------------------------------------------------------------------
(* Properties.                                                             *)

RegisteredNames(hold) == {tools[i].name : i \in {j \in DOMAIN tools : tools[j].hold = hold}}

OnWire(s) == {t \in Tools : wire[s][t] # None}

(* addtool.go:15: "Held tools are recorded in the hold registry for        *)
(* CI/catalog but omitted from the MCP wire".  Once an adapter is          *)
(* registered, PublishableToolNames is what a client of its server can     *)
(* list, for all adapters of a shared server together: a held name is on   *)
(* the wire only if it was registered without hold as well.                *)
HoldListsMatchWire ==
  pc \in {"mount", "hooks", "listening"} /\ current # None =>
    RegisteredNames(FALSE) = OnWire(ServerOf(current))

(* Adapters of a router have nothing of each other: the tools and the      *)
(* config keys of a server are those of one construction of its adapter,   *)
(* although they all register one after another in the same process, with  *)
(* the same config file and the same registry.                             *)
OwnServer ==
  mode = "router" =>
    \A s \in Servers :
      \A t \in Tools, k \in Keys :
        /\ wire[s][t] # None => wire[s][t][1] = s
        /\ schema[s][k] # None => schema[s][k][1] = s
        /\ wire[s][t] # None /\ schema[s][k] # None => wire[s][t] = schema[s][k]

(* A process listens with all of the adapters it was asked for or not at   *)
(* all, whichever of them cannot be constructed and in whatever order they *)
(* come; a router constructs each twice, and its routes lead to them all,  *)
(* none shadowed by a vendor's route or a gateway.                         *)
Occurrences(a) == Cardinality({i \in DOMAIN asked : asked[i] = a})

AllOrNothing ==
  pc = "listening" =>
    /\ \A a \in Adapters :
         built[a] = (IF mode = "router" THEN 2 ELSE 1) * Occurrences(a)
    /\ mode = "router" =>
         /\ \A a \in Adapters : routes[MountOf[a]] = "mcp"
         /\ \A p \in GatewayPaths : routes[p] = "gateway"
    /\ \A i \in DOMAIN asked : asked[i] \in Adapters
=================================================================================
